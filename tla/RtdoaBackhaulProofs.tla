------------------------ MODULE RtdoaBackhaulProofs ------------------------
(***************************************************************************)
(* Proofs about RtdoaBackhaul, about the channel it implements             *)
(* (BackhaulRefinement) and about its listens against the clock            *)
(* (BackhaulRadio), for every value of their constants.                    *)
(***************************************************************************)
EXTENDS BackhaulRefinement, BackhaulRadio, FiniteSetTheorems, SequenceTheorems, TLAPS

\* Only the main task drains the queue, only the slot task listens.
PcOK == /\ pc["main"] \in {"idle"} \cup SendPc \cup DrainPc
        /\ pc["slot"] \in {"idle"} \cup SendPc \cup ListenPc

\* A task holds a package exactly while it fills, queues, frees or prints it.
Holding == \A t \in Task :
  om[t] \in IF pc[t] \in {"alloc", "copy", "put", "fail", "process"}
            THEN Package
            ELSE {NoPackage}

\* The inductive part of type correctness, on which every later proof rests.
Shape == TypeOK /\ PcOK /\ Holding

USE DEF Task, Role, Source, SendPc, DrainPc, ListenPc

\* What is left of a listen fits the timeout register.
LEMMA TimeLeftRange ==
  ASSUME TypeOK, NEW ts \in RxTimes
  PROVE  TimeLeft(ts) \in 0 .. TimeoutMod - 1
BY TimeAssumption DEF TypeOK, TimeLeft

\* Stated for the multiplication of a timeout by Tick.
LEMMA ProductInNat == \A m, n \in Nat : m * n \in Nat
OBVIOUS

\* A sequence number counted up stays one.
LEMMA SeqRange ==
  ASSUME NEW n \in Nat
  PROVE  (n + 1) % SeqMod \in 0 .. SeqMod - 1
BY SeqAssumption

\* The library starts in shape.
LEMMA ShapeInit == Init => Shape
BY SeqAssumption, TimeAssumption
  DEF Init, Shape, TypeOK, PcOK, Holding, NoPackage, Package

\* rx_complete_cb, whichever way it returns, keeps the shape.
LEMMA ShapeRx ==
  ASSUME Shape, RxComplete
  PROVE  Shape'
<1> USE DEF Shape, TypeOK, PcOK, Holding
<1>1. PICK ts \in RxTimes :
        \/ RxForeign(ts)
        \/ RxIgnored(ts)
        \/ \E p \in Peer, s \in 0 .. SeqMod - 1 :
             \/ RxDuplicate(p, s, ts)
             \/ RxNoMbuf(p, s, ts)
             \/ \E n \in RxLengths : RxQueued(p, s, n, ts) \/ RxCopyFails(p, s, n, ts)
  BY DEF RxComplete
<1>2. TimeLeft(ts) \in 0 .. TimeoutMod - 1
  BY TimeLeftRange
<1>3. AdjustTimeout(ts) => rxTo' \in 0 .. TimeoutMod - 1
  BY <1>2 DEF AdjustTimeout
<1>4. Wake => /\ sem' \in Nat
              /\ pc' \in [Task -> {"idle"} \cup SendPc \cup DrainPc \cup ListenPc]
              /\ pc'["main"] = pc["main"]
              /\ pc'["slot"] = pc["slot"] \/ {pc["slot"], pc'["slot"]} \subseteq ListenPc
  BY DEF Wake, SemRelease, Waiting
<1>5. CASE RxForeign(ts)
  BY <1>5, <1>3 DEF RxForeign
<1>6. CASE RxIgnored(ts)
  BY <1>6, <1>3, <1>4 DEF RxIgnored
<1>7. ASSUME NEW p \in Peer, NEW s \in 0 .. SeqMod - 1, RxDuplicate(p, s, ts)
      PROVE  Shape'
  BY <1>7, <1>3 DEF RxDuplicate
<1>8. ASSUME NEW p \in Peer, NEW s \in 0 .. SeqMod - 1, RxNoMbuf(p, s, ts)
      PROVE  Shape'
  BY <1>8, <1>3, <1>4 DEF RxNoMbuf
<1>9. ASSUME NEW p \in Peer, NEW s \in 0 .. SeqMod - 1, NEW n \in RxLengths,
             RxQueued(p, s, n, ts)
      PROVE  Shape'
  <2>1. PICK chain \in SUBSET free : rxq' = Append(rxq, [src |-> p, seq |-> s, dlen |-> n, blks |-> chain]) /\ free' = free \ chain
    BY <1>9 DEF RxQueued
  <2>2. [src |-> p, seq |-> s, dlen |-> n, blks |-> chain] \in Package
    BY LengthAssumption DEF Package
  <2>3. evq' \in Seq({"rx", "imu"})
    BY <1>9 DEF RxQueued, Post
  <2>4. QED
  BY <1>9, <1>3, <1>4, <2>1, <2>2, <2>3 DEF RxQueued
<1>10. ASSUME NEW p \in Peer, NEW s \in 0 .. SeqMod - 1, NEW n \in RxLengths,
              RxCopyFails(p, s, n, ts)
       PROVE  Shape'
  BY <1>10, <1>3 DEF RxCopyFails
<1>11. QED
  BY <1>1, <1>5, <1>6, <1>7, <1>8, <1>9, <1>10

\* A step of rtdoa_local_send, in either task, keeps the shape.
LEMMA ShapeLocalSend ==
  ASSUME Shape, NEW t \in Task, LocalSendStep(t)
  PROVE  Shape'
<1> USE DEF Shape, TypeOK, PcOK, Holding, Goto
<1>1. CASE GetPkthdr(t) \/ CopyExtend(t)
  <2>1. pc[t] \in {"alloc", "copy"} /\ om[t] \in Package
    BY <1>1 DEF GetPkthdr, CopyExtend
  <2>2. PICK b \in free : /\ free' = free \ {b}
                          /\ om' = [om EXCEPT ![t] = Extended(om[t], b)]
    BY <1>1 DEF GetPkthdr, CopyExtend, TakeBlock
  <2>3. Extended(om[t], b) \in Package
    BY <2>1, <2>2 DEF Package, Extended
  <2>4. QED
    BY <1>1, <2>1, <2>2, <2>3 DEF GetPkthdr, CopyExtend
<1>2. CASE NoPkthdr(t)
  BY <1>2 DEF NoPkthdr, NoPackage
<1>3. CASE CopyDone(t) \/ CopyFails(t)
  BY <1>3 DEF CopyDone, CopyFails
<1>4. CASE FreeChain(t)
  <2>1. om[t].blks \subseteq Block
    BY <1>4 DEF FreeChain, Package
  <2>2. QED
    BY <1>4, <2>1 DEF FreeChain
<1>5. CASE MqueueInsert(t)
  BY <1>5 DEF MqueueInsert
<1>6. CASE MqueueSignal(t)
  <2>1. evq' \in Seq({"rx", "imu"})
    BY <1>6 DEF MqueueSignal, Post
  <2>2. QED
    BY <1>6, <2>1 DEF MqueueSignal
<1>7. QED
  BY <1>1, <1>2, <1>3, <1>4, <1>5, <1>6 DEF LocalSendStep

\* A step of the main task keeps the shape.
LEMMA ShapeMain ==
  ASSUME Shape, MainStep
  PROVE  Shape'
<1> USE DEF Shape, TypeOK, PcOK, Holding, Goto
<1>1. CASE DispatchRx
  <2>1. evq' \in Seq({"rx", "imu"})
    BY <1>1 DEF DispatchRx
  <2>2. QED
    BY <1>1, <2>1 DEF DispatchRx
<1>2. CASE MqueueGet
  <2>1. Head(rxq) \in Package /\ Tail(rxq) \in Seq(Package)
    BY <1>2 DEF MqueueGet
  <2>2. QED
    BY <1>2, <2>1 DEF MqueueGet
<1>3. CASE ProcessPackage
  <2>1. om["main"].blks \subseteq Block
    BY <1>3 DEF ProcessPackage, Package
  <2>2. QED
    BY <1>3, <2>1 DEF ProcessPackage
<1>4. CASE SendImuOnly
  <2>0. evq' \in Seq({"rx", "imu"})
    BY <1>4 DEF SendImuOnly
  <2>1. seq' \in [Task -> 0 .. SeqMod - 1]
    BY <1>4, SeqRange, SeqAssumption DEF SendImuOnly, CountPackage
  <2> DEFINE pkg == [src |-> "main", seq |-> seq'["main"], dlen |-> 1, blks |-> {}]
  <2>2. pkg \in Package
    BY <2>1 DEF Package
  <2>3. /\ UNCHANGED <<role, free, rxq, last, sem, gTo, rxTo>>
        /\ om' = [om EXCEPT !["main"] = pkg]
        /\ pc' = [pc EXCEPT !["main"] = "alloc"]
    BY <1>4 DEF SendImuOnly, LocalSend
  <2> HIDE DEF pkg
  <2>4. QED
    BY <2>0, <2>1, <2>2, <2>3
<1>5. CASE LocalSendStep("main")
  BY <1>5, ShapeLocalSend
<1>6. CASE DrainEnd
  BY <1>6 DEF DrainEnd
<1>7. QED
  BY <1>1, <1>2, <1>3, <1>4, <1>5, <1>6 DEF MainStep

\* A step of rtdoa_backhaul_listen or of the slot task's send keeps the shape.
LEMMA ShapeSlot ==
  ASSUME Shape, SlotStep
  PROVE  Shape'
<1> USE DEF Shape, TypeOK, PcOK, Holding, Goto
<1>1. CASE ListenPend1 \/ ListenPend2
  BY <1>1 DEF ListenPend1, ListenPend2, SemPend
<1>2. ASSUME NEW l \in Listens, ListenArm(l[1], l[2])
      PROVE  Shape'
  <2>1. l[1] \in Nat /\ l[2] \in 0 .. TimeoutMod - 1
    BY TimeAssumption
  <2>2. l[2] \in Nat /\ Tick \in Nat
    BY <2>1, TimeAssumption
  <2>3. l[2] * Tick \in Nat
    BY <2>2, ProductInNat
  <2>4. l[1] + l[2] * Tick \in Nat
    BY <2>1, <2>3
  <2>5. QED
    BY <1>2, <2>1, <2>4 DEF ListenArm
<1>3. CASE \E error \in BOOLEAN : ListenStart(error)
  BY <1>3 DEF ListenStart
<1>4. CASE ListenRelease \/ ListenReturn
  BY <1>4 DEF ListenRelease, ListenReturn
<1>5. CASE LocalSendStep("slot")
  BY <1>5, ShapeLocalSend
<1>6. QED
  BY <1>1, <1>2, <1>3, <1>4, <1>5 DEF SlotStep

\* tx_complete_cb and the application's calls keep the shape.
LEMMA ShapeCall ==
  ASSUME Shape, TxComplete \/ Call
  PROVE  Shape'
<1> USE DEF Shape, TypeOK, PcOK, Holding, Goto
<1>1. CASE TxComplete
  BY <1>1 DEF TxComplete, Wake, SemRelease, Waiting
<1>2. CASE \E r \in Role : SetRole(r)
  BY <1>2 DEF SetRole
<1>3. CASE SensorTimer
  <2>1. evq' \in Seq({"rx", "imu"})
    BY <1>3 DEF SensorTimer, Post
  <2>2. QED
    BY <1>3, <2>1 DEF SensorTimer
<1>4. ASSUME NEW n \in ResultLengths, SendResult(n)
      PROVE  Shape'
  <2>1. seq' \in [Task -> 0 .. SeqMod - 1]
    BY <1>4, SeqRange, SeqAssumption DEF SendResult, CountPackage
  <2>2. [src |-> "slot", seq |-> seq'["slot"], dlen |-> n, blks |-> {}] \in Package
    BY <2>1, LengthAssumption DEF Package
  <2> DEFINE pkg == [src |-> "slot", seq |-> seq'["slot"], dlen |-> n, blks |-> {}]
  <2>3. /\ UNCHANGED <<role, free, rxq, evq, last, sem, gTo, rxTo>>
        /\ pc["slot"] = "idle"
        /\ \/ /\ om' = [om EXCEPT !["slot"] = pkg]
              /\ pc' = [pc EXCEPT !["slot"] = "alloc"]
           \/ UNCHANGED <<om, pc>>
    BY <1>4 DEF SendResult, LocalSend
  <2> HIDE DEF pkg
  <2>4. pkg \in Package
    BY <2>2 DEF pkg
  <2>5. QED
    BY <2>1, <2>3, <2>4
<1>5. CASE ListenCall
  BY <1>5 DEF ListenCall
<1>6. QED
  BY <1>1, <1>2, <1>3, <1>4, <1>5 DEF Call

\* Every step keeps the shape.
LEMMA ShapeNext ==
  ASSUME Shape, [Next]_vars
  PROVE  Shape'
<1>1. CASE UNCHANGED vars
  BY <1>1 DEF vars, Shape, TypeOK, PcOK, Holding
<1>2. QED
  BY <1>1, ShapeRx, ShapeMain, ShapeSlot, ShapeCall DEF Next

\* Every variable keeps its type, and a task that has no package in hand has
\* no chain in om.
THEOREM ShapeCorrect == Spec => []Shape
<1>1. Init => Shape
  BY ShapeInit
<1>2. Shape /\ [Next]_vars => Shape'
  BY ShapeNext
<1>3. QED
  BY <1>1, <1>2, PTL DEF Spec

\* Every variable of the library keeps its type in every interleaving.
THEOREM TypeCorrect == Spec => []TypeOK
<1>1. Shape => TypeOK
  BY DEF Shape
<1>2. QED
  BY <1>1, ShapeCorrect, PTL
-----------------------------------------------------------------------------
(***************************************************************************)
(* g_sem: what the token count can be at each place of the listen.         *)
(***************************************************************************)

\* How many tokens g_sem can have at each place of rtdoa_backhaul_listen.
Tokens ==
  LET l == pc["slot"] IN
  /\ sem <= 2
  /\ l \notin ListenPc \/ l \in {"pend1", "clear"} => sem >= 1
  /\ l \in {"arm", "start", "release"} => sem <= 1
  /\ l = "wait2" => sem = 0
  /\ l # "wait1"

\* g_sem starts with one token and no listen.
LEMMA TokensInit == Init => Tokens
BY DEF Init, Tokens

\* No release, guarded or not, exceeds the count its place allows.
LEMMA TokensNext ==
  ASSUME Shape, Tokens, [Next]_vars
  PROVE  Tokens'
<1> USE DEF Shape, TypeOK, PcOK, Tokens, Goto
<1>1. ASSUME Wake
      PROVE  Tokens'
  BY <1>1 DEF Wake, SemRelease, Waiting
<1>2. ASSUME UNCHANGED <<sem, pc>>
      PROVE  Tokens'
  BY <1>2
<1>3. ASSUME UNCHANGED sem, NEW t \in Task, NEW l \in {"idle"} \cup SendPc \cup DrainPc,
             pc[t] \notin ListenPc, Goto(t, l)
      PROVE  Tokens'
  BY <1>3
<1>4. CASE RxComplete
  BY <1>1, <1>2, <1>4
     DEF RxComplete, RxForeign, RxIgnored, RxDuplicate, RxNoMbuf, RxQueued, RxCopyFails
<1>5. CASE TxComplete
  BY <1>1, <1>5 DEF TxComplete
<1>6. ASSUME NEW t \in Task, LocalSendStep(t)
      PROVE  Tokens'
  BY <1>2, <1>3, <1>6
     DEF LocalSendStep, GetPkthdr, NoPkthdr, CopyExtend, CopyDone, CopyFails,
         FreeChain, MqueueInsert, MqueueSignal
<1>7. CASE MainStep
  BY <1>3, <1>6, <1>7
     DEF MainStep, DispatchRx, MqueueGet, ProcessPackage, DrainEnd, SendImuOnly, LocalSend
<1>8. CASE SlotStep
  BY <1>6, <1>8
     DEF SlotStep, ListenPend1, ListenArm, ListenStart, ListenPend2, SemPend,
         ListenRelease, ListenReturn
<1>9. CASE Call
  BY <1>2, <1>3, <1>9
     DEF Call, SetRole, SensorTimer, SendResult, LocalSend, ListenCall
<1>10. QED
  BY <1>2, <1>4, <1>5, <1>7, <1>8, <1>9 DEF Next, vars

\* The two unguarded releases of rtdoa_backhaul_listen and the guarded one of
\* the callbacks never pile up more than two tokens, and a task that calls
\* rtdoa_backhaul_listen finds one.
THEOREM TokensCorrect == Spec => []TokensBounded
<1>1. Tokens => TokensBounded
  BY DEF Tokens, TokensBounded
<1>2. Shape /\ Tokens /\ [Next]_vars => Tokens'
  BY TokensNext
<1>3. QED
  BY <1>1, <1>2, TokensInit, ShapeCorrect, PTL DEF Spec

-----------------------------------------------------------------------------
(***************************************************************************)
(* The default event queue: nothing stays on rxpkt_q unannounced.          *)
(***************************************************************************)

\* The event e waits in the default event queue.
Pending(e) == \E i \in 1 .. Len(evq) : evq[i] = e

\* os_eventq_put leaves its event pending, and every event that was.
LEMMA PostPends ==
  ASSUME TypeOK, NEW e \in {"rx", "imu"}, Post(e)
  PROVE  /\ Pending(e)'
         /\ \A d : Pending(d) => Pending(d)'
<1>1. CASE Pending(e)
  BY <1>1 DEF Post, Pending
<1>2. CASE ~Pending(e)
  <2>1. evq' = Append(evq, e) /\ evq \in Seq({"rx", "imu"})
    BY <1>2 DEF Post, Pending, TypeOK
  <2>2. /\ Len(evq') = Len(evq) + 1
        /\ evq'[Len(evq) + 1] = e
        /\ \A i \in 1 .. Len(evq) : evq'[i] = evq[i]
    BY <2>1
  <2>3. QED
    BY <2>1, <2>2 DEF Pending
<1>3. QED
  BY <1>1, <1>2

\* Taking the first event off the queue leaves the others pending.
LEMMA TailPends ==
  ASSUME TypeOK, evq # <<>>, evq' = Tail(evq), NEW d, d # Head(evq), Pending(d)
  PROVE  Pending(d)'
<1>1. PICK i \in 1 .. Len(evq) : evq[i] = d
  BY DEF Pending
<1>2. /\ i - 1 \in 1 .. Len(Tail(evq))
      /\ Tail(evq)[i - 1] = evq[i]
  BY <1>1 DEF TypeOK
<1>3. QED
  BY <1>1, <1>2 DEF Pending

\* Nothing is queued at the start.
LEMMA WakeupInit == Init => NoLostWakeup
BY DEF Init, NoLostWakeup

\* No step leaves a package on rxpkt_q unannounced.
LEMMA WakeupNext ==
  ASSUME Shape, NoLostWakeup, [Next]_vars
  PROVE  NoLostWakeup'
<1> USE DEF Shape, PcOK, Goto, NoLostWakeup
<1>0. TypeOK /\ pc \in [Task -> {"idle"} \cup SendPc \cup DrainPc \cup ListenPc]
  BY DEF TypeOK
<1>1. ASSUME Pending("rx")'
      PROVE  NoLostWakeup'
  BY <1>1 DEF Pending
<1>2. ASSUME UNCHANGED <<rxq, evq>>, Wake \/ UNCHANGED pc
      PROVE  NoLostWakeup'
  <2>1. /\ pc'["main"] = pc["main"]
        /\ pc["slot"] = "signal" => pc'["slot"] = "signal"
    BY <1>0, <1>2 DEF Wake, SemRelease, Waiting
  <2>2. QED
    BY <1>2, <2>1
<1>3. ASSUME UNCHANGED <<rxq, evq>>, NEW t \in Task,
             pc[t] \notin DrainPc \cup {"signal"}, NEW l, Goto(t, l)
      PROVE  NoLostWakeup'
  BY <1>0, <1>3
<1>4. CASE RxComplete
  <2>1. ASSUME NEW p \in Peer, NEW s \in 0 .. SeqMod - 1, NEW n \in RxLengths,
               NEW ts \in RxTimes, RxQueued(p, s, n, ts)
        PROVE  NoLostWakeup'
    BY <1>0, <1>1, <2>1, PostPends DEF RxQueued
  <2>2. QED
    BY <1>2, <1>4, <2>1
       DEF RxComplete, RxForeign, RxIgnored, RxDuplicate, RxNoMbuf, RxCopyFails
<1>5. CASE TxComplete
  BY <1>2, <1>5 DEF TxComplete
<1>6. ASSUME NEW t \in Task, LocalSendStep(t)
      PROVE  NoLostWakeup'
  <2>1. CASE MqueueInsert(t)
    BY <1>0, <2>1 DEF MqueueInsert
  <2>2. CASE MqueueSignal(t)
    BY <1>0, <1>1, <2>2, PostPends DEF MqueueSignal
  <2>3. CASE CopyExtend(t)
    BY <1>2, <2>3 DEF CopyExtend
  <2>4. CASE GetPkthdr(t) \/ NoPkthdr(t) \/ CopyDone(t) \/ CopyFails(t) \/ FreeChain(t)
    BY <1>3, <2>4 DEF GetPkthdr, NoPkthdr, CopyDone, CopyFails, FreeChain
  <2>5. QED
    BY <1>6, <2>1, <2>2, <2>3, <2>4 DEF LocalSendStep
<1>7. CASE MainStep
  <2>1. CASE DispatchRx \/ MqueueGet \/ ProcessPackage
    BY <1>0, <2>1 DEF DispatchRx, MqueueGet, ProcessPackage
  <2>2. CASE DrainEnd
    BY <2>2 DEF DrainEnd
  <2>3. CASE SendImuOnly
    <3>1. Pending("rx") => Pending("rx")'
      BY <1>0, <2>3, TailPends DEF SendImuOnly
    <3>2. QED
      BY <1>0, <1>1, <2>3, <3>1 DEF SendImuOnly, LocalSend, Pending
  <2>4. QED
    BY <1>6, <1>7, <2>1, <2>2, <2>3 DEF MainStep
<1>8. CASE SlotStep
  <2>1. CASE ListenPend1 \/ ListenPend2
    BY <1>3, <2>1 DEF ListenPend1, ListenPend2, SemPend
  <2>2. QED
    BY <1>3, <1>6, <1>8, <2>1
       DEF SlotStep, ListenArm, ListenStart, ListenRelease, ListenReturn
<1>9. CASE Call
  <2>1. CASE SensorTimer
    <3>1. Pending("rx") => Pending("rx")'
      BY <1>0, <2>1, PostPends DEF SensorTimer
    <3>2. QED
      BY <1>1, <2>1, <3>1 DEF SensorTimer, Pending
  <2>2. QED
    BY <1>2, <1>3, <1>9, <2>1 DEF Call, SetRole, SendResult, LocalSend, ListenCall
<1>10. CASE UNCHANGED vars
  BY <1>2, <1>10 DEF vars
<1>11. QED
  BY <1>4, <1>5, <1>7, <1>8, <1>9, <1>10 DEF Next

\* Whatever the interleaving of putters and the main task, a package on
\* rxpkt_q has an event, or a task about to post one, to have it processed.
THEOREM WakeupCorrect == Spec => []NoLostWakeup
<1>1. Shape /\ NoLostWakeup /\ [Next]_vars => NoLostWakeup'
  BY WakeupNext
<1>2. QED
  BY <1>1, WakeupInit, ShapeCorrect, PTL DEF Spec
-----------------------------------------------------------------------------
(***************************************************************************)
(* g_mbuf_pool: every block has one owner.                                 *)
(***************************************************************************)

\* At the start every block is in the pool.
LEMMA OwnerInit == Init => SingleOwner
BY DEF Init, SingleOwner, Chain, Held, NoPackage

\* A package is appended whose chain belonged to the pool or to a task.
LEMMA OwnerAppend ==
  ASSUME Shape, SingleOwner, NEW p \in Package, rxq' = Append(rxq, p),
         p.blks \cap free' = {}, free' \subseteq free,
         \A i \in 1 .. Len(rxq) : p.blks \cap Chain(i) = {},
         \A t \in Task : om'[t].blks \subseteq om[t].blks /\ om'[t].blks \cap p.blks = {}
  PROVE  SingleOwner'
<1>1. /\ Len(rxq) \in Nat
      /\ Len(rxq') = Len(rxq) + 1
      /\ rxq'[Len(rxq) + 1] = p
      /\ \A i \in 1 .. Len(rxq) : rxq'[i] = rxq[i]
  BY DEF Shape, TypeOK
<1>2. QED
  BY <1>1 DEF SingleOwner, Chain, Held

\* The queue stays, the pool and the tasks' chains exchange blocks.
LEMMA OwnerExchange ==
  ASSUME Shape, SingleOwner, UNCHANGED rxq, NEW t \in Task,
         free' \cup Held(t)' \subseteq free \cup Held(t),
         free' \cap Held(t)' = {},
         \A u \in Task : u # t => om'[u] = om[u]
  PROVE  SingleOwner'
BY DEF SingleOwner, Chain, Held

\* rx_complete_cb takes the blocks of a chain out of the pool.
LEMMA OwnerRx ==
  ASSUME Shape, SingleOwner, RxComplete
  PROVE  SingleOwner'
<1>1. ASSUME NEW ts \in RxTimes, NEW p \in Peer, NEW s \in 0 .. SeqMod - 1,
             NEW n \in RxLengths, RxQueued(p, s, n, ts)
      PROVE  SingleOwner'
  <2>1. PICK chain \in SUBSET free :
          /\ free' = free \ chain
          /\ rxq' = Append(rxq, [src |-> p, seq |-> s, dlen |-> n, blks |-> chain])
    BY <1>1 DEF RxQueued
  <2>2. [src |-> p, seq |-> s, dlen |-> n, blks |-> chain] \in Package
    BY <2>1, LengthAssumption DEF Package, Shape, TypeOK
  <2>3. /\ \A i \in 1 .. Len(rxq) : chain \cap Chain(i) = {}
        /\ \A t \in Task : om'[t].blks \cap chain = {} /\ om'[t] = om[t]
    BY <1>1, <2>1 DEF RxQueued, SingleOwner, Held
  <2>4. QED
    BY <2>1, <2>2, <2>3, OwnerAppend
<1>2. ASSUME NEW ts \in RxTimes, NEW p \in Peer, NEW s \in 0 .. SeqMod - 1,
             NEW n \in RxLengths, RxCopyFails(p, s, n, ts)
      PROVE  SingleOwner'
  BY <1>2 DEF RxCopyFails, SingleOwner, Chain, Held
<1>3. ASSUME UNCHANGED <<free, rxq, om>>
      PROVE  SingleOwner'
  BY <1>3 DEF SingleOwner, Chain, Held
<1>4. QED
  BY <1>1, <1>2, <1>3 DEF RxComplete, RxForeign, RxIgnored, RxDuplicate, RxNoMbuf

\* rtdoa_local_send moves blocks between the pool, the task and rxpkt_q.
LEMMA OwnerLocalSend ==
  ASSUME Shape, SingleOwner, NEW t \in Task, LocalSendStep(t)
  PROVE  SingleOwner'
<1> USE DEF Shape, TypeOK
<1>1. CASE GetPkthdr(t) \/ CopyExtend(t)
  <2>1. PICK b \in free : /\ free' = free \ {b}
                          /\ om' = [om EXCEPT ![t] = Extended(om[t], b)]
    BY <1>1 DEF GetPkthdr, CopyExtend, TakeBlock
  <2>2. Held(t)' = Held(t) \cup {b} /\ UNCHANGED rxq
    BY <1>1, <2>1 DEF Held, Extended, GetPkthdr, CopyExtend
  <2>3. QED
    BY <2>1, <2>2, OwnerExchange DEF SingleOwner
<1>2. CASE NoPkthdr(t)
  BY <1>2, OwnerExchange DEF NoPkthdr, Held, NoPackage
<1>3. CASE FreeChain(t)
  <2>1. Held(t)' = {} /\ free' = free \cup Held(t) /\ UNCHANGED rxq
    BY <1>3 DEF FreeChain, Held, NoPackage
  <2>2. QED
    BY <1>3, <2>1, OwnerExchange DEF FreeChain
<1>4. CASE MqueueInsert(t)
  <2>1. om[t] \in Package
    BY <1>4 DEF MqueueInsert, Holding
  <2>2. /\ om'[t].blks = {}
        /\ \A u \in Task : u # t => om'[u] = om[u] /\ om[t].blks \cap om[u].blks = {}
    BY <1>4 DEF MqueueInsert, NoPackage, SingleOwner, Held
  <2>3. /\ om[t].blks \cap free = {}
        /\ \A i \in 1 .. Len(rxq) : om[t].blks \cap Chain(i) = {}
    BY DEF SingleOwner, Held
  <2>4. QED
    BY <1>4, <2>1, <2>2, <2>3, OwnerAppend DEF MqueueInsert
<1>5. CASE CopyDone(t) \/ CopyFails(t) \/ MqueueSignal(t)
  BY <1>5 DEF CopyDone, CopyFails, MqueueSignal, SingleOwner, Chain, Held
<1>6. QED
  BY <1>1, <1>2, <1>3, <1>4, <1>5 DEF LocalSendStep

\* process_rx_data_queue moves a chain to the main task, then to the pool.
LEMMA OwnerMain ==
  ASSUME Shape, SingleOwner, MainStep
  PROVE  SingleOwner'
<1> USE DEF Shape, TypeOK
<1>1. CASE MqueueGet
  <2>1. /\ rxq \in Seq(Package) /\ rxq # <<>>
        /\ om' = [om EXCEPT !["main"] = Head(rxq)]
        /\ rxq' = Tail(rxq) /\ free' = free
    BY <1>1 DEF MqueueGet
  <2>2. /\ Len(rxq) \in Nat \ {0} /\ Len(rxq') = Len(rxq) - 1
        /\ \A i \in 1 .. Len(rxq') : rxq'[i] = rxq[i + 1]
    BY <2>1
  <2>3. om'["main"] = rxq[1] /\ om'["slot"] = om["slot"]
    BY <2>1
  <2>4. QED
    BY <2>1, <2>2, <2>3 DEF SingleOwner, Chain, Held
<1>2. CASE ProcessPackage
  <2>1. Held("main")' = {} /\ free' = free \cup Held("main") /\ UNCHANGED rxq
    BY <1>2 DEF ProcessPackage, Held, NoPackage
  <2>2. QED
    BY <1>2, <2>1, OwnerExchange DEF ProcessPackage
<1>3. CASE SendImuOnly
  <2>1. Held("main")' = {} /\ free' = free /\ UNCHANGED rxq
    BY <1>3 DEF SendImuOnly, LocalSend, Held
  <2>2. QED
    BY <1>3, <2>1, OwnerExchange DEF SendImuOnly, LocalSend
<1>4. CASE DispatchRx \/ DrainEnd
  BY <1>4 DEF DispatchRx, DrainEnd, SingleOwner, Chain, Held
<1>5. QED
  BY <1>1, <1>2, <1>3, <1>4, OwnerLocalSend DEF MainStep

\* No step gives a block a second owner.
LEMMA OwnerNext ==
  ASSUME Shape, SingleOwner, [Next]_vars
  PROVE  SingleOwner'
<1>1. ASSUME UNCHANGED <<free, rxq, om>>
      PROVE  SingleOwner'
  BY <1>1 DEF SingleOwner, Chain, Held
<1>2. CASE SlotStep
  BY <1>1, <1>2, OwnerLocalSend
     DEF SlotStep, ListenPend1, ListenArm, ListenStart, ListenPend2, ListenRelease,
         ListenReturn
<1>3. CASE Call
  <2>1. ASSUME NEW n \in ResultLengths, SendResult(n), LocalSend("slot", n)
        PROVE  SingleOwner'
    <3>1. Held("slot")' = {} /\ UNCHANGED <<free, rxq>>
      BY <2>1 DEF SendResult, LocalSend, Held, Shape, TypeOK
    <3>2. QED
      BY <2>1, <3>1, OwnerExchange DEF LocalSend, Shape, TypeOK
  <2>2. QED
    BY <1>1, <1>3, <2>1 DEF Call, SetRole, SensorTimer, SendResult, ListenCall
<1>4. QED
  BY <1>1, <1>2, <1>3, OwnerRx, OwnerMain DEF Next, TxComplete, vars

\* No interleaving of the two tasks and the callback hands out a block that
\* is in use or frees one twice.
THEOREM SingleOwnerCorrect == Spec => []SingleOwner
<1>1. Shape /\ SingleOwner /\ [Next]_vars => SingleOwner'
  BY OwnerNext
<1>2. QED
  BY <1>1, OwnerInit, ShapeCorrect, PTL DEF Spec
-----------------------------------------------------------------------------
(***************************************************************************)
(* A queued package is complete.                                           *)
(***************************************************************************)

\* A task about to queue its package has copied all of it.
PutComplete ==
  \A t \in Task : pc[t] = "put" => Cardinality(om[t].blks) = om[t].dlen

\* Nothing is queued, or about to be, at the start.
LEMMA CompleteInit == Init => CompletePackages /\ PutComplete
BY DEF Init, CompletePackages, PutComplete

\* Only what has been copied completely is queued.
LEMMA CompleteNext ==
  ASSUME Shape, CompletePackages, PutComplete, [Next]_vars
  PROVE  CompletePackages' /\ PutComplete'
<1> USE DEF Shape, TypeOK, Goto
<1>1. ASSUME NEW p \in Package, rxq' = Append(rxq, p), Cardinality(p.blks) = p.dlen
      PROVE  CompletePackages'
  <2>1. /\ Len(rxq) \in Nat
        /\ Len(rxq') = Len(rxq) + 1
        /\ rxq'[Len(rxq) + 1] = p
        /\ \A i \in 1 .. Len(rxq) : rxq'[i] = rxq[i]
    BY <1>1
  <2>2. QED
    BY <1>1, <2>1 DEF CompletePackages, Chain
<1>2. ASSUME UNCHANGED rxq
      PROVE  CompletePackages'
  BY <1>2 DEF CompletePackages, Chain
<1>3. ASSUME UNCHANGED om, Wake \/ UNCHANGED pc
      PROVE  PutComplete'
  BY <1>3 DEF PutComplete, Wake, SemRelease, Waiting
<1>4. ASSUME NEW t \in Task, NEW l, l # "put", Goto(t, l),
             \A u \in Task : u # t => om'[u] = om[u]
      PROVE  PutComplete'
  BY <1>4 DEF PutComplete
<1>5. CASE RxComplete
  <2>1. ASSUME NEW ts \in RxTimes, NEW p \in Peer, NEW s \in 0 .. SeqMod - 1,
               NEW n \in RxLengths, RxQueued(p, s, n, ts)
        PROVE  CompletePackages' /\ PutComplete'
    <3>1. PICK chain \in SUBSET free :
            /\ Cardinality(chain) = n
            /\ rxq' = Append(rxq, [src |-> p, seq |-> s, dlen |-> n, blks |-> chain])
      BY <2>1 DEF RxQueued
    <3>2. [src |-> p, seq |-> s, dlen |-> n, blks |-> chain] \in Package
      BY <3>1, LengthAssumption DEF Package
    <3>3. QED
      BY <1>1, <1>3, <2>1, <3>1, <3>2 DEF RxQueued
  <2>2. QED
    BY <1>2, <1>3, <1>5, <2>1
       DEF RxComplete, RxForeign, RxIgnored, RxDuplicate, RxNoMbuf, RxCopyFails
<1>6. CASE TxComplete
  BY <1>2, <1>3, <1>6 DEF TxComplete
<1>7. ASSUME NEW t \in Task, LocalSendStep(t)
      PROVE  CompletePackages' /\ PutComplete'
  <2>1. CASE MqueueInsert(t)
    <3>1. om[t] \in Package /\ Cardinality(om[t].blks) = om[t].dlen
      BY <2>1 DEF MqueueInsert, Holding, PutComplete
    <3>2. QED
      BY <1>1, <1>4, <2>1, <3>1 DEF MqueueInsert
  <2>2. CASE CopyDone(t)
    BY <1>2, <2>2 DEF CopyDone, PutComplete
  <2>3. CASE CopyExtend(t)
    BY <1>2, <2>3 DEF CopyExtend, TakeBlock, PutComplete
  <2>4. CASE GetPkthdr(t)
    BY <1>2, <1>4, <2>4 DEF GetPkthdr, TakeBlock
  <2>5. CASE NoPkthdr(t) \/ CopyFails(t) \/ FreeChain(t) \/ MqueueSignal(t)
    BY <1>2, <1>4, <2>5 DEF NoPkthdr, CopyFails, FreeChain, MqueueSignal
  <2>6. QED
    BY <1>7, <2>1, <2>2, <2>3, <2>4, <2>5 DEF LocalSendStep
<1>8. CASE MainStep
  <2>1. CASE MqueueGet
    <3>1. /\ rxq \in Seq(Package) /\ rxq # <<>> /\ rxq' = Tail(rxq)
      BY <2>1 DEF MqueueGet
    <3>2. /\ Len(rxq) \in Nat \ {0} /\ Len(rxq') = Len(rxq) - 1
          /\ \A i \in 1 .. Len(rxq') : rxq'[i] = rxq[i + 1]
      BY <3>1
    <3>3. CompletePackages'
      BY <3>1, <3>2 DEF CompletePackages, Chain
    <3>4. QED
      BY <1>4, <2>1, <3>3 DEF MqueueGet
  <2>2. CASE DispatchRx \/ ProcessPackage \/ DrainEnd \/ SendImuOnly
    BY <1>2, <1>4, <2>2 DEF DispatchRx, ProcessPackage, DrainEnd, SendImuOnly, LocalSend
  <2>3. QED
    BY <1>7, <1>8, <2>1, <2>2 DEF MainStep
<1>9. CASE SlotStep
  <2>1. CASE ListenPend1 \/ ListenPend2
    BY <1>2, <1>4, <2>1 DEF ListenPend1, ListenPend2, SemPend
  <2>2. QED
    BY <1>2, <1>4, <1>7, <1>9, <2>1
       DEF SlotStep, ListenArm, ListenStart, ListenRelease, ListenReturn
<1>10. CASE Call
  BY <1>2, <1>3, <1>4, <1>10
     DEF Call, SetRole, SensorTimer, SendResult, LocalSend, ListenCall
<1>11. CASE UNCHANGED vars
  BY <1>2, <1>3, <1>11 DEF vars
<1>12. QED
  BY <1>5, <1>6, <1>8, <1>9, <1>10, <1>11 DEF Next

\* A package whose copying fails is never queued.
THEOREM CompleteCorrect == Spec => []CompletePackages
<1>1. Shape /\ CompletePackages /\ PutComplete /\ [Next]_vars
        => CompletePackages' /\ PutComplete'
  BY CompleteNext
<1>2. QED
  BY <1>1, CompleteInit, ShapeCorrect, PTL DEF Spec
-----------------------------------------------------------------------------
(***************************************************************************)
(* The only way to lose a block.                                           *)
(***************************************************************************)

\* A package starts with no block.
AllocEmpty == \A t \in Task : pc[t] = "alloc" => Held(t) = {}

\* No task is about to take a block at the start.
LEMMA AllocInit == Init => AllocEmpty
BY DEF Init, AllocEmpty

\* rtdoa_local_send starts with an empty chain.
LEMMA AllocNext ==
  ASSUME Shape, AllocEmpty, [Next]_vars
  PROVE  AllocEmpty'
<1> USE DEF Shape, TypeOK, Goto, AllocEmpty, Held
<1>1. ASSUME UNCHANGED om, Wake \/ UNCHANGED pc
      PROVE  AllocEmpty'
  BY <1>1 DEF Wake, SemRelease, Waiting
<1>2. ASSUME NEW t \in Task, NEW l, l # "alloc", Goto(t, l),
             \A u \in Task : u # t => om'[u] = om[u]
      PROVE  AllocEmpty'
  BY <1>2
<1>3. ASSUME NEW t \in Task, NEW n, LocalSend(t, n)
      PROVE  AllocEmpty'
  BY <1>3 DEF LocalSend
<1>4. ASSUME NEW t \in Task, LocalSendStep(t)
      PROVE  AllocEmpty'
  <2>1. CASE CopyExtend(t)
    BY <2>1 DEF CopyExtend, TakeBlock
  <2>2. CASE GetPkthdr(t)
    BY <1>2, <2>2 DEF GetPkthdr, TakeBlock
  <2>3. QED
    BY <1>2, <1>4, <2>1, <2>2
       DEF LocalSendStep, NoPkthdr, CopyDone, CopyFails, FreeChain, MqueueInsert,
           MqueueSignal
<1>5. CASE MainStep
  BY <1>2, <1>3, <1>4, <1>5
     DEF MainStep, DispatchRx, MqueueGet, ProcessPackage, DrainEnd, SendImuOnly
<1>6. CASE SlotStep
  <2>1. CASE ListenPend1 \/ ListenPend2
    BY <1>2, <2>1 DEF ListenPend1, ListenPend2, SemPend
  <2>2. QED
    BY <1>2, <1>4, <1>6, <2>1
       DEF SlotStep, ListenArm, ListenStart, ListenRelease, ListenReturn
<1>7. CASE Call
  BY <1>1, <1>2, <1>3, <1>7
     DEF Call, SetRole, SensorTimer, SendResult, ListenCall
<1>8. CASE RxComplete \/ TxComplete
  BY <1>1, <1>8
     DEF RxComplete, TxComplete, RxForeign, RxIgnored, RxDuplicate, RxNoMbuf,
         RxQueued, RxCopyFails
<1>9. QED
  BY <1>1, <1>5, <1>6, <1>7, <1>8 DEF Next, vars

\* Appending a chain to rxpkt_q adds its blocks to those queued.
LEMMA OwnedAppend ==
  ASSUME Shape, NEW p \in Package, rxq' = Append(rxq, p)
  PROVE  Queued' = Queued \cup p.blks
<1>1. /\ Len(rxq) \in Nat
      /\ Len(rxq') = Len(rxq) + 1
      /\ rxq'[Len(rxq) + 1] = p
      /\ \A i \in 1 .. Len(rxq) : rxq'[i] = rxq[i]
  BY DEF Shape, TypeOK
<1>2. QED
  BY <1>1 DEF Queued, Chain

\* Taking the first chain off rxpkt_q removes only its blocks.
LEMMA OwnedTail ==
  ASSUME Shape, rxq # <<>>, rxq' = Tail(rxq)
  PROVE  Queued = Queued' \cup Head(rxq).blks
<1>1. rxq \in Seq(Package)
  BY DEF Shape, TypeOK
<1>2. /\ Len(rxq) \in Nat \ {0} /\ Len(rxq') = Len(rxq) - 1
      /\ \A i \in 1 .. Len(rxq') : rxq'[i] = rxq[i + 1]
      /\ Head(rxq) = rxq[1]
  BY <1>1
<1>3. ASSUME NEW b, b \in Queued
      PROVE  b \in Queued' \cup Head(rxq).blks
  <2>1. PICK i \in 1 .. Len(rxq) : b \in rxq[i].blks
    BY <1>3 DEF Queued, Chain
  <2>2. CASE i = 1
    BY <1>2, <2>1, <2>2
  <2>3. CASE i # 1
    <3>1. i - 1 \in 1 .. Len(rxq') /\ rxq'[i - 1] = rxq[i]
      BY <1>2, <2>1, <2>3
    <3>2. QED
      BY <2>1, <3>1 DEF Queued, Chain
  <2>4. QED
    BY <2>2, <2>3
<1>4. ASSUME NEW b, b \in Queued' \cup Head(rxq).blks
      PROVE  b \in Queued
  BY <1>2, <1>4 DEF Queued, Chain
<1>5. QED
  BY <1>3, <1>4

\* Every step but a failed copy in rx_complete_cb keeps the blocks owned.
LeakStep == \E p \in Peer, s \in 0 .. SeqMod - 1, n \in RxLengths, ts \in RxTimes :
              RxCopyFails(p, s, n, ts)

\* No step but the failed copy of rx_complete_cb changes which blocks have an
\* owner.
LEMMA OwnedKept ==
  ASSUME Shape, AllocEmpty, [Next]_vars, ~LeakStep
  PROVE  Owned' = Owned
<1> USE DEF Shape, TypeOK, Owned
<1>1. ASSUME UNCHANGED <<free, rxq, om>>
      PROVE  Owned' = Owned
  BY <1>1 DEF Held, Queued, Chain
<1>2. ASSUME NEW t \in Task, UNCHANGED rxq, free' \cup Held(t)' = free \cup Held(t),
             \A u \in Task : u # t => om'[u] = om[u]
      PROVE  Owned' = Owned
  <2>1. Queued' = Queued
    BY <1>2 DEF Queued, Chain
  <2>2. QED
    BY <1>2, <2>1 DEF Held
<1>3. CASE RxComplete
  <2>1. ASSUME NEW ts \in RxTimes, NEW p \in Peer, NEW s \in 0 .. SeqMod - 1,
               NEW n \in RxLengths, RxQueued(p, s, n, ts)
        PROVE  Owned' = Owned
    <3>1. PICK chain \in SUBSET free :
            /\ free' = free \ chain
            /\ rxq' = Append(rxq, [src |-> p, seq |-> s, dlen |-> n, blks |-> chain])
      BY <2>1 DEF RxQueued
    <3>2. [src |-> p, seq |-> s, dlen |-> n, blks |-> chain] \in Package
      BY <3>1, LengthAssumption DEF Package
    <3>3. Queued' = Queued \cup chain
      BY <3>1, <3>2, OwnedAppend
    <3>4. QED
      BY <2>1, <3>1, <3>3 DEF RxQueued, Held
  <2>2. QED
    BY <1>1, <1>3, <2>1
       DEF RxComplete, RxForeign, RxIgnored, RxDuplicate, RxNoMbuf, LeakStep
<1>4. ASSUME NEW t \in Task, LocalSendStep(t)
      PROVE  Owned' = Owned
  <2>1. CASE GetPkthdr(t) \/ CopyExtend(t)
    <3>1. PICK b \in free : /\ free' = free \ {b}
                            /\ om' = [om EXCEPT ![t] = Extended(om[t], b)]
      BY <2>1 DEF GetPkthdr, CopyExtend, TakeBlock
    <3>2. Held(t)' = Held(t) \cup {b} /\ UNCHANGED rxq
      BY <2>1, <3>1 DEF Held, Extended, GetPkthdr, CopyExtend
    <3>3. QED
      BY <1>2, <3>1, <3>2
  <2>2. CASE NoPkthdr(t)
    <3>1. Held(t) = {} /\ Held(t)' = {}
      BY <2>2 DEF NoPkthdr, AllocEmpty, Held, NoPackage
    <3>2. QED
      BY <1>2, <2>2, <3>1 DEF NoPkthdr
  <2>3. CASE FreeChain(t)
    <3>1. Held(t)' = {} /\ free' = free \cup Held(t) /\ UNCHANGED rxq
      BY <2>3 DEF FreeChain, Held, NoPackage
    <3>2. QED
      BY <1>2, <2>3, <3>1 DEF FreeChain
  <2>4. CASE MqueueInsert(t)
    <3>1. om[t] \in Package
      BY <2>4 DEF MqueueInsert, Holding
    <3>2. Queued' = Queued \cup Held(t) /\ Held(t)' = {} /\ UNCHANGED free
      BY <2>4, <3>1, OwnedAppend DEF MqueueInsert, Held, NoPackage
    <3>3. \A u \in Task : u # t => Held(u)' = Held(u)
      BY <2>4 DEF MqueueInsert, Held
    <3>4. QED
      BY <3>2, <3>3
  <2>5. CASE CopyDone(t) \/ CopyFails(t) \/ MqueueSignal(t)
    BY <1>1, <2>5 DEF CopyDone, CopyFails, MqueueSignal
  <2>6. QED
    BY <1>4, <2>1, <2>2, <2>3, <2>4, <2>5 DEF LocalSendStep
<1>5. CASE MainStep
  <2>1. CASE MqueueGet
    <3>1. /\ om["main"] = NoPackage
          /\ om' = [om EXCEPT !["main"] = Head(rxq)]
          /\ rxq # <<>> /\ rxq' = Tail(rxq) /\ free' = free
      BY <2>1 DEF MqueueGet, Holding
    <3>2. Queued = Queued' \cup Head(rxq).blks
      BY <3>1, OwnedTail
    <3>3. Held("main") = {} /\ Held("main")' = Head(rxq).blks /\ Held("slot")' = Held("slot")
      BY <3>1 DEF Held, NoPackage
    <3>4. QED
      BY <3>1, <3>2, <3>3
  <2>2. CASE ProcessPackage
    <3>1. Held("main")' = {} /\ free' = free \cup Held("main") /\ UNCHANGED rxq
      BY <2>2 DEF ProcessPackage, Held, NoPackage
    <3>2. QED
      BY <1>2, <2>2, <3>1 DEF ProcessPackage
  <2>3. CASE SendImuOnly
    <3>1. Held("main") = {} /\ Held("main")' = {} /\ UNCHANGED <<free, rxq>>
      BY <2>3 DEF SendImuOnly, LocalSend, Held, Holding, NoPackage
    <3>2. QED
      BY <1>2, <2>3, <3>1 DEF SendImuOnly, LocalSend
  <2>4. CASE DispatchRx \/ DrainEnd
    BY <1>1, <2>4 DEF DispatchRx, DrainEnd
  <2>5. QED
    BY <1>4, <1>5, <2>1, <2>2, <2>3, <2>4 DEF MainStep
<1>6. CASE SlotStep
  BY <1>1, <1>4, <1>6
     DEF SlotStep, ListenPend1, ListenArm, ListenStart, ListenPend2, ListenRelease,
         ListenReturn
<1>7. CASE Call
  <2>1. ASSUME NEW n \in ResultLengths, SendResult(n), LocalSend("slot", n)
        PROVE  Owned' = Owned
    <3>1. Held("slot") = {} /\ Held("slot")' = {} /\ UNCHANGED <<free, rxq>>
      BY <2>1 DEF SendResult, LocalSend, Held, Holding, NoPackage
    <3>2. QED
      BY <1>2, <2>1, <3>1 DEF LocalSend
  <2>2. QED
    BY <1>1, <1>7, <2>1 DEF Call, SetRole, SensorTimer, SendResult, ListenCall
<1>8. CASE TxComplete \/ UNCHANGED vars
  BY <1>1, <1>8 DEF TxComplete, vars
<1>9. QED
  BY <1>3, <1>5, <1>6, <1>7, <1>8 DEF Next

\* The failed copy of rx_complete_cb takes the rest of the pool and nothing
\* else.
LEMMA LeakStepEffect ==
  ASSUME Shape, SingleOwner, LeakStep
  PROVE  /\ Lost' = Lost \cup free
         /\ free # {} /\ free' = {}
         /\ rxq' = rxq /\ evq' = evq /\ om' = om /\ pc' = pc
         /\ last' # last
<1>1. PICK p \in Peer, s \in 0 .. SeqMod - 1, n \in RxLengths, ts \in RxTimes :
        RxCopyFails(p, s, n, ts)
  BY DEF LeakStep
<1>2. /\ free # {} /\ free' = {}
      /\ rxq' = rxq /\ evq' = evq /\ om' = om /\ pc' = pc
      /\ last' # last
  BY <1>1 DEF RxCopyFails, Fresh
<1>3. Held("main")' = Held("main") /\ Held("slot")' = Held("slot") /\ Queued' = Queued
  BY <1>2 DEF Held, Queued, Chain
<1>4. free \cap (Held("main") \cup Held("slot") \cup Queued) = {}
  BY DEF SingleOwner, Queued
<1>5. free \subseteq Block
  BY DEF Shape, TypeOK
<1>6. QED
  BY <1>2, <1>3, <1>4, <1>5 DEF Lost, Owned

\* A block is lost only by a received package the pool cannot hold, and never
\* comes back.
THEOREM LeakCorrect == Spec => LeakOnlyFromRx
<1>1. Shape /\ SingleOwner /\ AllocEmpty /\ [Next]_vars
      => [Lost' # Lost => /\ Lost' = Lost \cup free
                          /\ free # {} /\ free' = {}
                          /\ rxq' = rxq /\ evq' = evq /\ om' = om /\ pc' = pc
                          /\ last' # last]_vars
  BY OwnedKept, LeakStepEffect DEF Lost
<1>2. Shape /\ AllocEmpty /\ [Next]_vars => AllocEmpty'
  BY AllocNext
<1>3. QED
  BY <1>1, <1>2, AllocInit, ShapeCorrect, SingleOwnerCorrect, PTL
     DEF Spec, LeakOnlyFromRx

\* As long as no received package needs more than one block, no block is ever
\* lost: what fails in rtdoa_local_send is given back.
THEOREM NoLeakCorrect ==
  ASSUME RxLengths \subseteq {1}
  PROVE  Spec => []NoLeak
<1>1. Init => NoLeak
  BY DEF Init, NoLeak, Lost, Owned
<1>2. ASSUME Shape PROVE ~LeakStep
  <2>1. ASSUME free # {}
        PROVE  ~(Cardinality(free) < 1)
    <3>1. free \subseteq Block
      BY <1>2 DEF Shape, TypeOK
    <3>2. IsFiniteSet(free)
      BY <3>1, BlockAssumption, FS_Subset
    <3>3. Cardinality(free) \in Nat /\ Cardinality(free) # 0
      BY <2>1, <3>2, FS_EmptySet, FS_CardinalityType
    <3>4. QED
      BY <3>3
  <2>2. \A n \in RxLengths : n = 1
    OBVIOUS
  <2>3. QED
    BY <2>1, <2>2 DEF LeakStep, RxCopyFails
<1>3. Shape /\ AllocEmpty /\ NoLeak /\ [Next]_vars => NoLeak' /\ AllocEmpty'
  BY <1>2, OwnedKept, AllocNext DEF NoLeak, Lost
<1>4. QED
  BY <1>1, <1>3, AllocInit, ShapeCorrect, PTL DEF Spec
-----------------------------------------------------------------------------
(***************************************************************************)
(* The receive timeout of other services.                                  *)
(***************************************************************************)

\* Where a listen is armed: its first os_sem_pend is behind it.
ArmedPc == {"start", "pend2", "wait2", "release", "clear"}

\* g_to_dx_time is set only between the arming and the end of a listen.
Armed == gTo # 0 => pc["slot"] \in ArmedPc

\* No listen is armed at the start.
LEMMA ArmedInit == Init => Armed
BY DEF Init, Armed, ArmedPc

\* What a step may do to the listen and to the timeout register, whatever the
\* timestamp of a frame.
ArmedStep == Armed' /\ (rxTo' # rxTo => pc["slot"] \in ListenPc)

\* A token released wakes the listener only inside rtdoa_backhaul_listen.
LEMMA ArmedWake ==
  ASSUME Shape, Armed, UNCHANGED gTo, Wake \/ UNCHANGED pc
  PROVE  Armed'
BY DEF Shape, TypeOK, Armed, ArmedPc, Wake, SemRelease, Waiting

\* A step of a task outside rtdoa_backhaul_listen leaves the listen alone.
LEMMA ArmedGoto ==
  ASSUME Shape, Armed, UNCHANGED gTo, NEW t \in Task, NEW l, Goto(t, l),
         pc[t] \notin ListenPc
  PROVE  Armed'
BY DEF Shape, TypeOK, PcOK, Armed, ArmedPc, Goto

\* A listen arms g_to_dx_time after its first os_sem_pend and clears it before
\* it returns.
LEMMA ArmedListen ==
  ASSUME Shape, Armed,
         \/ ListenPend1 \/ ListenPend2 \/ ListenRelease \/ ListenReturn
         \/ \E error \in BOOLEAN : ListenStart(error)
         \/ \E dx, timeout : ListenArm(dx, timeout)
  PROVE  ArmedStep
<1> USE DEF Shape, TypeOK, PcOK, Armed, ArmedPc, ArmedStep, Goto
<1>1. CASE ListenPend1 \/ ListenPend2
  BY <1>1 DEF ListenPend1, ListenPend2, SemPend
<1>2. CASE ListenRelease \/ ListenReturn
  BY <1>2 DEF ListenRelease, ListenReturn
<1>3. CASE \E error \in BOOLEAN : ListenStart(error)
  BY <1>3 DEF ListenStart
<1>4. CASE \E dx, timeout : ListenArm(dx, timeout)
  BY <1>4 DEF ListenArm
<1>5. QED
  BY <1>1, <1>2, <1>3, <1>4

\* No other step of the two tasks, and no call, concerns the receiver.
LEMMA ArmedNext ==
  ASSUME Shape, Armed, [Next]_vars
  PROVE  ArmedStep
<1> USE DEF Shape, PcOK
<1>1. ASSUME UNCHANGED <<gTo, rxTo>>, Wake \/ UNCHANGED pc
      PROVE  ArmedStep
  BY <1>1, ArmedWake DEF ArmedStep
<1>2. ASSUME UNCHANGED <<gTo, rxTo>>, NEW t \in Task, NEW l, Goto(t, l),
             pc[t] \notin ListenPc
      PROVE  ArmedStep
  BY <1>2, ArmedGoto DEF ArmedStep
<1>3. CASE RxComplete
  <2>1. PICK ts \in RxTimes :
          \/ RxForeign(ts) \/ RxIgnored(ts)
          \/ \E p \in Peer, s \in 0 .. SeqMod - 1 :
               \/ RxDuplicate(p, s, ts)
               \/ RxNoMbuf(p, s, ts)
               \/ \E n \in RxLengths : RxQueued(p, s, n, ts) \/ RxCopyFails(p, s, n, ts)
    BY <1>3 DEF RxComplete
  <2>2. UNCHANGED gTo /\ (Wake \/ UNCHANGED pc) /\ AdjustTimeout(ts)
    BY <2>1 DEF RxForeign, RxIgnored, RxDuplicate, RxNoMbuf, RxQueued, RxCopyFails
  <2>3. QED
    BY <2>2, ArmedWake DEF AdjustTimeout, ArmedStep, Armed, ArmedPc
<1>4. CASE TxComplete \/ UNCHANGED vars
  BY <1>1, <1>4 DEF TxComplete, vars
<1>5. ASSUME NEW t \in Task, LocalSendStep(t)
      PROVE  ArmedStep
  BY <1>1, <1>2, <1>5
     DEF LocalSendStep, GetPkthdr, NoPkthdr, CopyExtend, CopyDone, CopyFails,
         FreeChain, MqueueInsert, MqueueSignal
<1>6. CASE MainStep
  BY <1>2, <1>5, <1>6
     DEF MainStep, DispatchRx, MqueueGet, ProcessPackage, DrainEnd, SendImuOnly, LocalSend
<1>7. CASE SlotStep
  BY <1>5, <1>7, ArmedListen DEF SlotStep
<1>8. CASE Call
  BY <1>1, <1>2, <1>8
     DEF Call, SetRole, SensorTimer, SendResult, LocalSend, ListenCall
<1>9. QED
  BY <1>3, <1>4, <1>6, <1>7, <1>8 DEF Next

\* Outside a listen no step of the library programs the receive timeout: a
\* listen that has returned leaves the other services' receives alone.
THEOREM TimeoutCorrect == Spec => TimeoutUntouched
<1>1. Shape /\ Armed /\ [Next]_vars => Armed'
  BY ArmedNext DEF ArmedStep
<1>2. Shape /\ Armed /\ [Next]_vars => [rxTo' # rxTo => pc["slot"] \in ListenPc]_vars
  BY ArmedNext DEF ArmedStep
<1>3. QED
  BY <1>1, <1>2, ArmedInit, ShapeCorrect, PTL DEF Spec, TimeoutUntouched
-----------------------------------------------------------------------------
(***************************************************************************)
(* rtdoa_backhaul_listen against the clock.                                *)
(***************************************************************************)

\* What an integer division and its remainder are.
LEMMA DivMod ==
  ASSUME NEW a \in Int, NEW n \in Nat \ {0}
  PROVE  /\ a \div n \in Int /\ a % n \in 0 .. n - 1
         /\ a = n * (a \div n) + (a % n)
OBVIOUS

\* A quotient and a remainder determine the division.
LEMMA DivUnique ==
  ASSUME NEW n \in Nat \ {0}, NEW q \in Int, NEW r \in 0 .. n - 1, NEW a \in Int,
         a = n * q + r
  PROVE  a \div n = q /\ a % n = r
<1>1. a \div n \in Int /\ a % n \in 0 .. n - 1 /\ a = n * (a \div n) + (a % n)
  BY DivMod
<1>2. n * (q - (a \div n)) = (a % n) - r
  BY <1>1
<1>3. q - (a \div n) = 0
  <2> DEFINE z == q - (a \div n)
  <2>1. z \in Int /\ n * z < n /\ n * z > -n
    BY <1>1, <1>2
  <2> HIDE DEF z
  <2>2. z < 1 /\ z > -1
    <3>1. CASE z >= 1
      BY <2>1, <3>1
    <3>2. CASE z <= -1
      BY <2>1, <3>2
    <3>3. QED
      BY <2>1, <3>1, <3>2
  <2>3. z = 0
    BY <2>1, <2>2
  <2>4. QED
    BY <2>3 DEF z
<1>4. QED
  BY <1>1, <1>2, <1>3

\* A difference of times read modulo Wrap, in UWB microseconds modulo
\* TimeoutMod, is the difference itself as long as it fits the register.
LEMMA WrapCancels ==
  ASSUME NEW d \in Nat, d <= (TimeoutMod - 1) * Tick, NEW j \in Int
  PROVE  /\ ((d + Wrap * j) \div Tick) % TimeoutMod = d \div Tick
         /\ (d \div Tick) * Tick <= d
<1>0. Tick \in Nat \ {0} /\ TimeoutMod \in Nat \ {0} /\ Wrap \in Nat
  BY TimeAssumption, WrapAssumption
<1> DEFINE period == Tick * TimeoutMod
<1>1. period \in Nat \ {0} /\ Wrap % period = 0
  BY <1>0, WrapAssumption
<1>2. PICK k \in Int : Wrap = period * k
  <2> HIDE DEF period
  <2>1. Wrap = period * (Wrap \div period) + (Wrap % period) /\ Wrap \div period \in Int
    BY <1>0, <1>1, DivMod
  <2>2. Wrap = period * (Wrap \div period)
    BY <1>1, <2>1
  <2>3. QED
    BY <2>1, <2>2
<1> DEFINE q == d \div Tick
           r == d % Tick
           w == k * j
<1>3. q \in Int /\ r \in 0 .. Tick - 1 /\ d = Tick * q + r
  BY <1>0, DivMod
<1>4. w \in Int /\ Wrap * j = Tick * (TimeoutMod * w)
  <2>1. w \in Int
    BY <1>2
  <2>2. Wrap * j = Tick * TimeoutMod * k * j
    BY <1>2
  <2>3. QED
    BY <1>0, <1>2, <2>1, <2>2
<1>5. \A a \in Int : a = d + Wrap * j => a \div Tick = q + TimeoutMod * w
  <2> HIDE DEF q, r, w
  <2>1. q + TimeoutMod * w \in Int
    BY <1>0, <1>3, <1>4
  <2>2. d + Wrap * j = Tick * (q + TimeoutMod * w) + r
    BY <1>0, <1>3, <1>4
  <2>3. d + Wrap * j \in Int
    BY <1>0, <1>3, <1>4, <2>1, <2>2
  <2> DEFINE a == d + Wrap * j
             b == q + TimeoutMod * w
  <2>4. a \in Int /\ b \in Int /\ a = Tick * b + r
    BY <2>1, <2>2, <2>3
  <2>5. a \div Tick = b
    <3> HIDE DEF a, b
    <3>1. QED
      BY <1>0, <1>3, <2>4, DivUnique
  <2>6. QED
    BY <2>5
<1>6. q \in 0 .. TimeoutMod - 1
  <2> HIDE DEF q, r
  <2>1. Tick * q <= (TimeoutMod - 1) * Tick /\ Tick * q > -Tick
    BY <1>0, <1>3
  <2>2. q <= TimeoutMod - 1
    <3>1. ASSUME q >= TimeoutMod
          PROVE  FALSE
      <4>1. Tick * q >= Tick * TimeoutMod
        BY <1>0, <1>3, <3>1
      <4>2. (TimeoutMod - 1) * Tick = Tick * TimeoutMod - Tick
        BY <1>0
      <4>3. Tick * q \in Int /\ Tick * TimeoutMod \in Int
        BY <1>0, <1>3
      <4>4. Tick * q <= Tick * TimeoutMod - Tick
        BY <2>1, <4>2
      <4>5. QED
        BY ONLY <1>0, <4>1, <4>3, <4>4
    <3>2. q \in Int /\ TimeoutMod \in Int
      BY <1>0, <1>3
    <3>3. QED
      BY ONLY <3>1, <3>2
  <2>3. q >= 0
    <3>1. CASE q <= -1
      BY <1>0, <1>3, <2>1, <3>1
    <3>2. QED
      BY <1>3, <3>1
  <2>4. QED
    BY <1>0, <1>3, <2>2, <2>3
<1>7. (q + TimeoutMod * w) % TimeoutMod = q
  <2> HIDE DEF q, w
  <2>1. q + TimeoutMod * w \in Int /\ q + TimeoutMod * w = TimeoutMod * w + q
    BY <1>0, <1>3, <1>4
  <2>2. QED
    BY <1>0, <1>4, <1>6, <2>1, DivUnique
<1>8. d + Wrap * j \in Int
  BY <1>0, <1>4
<1>9. ((d + Wrap * j) \div Tick) % TimeoutMod = q
  <2> HIDE DEF q, w
  <2>1. (d + Wrap * j) \div Tick = q + TimeoutMod * w
    BY <1>5, <1>8
  <2>2. QED
    BY <2>1, <1>7
<1>10. q * Tick <= d
  <2> HIDE DEF q, r
  <2>1. Tick * q = q * Tick
    BY <1>0, <1>3
  <2>2. QED
    BY <1>0, <1>3, <2>1
<1>11. QED
  BY <1>9, <1>10

\* What g_to_dx_time and the receiver have to do with the listen in progress.
RadioInv ==
  /\ now \in Nat /\ begin \in Nat /\ deadline \in Nat /\ stop \in Nat
  /\ rxTo \in Nat /\ gTo \in Nat /\ sem \in Nat
  /\ pc \in [Task -> {"idle"} \cup DrainPc \cup ListenPc]
  /\ pc["main"] \in {"idle"} \cup DrainPc
  /\ on /\ stop # Forever => now <= stop
  /\ pc["slot"] \in ArmedPc =>
       \E timeout \in Timeouts : /\ gTo = (begin % Wrap) + timeout * Tick
                                 /\ deadline = begin + timeout * Tick
  /\ pc["slot"] \notin ArmedPc => gTo = 0

\* What WindowKept says of one step.
WindowStep ==
  (Listening /\ Listening' /\ on /\ on' /\ InWindow) => (InWindow \/ stop = Forever)'

\* At the start nothing is armed and the receiver is off.
LEMMA RadioInitInv == RadioInit => RadioInv
BY DEF RadioInit, Init, RadioInv, Forever, ArmedPc

\* The timeout rx_complete_cb programs in the window of a listen ends it there.
LEMMA FrameInWindow ==
  ASSUME RadioInv, NEW ts, ts = (now - Lag) % Wrap, pc["slot"] \in ArmedPc,
         now >= begin + Lag, now <= deadline + Lag
  PROVE  TimeLeft(ts) \in Nat /\ now + TimeLeft(ts) * Tick <= deadline + Lag
<1>0. /\ Tick \in Nat \ {0} /\ TimeoutMod \in Nat \ {0} /\ Wrap \in Nat \ {0} /\ Lag \in Nat
      /\ now \in Nat /\ begin \in Nat /\ deadline \in Nat
  BY TimeAssumption, WrapAssumption, RadioAssumption DEF RadioInv
<1>1. PICK timeout \in 1 .. TimeoutMod - 1 :
        /\ gTo = (begin % Wrap) + timeout * Tick
        /\ deadline = begin + timeout * Tick
  BY RadioAssumption DEF RadioInv
<1> DEFINE length == timeout * Tick
           d == deadline + Lag - now
           j == ((now - Lag) \div Wrap) - (begin \div Wrap)
<1>2. length \in Nat /\ length <= (TimeoutMod - 1) * Tick
  BY <1>0, <1>1
<1>3. d \in Nat /\ d <= (TimeoutMod - 1) * Tick
  <2>1. d \in Nat /\ d <= length
    <3> HIDE DEF length
    <3>1. deadline = begin + length
      BY <1>1 DEF length
    <3>2. QED
      BY <1>0, <1>2, <3>1
  <2>2. (TimeoutMod - 1) * Tick \in Int
    BY <1>0
  <2> HIDE DEF d, length
  <2>3. QED
    BY <1>2, <2>1, <2>2
<1>4. j \in Int /\ gTo - ts = d + Wrap * j
  <2> DEFINE u == now - Lag
             a == u \div Wrap
             b == begin \div Wrap
  <2>1. u \in Int
    BY <1>0
  <2>2. /\ a \in Int /\ ts \in Int /\ u = Wrap * a + ts
        /\ b \in Int /\ begin % Wrap \in Int /\ begin = Wrap * b + (begin % Wrap)
    <3> HIDE DEF u
    <3>1. u % Wrap = ts
      BY DEF u
    <3>2. QED
      BY <1>0, <2>1, <3>1, DivMod
  <2>3. gTo = (begin % Wrap) + length /\ deadline = begin + length
    BY <1>1
  <2>4. Wrap * a \in Int /\ Wrap * b \in Int /\ Wrap * (a - b) = Wrap * a - Wrap * b
    <3> HIDE DEF a, b
    <3>1. QED
      BY <1>0, <2>2
  <2>5. gTo - ts = d + (Wrap * a - Wrap * b)
    <3> DEFINE wa == Wrap * a
               wb == Wrap * b
               m == begin % Wrap
    <3>1. /\ wa \in Int /\ wb \in Int /\ m \in Int /\ ts \in Int
          /\ now - Lag = wa + ts /\ begin = wb + m
          /\ gTo = m + length /\ deadline = begin + length
      BY <2>2, <2>3, <2>4
    <3> HIDE DEF wa, wb, m, length
    <3>2. gTo - ts = d + (wa - wb)
      BY <1>0, <1>2, <3>1
    <3>3. QED
      BY <3>2 DEF wa, wb
  <2>6. QED
    BY <2>2, <2>4, <2>5
<1>5. TimeLeft(ts) = d \div Tick /\ (d \div Tick) * Tick <= d
  <2> HIDE DEF d, j
  <2>1. QED
    BY <1>3, <1>4, WrapCancels DEF TimeLeft
<1>6. d \div Tick \in Nat
  <2> HIDE DEF d
  <2>1. d \div Tick \in Int /\ d % Tick \in 0 .. Tick - 1
        /\ d = Tick * (d \div Tick) + (d % Tick)
    BY <1>0, <1>3, DivMod
  <2>2. QED
    BY <1>0, <1>3
<1>7. QED
  <2> DEFINE left == TimeLeft(ts) * Tick
  <2>1. left \in Int /\ left <= d
    BY <1>0, <1>5, <1>6
  <2> HIDE DEF left
  <2>2. now + left <= deadline + Lag
    BY <1>0, <2>1
  <2>3. QED
    BY <1>5, <1>6, <2>2 DEF left

\* Whatever a frame does with its contents, it leaves the listen armed and
\* shortens the timeout while a listen is.
LEMMA ReceiveEffect ==
  ASSUME RadioInv, NEW ts \in Int, Receive(ts)
  PROVE  /\ UNCHANGED gTo
         /\ rxTo' = IF gTo # 0 THEN TimeLeft(ts) ELSE rxTo
         /\ sem' \in Nat
         /\ pc' \in [Task -> {"idle"} \cup DrainPc \cup ListenPc]
         /\ pc'["main"] = pc["main"]
         /\ pc["slot"] \in ArmedPc <=> pc'["slot"] \in ArmedPc
<1>1. UNCHANGED gTo /\ AdjustTimeout(ts) /\ (Wake \/ UNCHANGED <<sem, pc>>)
  BY DEF Receive, RxForeign, RxIgnored, RxDuplicate, RxNoMbuf, RxQueued
<1>2. QED
  BY <1>1 DEF AdjustTimeout, Wake, SemRelease, Waiting, RadioInv, ArmedPc

\* A frame keeps the receiver within the window of the listen.
LEMMA FrameKeeps ==
  ASSUME RadioInv, Frame
  PROVE  RadioInv' /\ WindowStep
<1> DEFINE ts == (now - Lag) % Wrap
<1>0. /\ Tick \in Nat \ {0} /\ TimeoutMod \in Nat \ {0} /\ Wrap \in Nat \ {0} /\ Lag \in Nat
      /\ now \in Nat /\ rxTo \in Nat /\ gTo \in Nat /\ stop \in Nat /\ deadline \in Nat
  BY TimeAssumption, WrapAssumption, RadioAssumption DEF RadioInv
<1>1. ts \in Int
  BY <1>0, DivMod
<1>2. /\ UNCHANGED <<gTo, now, begin, deadline>>
      /\ rxTo' = IF gTo # 0 THEN TimeLeft(ts) ELSE rxTo
      /\ sem' \in Nat
      /\ pc' \in [Task -> {"idle"} \cup DrainPc \cup ListenPc]
      /\ pc'["main"] = pc["main"]
      /\ pc["slot"] \in ArmedPc <=> pc'["slot"] \in ArmedPc
  BY <1>1, ReceiveEffect DEF Frame
<1>3. rxTo' \in Nat
  <2> DEFINE left == gTo - ts
             q == left \div Tick
  <2>1. q \in Int
    <3>1. left \in Int
      BY <1>0, <1>1
    <3>2. QED
      BY <1>0, <3>1, DivMod
  <2>2. TimeLeft(ts) = q % TimeoutMod
    BY DEF TimeLeft
  <2>3. q % TimeoutMod \in Nat
    <3> HIDE DEF q
    <3>1. QED
      BY <1>0, <2>1, DivMod
  <2>4. QED
    BY <1>0, <1>2, <2>2, <2>3
<1>4. rxTo' * Tick \in Nat
  BY <1>0, <1>3, ProductInNat
<1>5. stop' = IF on' /\ rxTo' # 0 THEN now + rxTo' * Tick ELSE 0
  BY <1>2 DEF Frame, StopAt, Forever
<1>6. stop' \in Nat /\ (on' /\ stop' # Forever => now' <= stop')
  <2> DEFINE len == rxTo' * Tick
  <2>1. len \in Nat /\ stop' = IF on' /\ rxTo' # 0 THEN now + len ELSE 0
    BY <1>4, <1>5
  <2> HIDE DEF len
  <2>2. QED
    BY <1>0, <1>2, <2>1 DEF Forever
<1>7. RadioInv'
  BY <1>2, <1>3, <1>6 DEF RadioInv
<1>8. WindowStep
  <2>1. ASSUME Listening, on, InWindow, on', stop' # Forever
        PROVE  stop' <= (deadline + Lag)'
    <3>1. pc["slot"] \in ArmedPc /\ pc["slot"] # "start"
      BY <2>1 DEF Listening, ArmedPc
    <3>2. now >= begin + Lag /\ now <= stop /\ stop <= deadline + Lag
      BY <2>1, <3>1 DEF Frame, RadioInv, InWindow
    <3>3. now <= deadline + Lag
      BY <1>0, <3>2
    <3>4. TimeLeft(ts) \in Nat /\ now + TimeLeft(ts) * Tick <= deadline + Lag
      <4> HIDE DEF ts
      <4>1. ts = (now - Lag) % Wrap
        BY DEF ts
      <4>2. QED
        BY <3>1, <3>2, <3>3, <4>1, FrameInWindow
    <3>5. gTo # 0
      <4>1. PICK timeout \in 1 .. TimeoutMod - 1 : gTo = (begin % Wrap) + timeout * Tick
        BY <3>1, RadioAssumption DEF RadioInv
      <4>2. begin % Wrap \in Nat
        BY <1>0, DivMod DEF RadioInv
      <4>3. timeout * Tick \in Nat \ {0}
        BY <1>0
      <4>4. QED
        BY <4>1, <4>2, <4>3
    <3>6. rxTo' = TimeLeft(ts)
      BY <1>2, <3>5
    <3>7. stop' = now + TimeLeft(ts) * Tick
      BY <1>5, <2>1, <3>6 DEF Forever
    <3>8. QED
      BY <1>2, <3>4, <3>7
  <2>2. QED
    BY <2>1 DEF WindowStep, InWindow
<1>9. QED
  BY <1>7, <1>8

\* Arming a listen records when it is over.
LEMMA ArmKeeps ==
  ASSUME RadioInv, NEW timeout \in Timeouts, Arm(timeout)
  PROVE  RadioInv'
<1>0. /\ Tick \in Nat \ {0} /\ Wrap \in Nat \ {0} /\ timeout \in Nat /\ now \in Nat
      /\ stop \in Nat
  BY TimeAssumption, WrapAssumption, RadioAssumption DEF RadioInv
<1> DEFINE start == (now + 1) % Wrap
           length == timeout * Tick
<1>1. start \in Nat /\ length \in Nat
  BY <1>0, DivMod, ProductInNat
<1>2. /\ pc' = [pc EXCEPT !["slot"] = "start"] /\ UNCHANGED <<sem, now, on, stop>>
      /\ gTo' = start + length /\ rxTo' = timeout
      /\ begin' = now + 1 /\ deadline' = now + 1 + length
  BY DEF Arm, ListenArm, Goto
<1>3. start = (begin' % Wrap)
  BY <1>2
<1> HIDE DEF start
<1>4. /\ gTo' = (begin' % Wrap) + length /\ deadline' = begin' + length
      /\ gTo' \in Nat /\ deadline' \in Nat /\ begin' \in Nat
  BY <1>0, <1>1, <1>2, <1>3
<1>5. pc' \in [Task -> {"idle"} \cup DrainPc \cup ListenPc] /\ pc'["main"] = pc["main"]
      /\ pc'["slot"] = "start"
  BY <1>2 DEF RadioInv
<1>6. QED
  BY <1>0, <1>2, <1>4, <1>5 DEF RadioInv, ArmedPc

\* Starting the receiver programs its end.
LEMMA StartKeeps ==
  ASSUME RadioInv, Start
  PROVE  RadioInv'
<1>0. /\ Tick \in Nat \ {0} /\ rxTo \in Nat /\ now \in Nat /\ begin \in Nat /\ sem \in Nat
      /\ stop \in Nat
  BY TimeAssumption DEF RadioInv
<1>1. rxTo * Tick \in Nat
  BY <1>0, ProductInNat
<1>2. PICK error \in BOOLEAN : ListenStart(error)
  BY DEF Start
<1>3. /\ pc["slot"] = "start" /\ pc' = [pc EXCEPT !["slot"] = "pend2"]
      /\ sem' \in Nat /\ UNCHANGED <<gTo, rxTo>>
  BY <1>0, <1>2 DEF ListenStart, Goto
<1>4. UNCHANGED <<now, begin, deadline>>
  BY DEF Start, radio
<1>5. stop' \in Nat /\ (on' /\ stop' # Forever => now' <= stop')
  <2> DEFINE length == rxTo * Tick
  <2>1. CASE now <= begin
    <3>1. stop' = IF rxTo = 0 THEN 0 ELSE begin + length
      <4>1. ~(now > begin)
        BY <1>0, <2>1
      <4>2. stop' = StopAt(begin, rxTo)
        BY <4>1 DEF Start
      <4>3. QED
        BY <4>2 DEF StopAt, Forever
    <3>2. length \in Nat
      BY <1>1
    <3> HIDE DEF length
    <3>3. QED
      BY <1>0, <1>4, <2>1, <3>1, <3>2 DEF Forever
  <2>2. CASE now > begin
    <3>1. ~(now <= begin)
      BY <1>0, <2>2
    <3>2. UNCHANGED radio
      BY <3>1 DEF Start
    <3>3. QED
      BY <3>2 DEF radio, RadioInv
  <2>3. QED
    BY <1>0, <2>1, <2>2
<1>6. pc' \in [Task -> {"idle"} \cup DrainPc \cup ListenPc] /\ pc'["main"] = pc["main"]
      /\ pc'["slot"] = "pend2"
  BY <1>3 DEF RadioInv
<1>7. QED
  BY <1>0, <1>3, <1>4, <1>5, <1>6 DEF RadioInv, ArmedPc

\* The other steps leave the window and what is known of it alone.
LEMMA RestKeeps ==
  ASSUME RadioInv,
         \/ TimePasses \/ Expire \/ Return \/ Drain \/ Bridge \/ BeginListen
         \/ (ListenPend1 \/ ListenPend2 \/ ListenRelease) /\ Quiet
         \/ UNCHANGED <<vars, radio>>
  PROVE  RadioInv'
<1> USE DEF RadioInv, ArmedPc, Forever
<1>1. CASE TimePasses
  BY <1>1 DEF TimePasses, vars
<1>2. CASE Expire \/ UNCHANGED <<vars, radio>>
  BY <1>2 DEF Expire, vars, radio
<1>3. CASE Return
  BY <1>3 DEF Return, ListenReturn, Goto
<1>4. CASE Drain
  BY <1>4 DEF Drain, DispatchRx, MqueueGet, ProcessPackage, DrainEnd, Goto, Quiet, radio
<1>5. CASE Bridge \/ BeginListen
  BY <1>5 DEF Bridge, BeginListen, SetRole, ListenCall, Goto, Quiet, radio
<1>6. CASE (ListenPend1 \/ ListenPend2 \/ ListenRelease) /\ Quiet
  BY <1>6 DEF ListenPend1, ListenPend2, ListenRelease, SemPend, Goto, Quiet, radio
<1>7. QED
  BY <1>1, <1>2, <1>3, <1>4, <1>5, <1>6

\* A step outside a frame leaves the end of the receive where it was, once the
\* receiver is on.
LEMMA WindowRest ==
  ASSUME RadioInv, [RadioNext]_<<vars, radio>>, ~Frame
  PROVE  WindowStep
<1> USE DEF WindowStep, Listening, InWindow
<1>1. CASE Start
  BY <1>1 DEF Start, ListenStart
<1>2. CASE Expire
  BY <1>2 DEF Expire
<1>3. CASE Return
  BY <1>3 DEF Return, ListenReturn
<1>4. CASE \E timeout \in Timeouts : Arm(timeout)
  BY <1>4 DEF Arm, ListenArm
<1>5. CASE UNCHANGED <<deadline, stop>>
  BY <1>5
<1>6. QED
  BY <1>1, <1>2, <1>3, <1>4, <1>5
     DEF RadioNext, TimePasses, ListenStep, Drain, Bridge, BeginListen, Quiet, radio

\* No step breaks what is known of the window.
LEMMA RadioNextInv ==
  ASSUME RadioInv, [RadioNext]_<<vars, radio>>
  PROVE  RadioInv' /\ WindowStep
<1>1. CASE Frame
  BY <1>1, FrameKeeps
<1>2. CASE ~Frame
  <2>1. RadioInv'
    BY <1>2, ArmKeeps, StartKeeps, RestKeeps DEF RadioNext, ListenStep
  <2>2. QED
    BY <1>2, <2>1, WindowRest
<1>3. QED
  BY <1>1, <1>2

\* For every width of the device time and of the timeout register: a frame
\* received in the window of a listen never lets the receive outlast it,
\* although the timestamps it is computed from wrap.
THEOREM WindowCorrect == RadioSpec => WindowKept
<1>1. RadioInit => RadioInv
  BY RadioInitInv
<1>2. RadioInv /\ [RadioNext]_<<vars, radio>> => RadioInv'
  BY RadioNextInv
<1>3. RadioInv /\ [RadioNext]_<<vars, radio>>
      => [(Listening /\ Listening' /\ on /\ on' /\ InWindow)
            => (InWindow \/ stop = Forever)']_<<vars, radio>>
  BY RadioNextInv DEF WindowStep
<1>4. QED
  BY <1>1, <1>2, <1>3, PTL DEF RadioSpec, WindowKept

\* Against the clock, too, nothing but a listen programs the timeout.
THEOREM RadioTimeoutCorrect == RadioSpec => TimeoutUntouched
<1>1. RadioInv /\ [RadioNext]_<<vars, radio>>
      => [rxTo' # rxTo => pc["slot"] \in ListenPc]_vars
  <2>1. ASSUME RadioInv, Frame, rxTo' # rxTo
        PROVE  pc["slot"] \in ListenPc
    <3>1. UNCHANGED rxTo \/ gTo # 0
      BY <2>1 DEF Frame, Receive, RxForeign, RxIgnored, RxDuplicate, RxNoMbuf,
                  RxQueued, AdjustTimeout
    <3>2. QED
      BY <2>1, <3>1 DEF RadioInv, ArmedPc
  <2>2. ASSUME RadioInv, Start
        PROVE  UNCHANGED rxTo
    BY <2>2 DEF Start, ListenStart
  <2>3. ASSUME RadioInv, NEW timeout \in Timeouts, Arm(timeout)
        PROVE  pc["slot"] \in ListenPc
    BY <2>3 DEF Arm, ListenArm
  <2>4. QED
    BY <2>1, <2>2, <2>3
       DEF RadioNext, TimePasses, Expire, ListenStep, ListenPend1, ListenPend2,
           ListenRelease, Return, ListenReturn, Drain, DispatchRx, MqueueGet,
           ProcessPackage, DrainEnd, Bridge, SetRole, BeginListen, ListenCall, vars
<1>2. RadioInit => RadioInv
  BY RadioInitInv
<1>3. RadioInv /\ [RadioNext]_<<vars, radio>> => RadioInv'
  BY RadioNextInv
<1>4. QED
  BY <1>1, <1>2, <1>3, PTL DEF RadioSpec, TimeoutUntouched
-----------------------------------------------------------------------------
(***************************************************************************)
(* The library implements the channel of BackhaulChannel.                  *)
(***************************************************************************)

\* The channel's contents: what the reader is to see of each package.
Ids(q) == [i \in 1 .. Len(q) |-> Id(q[i])]
Chan == Ids(InChannel)

\* The sequence of packages read as a sequence of (source, number) pairs.
IdSet == {Id(p) : p \in Package}

LEMMA IdsSeq ==
  ASSUME NEW q \in Seq(Package)
  PROVE  /\ Ids(q) \in Seq(IdSet) /\ Len(Ids(q)) = Len(q)
         /\ \A i \in 1 .. Len(q) : Ids(q)[i] = Id(q[i])
<1>1. Len(q) \in Nat /\ \A i \in 1 .. Len(q) : Id(q[i]) \in IdSet
  BY DEF IdSet
<1>2. QED
  BY <1>1 DEF Ids

\* Packages keep their order and their identity when one is added ...
LEMMA IdsAppend ==
  ASSUME NEW q \in Seq(Package), NEW p \in Package
  PROVE  Ids(Append(q, p)) = Append(Ids(q), Id(p))
<1> DEFINE r == Append(q, p)
           s == Append(Ids(q), Id(p))
<1>1. /\ r \in Seq(Package) /\ Len(q) \in Nat /\ Len(r) = Len(q) + 1 /\ r[Len(q) + 1] = p
      /\ \A i \in 1 .. Len(q) : r[i] = q[i]
  OBVIOUS
<1>2. Id(p) \in IdSet
  BY DEF IdSet
<1>3. /\ s \in Seq(IdSet) /\ Len(s) = Len(q) + 1 /\ s[Len(q) + 1] = Id(p)
      /\ \A i \in 1 .. Len(q) : s[i] = Id(q[i])
  <2> DEFINE t == Ids(q)
  <2>1. t \in Seq(IdSet) /\ Len(t) = Len(q) /\ \A i \in 1 .. Len(q) : t[i] = Id(q[i])
    BY IdsSeq
  <2> HIDE DEF t
  <2>2. s = Append(t, Id(p))
    BY DEF t
  <2> HIDE DEF s
  <2>3. QED
    BY <1>1, <1>2, <2>1, <2>2
<1> HIDE DEF r, s
<1>4. Ids(r) \in Seq(IdSet) /\ Len(Ids(r)) = Len(r) /\ \A i \in 1 .. Len(r) : Ids(r)[i] = Id(r[i])
  BY <1>1, IdsSeq
<1>5. Len(Ids(r)) = Len(s) /\ \A i \in 1 .. Len(s) : Ids(r)[i] = s[i]
  BY <1>1, <1>3, <1>4
<1>6. Ids(r) = s
  BY <1>3, <1>4, <1>5, SeqEqual
<1>7. QED
  BY <1>6 DEF r, s

\* ... and when the oldest one leaves.
LEMMA IdsTail ==
  ASSUME NEW q \in Seq(Package), q # <<>>
  PROVE  Ids(q) # <<>> /\ Ids(Tail(q)) = Tail(Ids(q))
<1> DEFINE r == Tail(q)
           t == Ids(q)
           s == Tail(t)
<1>1. /\ r \in Seq(Package) /\ Len(q) \in Nat \ {0} /\ Len(r) = Len(q) - 1
      /\ \A i \in 1 .. Len(q) - 1 : r[i] = q[i + 1]
  OBVIOUS
<1>2. t \in Seq(IdSet) /\ Len(t) = Len(q) /\ \A i \in 1 .. Len(q) : t[i] = Id(q[i])
  BY IdsSeq
<1> HIDE DEF r, t
<1>3. /\ t # <<>> /\ s \in Seq(IdSet) /\ Len(s) = Len(q) - 1
      /\ \A i \in 1 .. Len(q) - 1 : s[i] = t[i + 1]
  BY <1>1, <1>2
<1> HIDE DEF s
<1>4. Ids(r) \in Seq(IdSet) /\ Len(Ids(r)) = Len(r) /\ \A i \in 1 .. Len(r) : Ids(r)[i] = Id(r[i])
  BY <1>1, IdsSeq
<1>5. Len(Ids(r)) = Len(s) /\ \A i \in 1 .. Len(s) : Ids(r)[i] = s[i]
  BY <1>1, <1>2, <1>3, <1>4
<1>6. Ids(r) = s
  BY <1>3, <1>4, <1>5, SeqEqual
<1>7. QED
  BY <1>3, <1>6 DEF r, s, t

\* The package in hand, if any, comes before those queued.
LEMMA InChannelIs ==
  ASSUME Shape
  PROVE  /\ InChannel \in Seq(Package)
         /\ pc["main"] # "process" => InChannel = rxq
         /\ pc["main"] = "process" =>
              /\ Len(InChannel) = Len(rxq) + 1
              /\ InChannel # <<>>
              /\ InChannel[1] = om["main"]
              /\ Tail(InChannel) = rxq
              /\ \A i \in 1 .. Len(rxq) : InChannel[i + 1] = rxq[i]
<1>1. rxq \in Seq(Package) /\ (pc["main"] = "process" => om["main"] \in Package)
  BY DEF Shape, TypeOK, Holding
<1>2. CASE pc["main"] = "process"
  <2> DEFINE p == om["main"]
             c == <<p>> \o rxq
  <2>1. p \in Package /\ InChannel = c
    BY <1>1, <1>2 DEF InChannel, Taken
  <2> HIDE DEF p
  <2>2. /\ c \in Seq(Package) /\ Len(c) = Len(rxq) + 1 /\ c[1] = p
        /\ Len(rxq) \in Nat
        /\ \A i \in 1 .. Len(rxq) : c[i + 1] = rxq[i]
    BY <1>1, <2>1
  <2> HIDE DEF c
  <2>3. /\ c # <<>> /\ Tail(c) \in Seq(Package) /\ Len(Tail(c)) = Len(rxq)
        /\ \A i \in 1 .. Len(rxq) : Tail(c)[i] = rxq[i]
    BY <2>2
  <2>4. Tail(c) = rxq
    BY <1>1, <2>3
  <2>5. QED
    BY <1>2, <2>1, <2>2, <2>3, <2>4 DEF p
<1>3. CASE pc["main"] # "process"
  BY <1>1, <1>3 DEF InChannel, Taken
<1>4. QED
  BY <1>2, <1>3

\* Disjoint chains of at least one block, and one more block outside them,
\* fit the pool.
LEMMA ChainsFit ==
  ASSUME NEW n \in Nat, NEW chain, NEW b \in Block,
         \A i \in 1 .. n : chain[i] # {} /\ chain[i] \subseteq Block /\ b \notin chain[i],
         \A i, j \in 1 .. n : i # j => chain[i] \cap chain[j] = {}
  PROVE  n < Cardinality(Block)
<1> DEFINE rest == Block \ {b}
           first == [i \in 1 .. n |-> CHOOSE x : x \in chain[i]]
<1>1. IsFiniteSet(rest) /\ Cardinality(rest) = Cardinality(Block) - 1
  BY BlockAssumption, FS_RemoveElement
<1>2. \A i \in 1 .. n : first[i] \in chain[i]
  OBVIOUS
<1>3. first \in Injection(1 .. n, rest)
  <2>1. first \in [1 .. n -> rest]
    BY <1>2
  <2>2. \A i, j \in 1 .. n : first[i] = first[j] => i = j
    BY <1>2
  <2> HIDE DEF first, rest
  <2>3. QED
    BY <2>1, <2>2 DEF Injection, IsInjective
<1>4. Cardinality(1 .. n) <= Cardinality(rest)
  <2> HIDE DEF first, rest
  <2>1. QED
    BY <1>1, <1>3, FS_Injection
<1>5. Cardinality(1 .. n) = n
  BY FS_Interval
<1>6. Cardinality(Block) \in Nat
  BY BlockAssumption, FS_CardinalityType
<1>7. QED
  BY <1>1, <1>4, <1>5, <1>6

\* A task fills a package of its own, and the package being printed came whole
\* off the queue.
Ours == /\ \A t \in Task : pc[t] \in {"alloc", "copy", "put", "fail"} => om[t].src = t
        /\ pc["main"] = "process" => Cardinality(om["main"].blks) = om["main"].dlen

\* No task holds a package at the start.
LEMMA OursInit == Init => Ours
BY DEF Init, Ours

\* rtdoa_local_send keeps the package it was given.
LEMMA OursNext ==
  ASSUME Shape, CompletePackages, Ours, [Next]_vars
  PROVE  Ours'
<1> USE DEF Shape, TypeOK, Goto, Ours
<1>1. ASSUME UNCHANGED om, Wake \/ UNCHANGED pc
      PROVE  Ours'
  BY <1>1 DEF Wake, SemRelease, Waiting
<1>2. ASSUME NEW t \in Task, NEW l, l \notin {"alloc", "copy", "put", "fail", "process"},
             Goto(t, l), \A u \in Task : u # t => om'[u] = om[u]
      PROVE  Ours'
  BY <1>2
<1>3. ASSUME NEW t \in Task, NEW n, LocalSend(t, n)
      PROVE  Ours'
  BY <1>3 DEF LocalSend
<1>4. ASSUME NEW t \in Task, LocalSendStep(t)
      PROVE  Ours'
  <2>1. CASE GetPkthdr(t) \/ CopyExtend(t)
    <3>1. PICK b \in free : om' = [om EXCEPT ![t] = Extended(om[t], b)]
      BY <2>1 DEF GetPkthdr, CopyExtend, TakeBlock
    <3>2. om'[t].src = t /\ pc[t] # "process" /\ pc'[t] # "process"
      BY <2>1, <3>1 DEF GetPkthdr, CopyExtend, Extended
    <3>3. QED
      BY <2>1, <3>1, <3>2 DEF GetPkthdr, CopyExtend
  <2>2. CASE CopyDone(t) \/ CopyFails(t)
    BY <2>2 DEF CopyDone, CopyFails
  <2>3. CASE NoPkthdr(t) \/ FreeChain(t) \/ MqueueInsert(t) \/ MqueueSignal(t)
    BY <1>2, <2>3 DEF NoPkthdr, FreeChain, MqueueInsert, MqueueSignal
  <2>4. QED
    BY <1>4, <2>1, <2>2, <2>3 DEF LocalSendStep
<1>5. CASE MainStep
  <2>1. CASE MqueueGet
    <3>1. /\ rxq \in Seq(Package) /\ rxq # <<>> /\ pc' = [pc EXCEPT !["main"] = "process"]
          /\ om' = [om EXCEPT !["main"] = Head(rxq)]
      BY <2>1 DEF MqueueGet
    <3>2. Len(rxq) \in Nat \ {0} /\ Head(rxq) = rxq[1]
      BY <3>1
    <3>3. Cardinality(Head(rxq).blks) = Head(rxq).dlen
      BY <3>2 DEF CompletePackages, Chain
    <3>4. QED
      BY <3>1, <3>3
  <2>2. CASE DispatchRx \/ ProcessPackage \/ DrainEnd
    BY <1>2, <2>2 DEF DispatchRx, ProcessPackage, DrainEnd
  <2>3. CASE SendImuOnly
    BY <1>3, <2>3 DEF SendImuOnly
  <2>4. QED
    BY <1>4, <1>5, <2>1, <2>2, <2>3 DEF MainStep
<1>6. CASE SlotStep
  <2>1. CASE ListenPend1 \/ ListenPend2
    BY <1>2, <2>1 DEF ListenPend1, ListenPend2, SemPend
  <2>2. QED
    BY <1>2, <1>4, <1>6, <2>1
       DEF SlotStep, ListenArm, ListenStart, ListenRelease, ListenReturn
<1>7. CASE Call
  BY <1>1, <1>2, <1>3, <1>7
     DEF Call, SetRole, SensorTimer, SendResult, ListenCall
<1>8. CASE RxComplete \/ TxComplete
  BY <1>1, <1>8
     DEF RxComplete, TxComplete, RxForeign, RxIgnored, RxDuplicate, RxNoMbuf,
         RxQueued, RxCopyFails
<1>9. QED
  BY <1>1, <1>5, <1>6, <1>7, <1>8 DEF Next, vars

\* What the reachable states owe the mapping.
ChannelInv == Shape /\ SingleOwner /\ CompletePackages /\ PutComplete /\ Ours

\* A chain as long as its package is has a block.
LEMMA ChainNotEmpty ==
  ASSUME NEW p \in Package, Cardinality(p.blks) = p.dlen
  PROVE  p.blks # {}
BY FS_EmptySet DEF Package

\* The packages in the channel have chains of their own.
LEMMA ChannelChains ==
  ASSUME ChannelInv
  PROVE  /\ Len(InChannel) \in Nat
         /\ \A i \in 1 .. Len(InChannel) :
              /\ InChannel[i].blks # {}
              /\ InChannel[i].blks \subseteq Block
              /\ InChannel[i].blks \cap free = {}
              /\ \A t \in Task : \/ t = "main" /\ pc["main"] = "process"
                               \/ InChannel[i].blks \cap Held(t) = {}
         /\ \A i, j \in 1 .. Len(InChannel) :
              i # j => InChannel[i].blks \cap InChannel[j].blks = {}
<1> USE DEF ChannelInv
<1>0. /\ InChannel \in Seq(Package) /\ rxq \in Seq(Package)
      /\ Len(InChannel) \in Nat /\ Len(rxq) \in Nat
      /\ \A i \in 1 .. Len(InChannel) : InChannel[i] \in Package
  BY InChannelIs DEF Shape, TypeOK
<1>1. \A i \in 1 .. Len(rxq) : rxq[i].blks # {}
  BY <1>0, ChainNotEmpty DEF CompletePackages, Chain
<1>2. CASE pc["main"] # "process"
  <2>1. InChannel = rxq
    BY <1>2, InChannelIs
  <2>2. QED
    BY <1>0, <1>1, <2>1 DEF SingleOwner, Chain, Package
<1>3. CASE pc["main"] = "process"
  <2>1. /\ Len(InChannel) = Len(rxq) + 1
        /\ InChannel[1] = om["main"]
        /\ \A i \in 1 .. Len(rxq) : InChannel[i + 1] = rxq[i]
    BY <1>3, InChannelIs
  <2>2. InChannel[1] \in Package /\ Cardinality(om["main"].blks) = om["main"].dlen
    BY <1>0, <1>3, <2>1 DEF Ours
  <2>3. om["main"].blks # {}
    BY <2>1, <2>2, ChainNotEmpty
  <2>4. \A i \in 1 .. Len(InChannel) :
          \/ i = 1 /\ InChannel[i].blks = Held("main")
          \/ i - 1 \in 1 .. Len(rxq) /\ InChannel[i].blks = Chain(i - 1)
    BY <1>0, <2>1 DEF Held, Chain
  <2>5. \A i \in 1 .. Len(InChannel) : InChannel[i].blks \subseteq Block
    BY <1>0 DEF Package
  <2>6. \A i \in 1 .. Len(InChannel) : InChannel[i].blks # {}
    BY <1>1, <2>3, <2>4 DEF Held, Chain
  <2>7. \A i \in 1 .. Len(InChannel) :
          InChannel[i].blks \cap free = {} /\ InChannel[i].blks \cap Held("slot") = {}
    BY <2>4 DEF SingleOwner
  <2> HIDE DEF ChannelInv
  <2>8. \A i, j \in 1 .. Len(InChannel) :
          i # j => InChannel[i].blks \cap InChannel[j].blks = {}
    <3>1. /\ \A k \in 1 .. Len(rxq) : Held("main") \cap Chain(k) = {}
          /\ \A k, l \in 1 .. Len(rxq) : k # l => Chain(k) \cap Chain(l) = {}
      BY DEF SingleOwner, ChannelInv
    <3>2. ASSUME NEW i \in 1 .. Len(InChannel), NEW j \in 1 .. Len(InChannel), i # j
          PROVE  InChannel[i].blks \cap InChannel[j].blks = {}
      <4>1. i - 1 # j - 1
        BY <1>0, <3>2
      <4>2. /\ \/ i = 1 /\ InChannel[i].blks = Held("main")
               \/ i - 1 \in 1 .. Len(rxq) /\ InChannel[i].blks = Chain(i - 1)
            /\ \/ j = 1 /\ InChannel[j].blks = Held("main")
               \/ j - 1 \in 1 .. Len(rxq) /\ InChannel[j].blks = Chain(j - 1)
        BY ONLY <2>4, <3>2
      <4>3. CASE i = 1 /\ j = 1
        BY ONLY <3>2, <4>3
      <4>4. CASE i - 1 \in 1 .. Len(rxq) /\ j - 1 \in 1 .. Len(rxq)
                 /\ InChannel[i].blks = Chain(i - 1) /\ InChannel[j].blks = Chain(j - 1)
        <5> DEFINE k == i - 1
                   l == j - 1
        <5> HIDE DEF k, l
        <5>1. k \in 1 .. Len(rxq) /\ l \in 1 .. Len(rxq) /\ k # l
              /\ InChannel[i].blks = Chain(k) /\ InChannel[j].blks = Chain(l)
          BY <4>1, <4>4 DEF k, l
        <5>2. QED
          BY ONLY <3>1, <5>1
      <4>5. CASE i = 1 /\ InChannel[i].blks = Held("main")
                 /\ j - 1 \in 1 .. Len(rxq) /\ InChannel[j].blks = Chain(j - 1)
        BY ONLY <3>1, <4>5
      <4>6. CASE j = 1 /\ InChannel[j].blks = Held("main")
                 /\ i - 1 \in 1 .. Len(rxq) /\ InChannel[i].blks = Chain(i - 1)
        BY ONLY <3>1, <4>6
      <4>7. QED
        BY ONLY <4>2, <4>3, <4>4, <4>5, <4>6
    <3>3. QED
      BY ONLY <3>2
  <2>9. \A i \in 1 .. Len(InChannel) : \A t \in Task :
          \/ t = "main" /\ pc["main"] = "process"
          \/ InChannel[i].blks \cap Held(t) = {}
    BY ONLY <1>3, <2>7 DEF Task
  <2>10. QED
    BY ONLY <1>0, <2>5, <2>6, <2>7, <2>8, <2>9
<1>4. QED
  BY <1>2, <1>3

\* A package appended to rxpkt_q enters the channel at its end.
LEMMA EntersLast ==
  ASSUME Shape, Shape', NEW p \in Package, rxq' = Append(rxq, p),
         \/ pc["main"] # "process" /\ pc'["main"] # "process"
         \/ pc["main"] = "process" /\ pc'["main"] = "process" /\ om'["main"] = om["main"]
  PROVE  InChannel' = Append(InChannel, p)
<1>1. rxq \in Seq(Package)
  BY DEF Shape, TypeOK
<1>2. CASE pc["main"] # "process" /\ pc'["main"] # "process"
  BY <1>1, <1>2 DEF InChannel, Taken
<1>3. CASE pc["main"] = "process" /\ pc'["main"] = "process" /\ om'["main"] = om["main"]
  <2> DEFINE c == <<om["main"]>>
  <2>1. c \in Seq(Package)
    BY <1>3 DEF Shape, Holding
  <2>2. InChannel = c \o rxq /\ InChannel' = c \o Append(rxq, p)
    BY <1>3 DEF InChannel, Taken
  <2>3. Append(rxq, p) = rxq \o <<p>> /\ <<p>> \in Seq(Package)
    BY <1>1
  <2> HIDE DEF c
  <2>4. InChannel' = (c \o rxq) \o <<p>>
    BY <1>1, <2>1, <2>2, <2>3, ConcatAssociative
  <2>5. c \o rxq \in Seq(Package)
    BY <1>1, <2>1
  <2>6. QED
    BY <2>2, <2>4, <2>5
<1>4. QED
  BY <1>2, <1>3

\* A package with a chain of its own finds the channel below its capacity.
LEMMA AcceptStep ==
  ASSUME ChannelInv, NEW p \in Package, InChannel' = Append(InChannel, p),
         NEW b \in Block, \A i \in 1 .. Len(InChannel) : b \notin InChannel[i].blks
  PROVE  Channel!Accept(Id(p))
<1>1. InChannel \in Seq(Package)
  BY InChannelIs DEF ChannelInv
<1>2. Len(InChannel) < Cardinality(Block)
  <2> DEFINE n == Len(InChannel)
             chain == [i \in 1 .. n |-> InChannel[i].blks]
  <2>1. /\ n \in Nat
        /\ \A i \in 1 .. n : chain[i] # {} /\ chain[i] \subseteq Block /\ b \notin chain[i]
        /\ \A i, j \in 1 .. n : i # j => chain[i] \cap chain[j] = {}
    BY ChannelChains
  <2> HIDE DEF n, chain
  <2>2. n < Cardinality(Block)
    BY <2>1, ChainsFit
  <2>3. QED
    BY <2>2 DEF n
<1>3. Len(Ids(InChannel)) = Len(InChannel)
  BY <1>1, IdsSeq
<1>4. Ids(InChannel)' = Append(Ids(InChannel), Id(p))
  <2>1. Ids(InChannel)' = Ids(InChannel')
    BY DEF Ids, Id
  <2>2. QED
    BY <1>1, <2>1, IdsAppend
<1>5. QED
  BY <1>2, <1>3, <1>4 DEF Channel!Accept, Ids

\* A step that moves no package in or out of the channel, and hears none, is
\* not seen from outside.
LEMMA NotSeen ==
  ASSUME UNCHANGED <<InChannel, last>>
  PROVE  UNCHANGED Channel!vars
BY DEF Channel!vars, Id

\* The queue and the package in hand stay.
LEMMA ChannelStays ==
  ASSUME UNCHANGED rxq,
         \/ pc["main"] # "process" /\ pc'["main"] # "process"
         \/ pc'["main"] = pc["main"] /\ om'["main"] = om["main"]
  PROVE  InChannel' = InChannel
BY DEF InChannel, Taken

\* rx_complete_cb accepts or loses a package other than the one heard last,
\* and does nothing that can be seen otherwise.
LEMMA ChannelRx ==
  ASSUME ChannelInv, Shape', RxComplete
  PROVE  [Channel!Next]_Channel!vars
<1>1. PICK ts \in RxTimes :
        \/ RxForeign(ts)
        \/ RxIgnored(ts)
        \/ \E p \in Peer, s \in 0 .. SeqMod - 1 :
             \/ RxDuplicate(p, s, ts)
             \/ RxNoMbuf(p, s, ts)
             \/ \E n \in RxLengths : RxQueued(p, s, n, ts) \/ RxCopyFails(p, s, n, ts)
  BY DEF RxComplete
<1>2. UNCHANGED om /\ pc'["main"] = pc["main"]
  BY <1>1 DEF RxForeign, RxIgnored, RxDuplicate, RxNoMbuf, RxQueued, RxCopyFails,
              Wake, SemRelease, Waiting, ChannelInv, Shape, TypeOK
<1>3. ASSUME UNCHANGED <<rxq, last>>
      PROVE  UNCHANGED Channel!vars
  BY <1>2, <1>3, ChannelStays, NotSeen
<1>4. ASSUME NEW p \in Peer, NEW s \in 0 .. SeqMod - 1, last # <<p, s>>, last' = <<p, s>>,
             UNCHANGED rxq
      PROVE  Channel!Next
  <2>1. InChannel' = InChannel
    BY <1>2, <1>4, ChannelStays
  <2>2. UNCHANGED [i \in 1 .. Len(InChannel) |-> Id(InChannel[i])]
    BY <2>1 DEF Id
  <2>3. <<p, s>> \in Peer \X (0 .. SeqMod - 1)
    OBVIOUS
  <2>4. Channel!Hear(<<p, s>>)
    BY <1>4, <2>2 DEF Channel!Hear
  <2>5. QED
    BY <2>3, <2>4 DEF Channel!Next
<1>5. ASSUME NEW p \in Peer, NEW s \in 0 .. SeqMod - 1, NEW n \in RxLengths,
             RxQueued(p, s, n, ts)
      PROVE  Channel!Next
  <2>1. PICK chain \in SUBSET free :
          /\ Cardinality(chain) = n
          /\ rxq' = Append(rxq, [src |-> p, seq |-> s, dlen |-> n, blks |-> chain])
    BY <1>5 DEF RxQueued
  <2> DEFINE pkg == [src |-> p, seq |-> s, dlen |-> n, blks |-> chain]
  <2>2. pkg \in Package /\ free \subseteq Block
    BY <2>1, LengthAssumption DEF Package, ChannelInv, Shape, TypeOK
  <2>3. chain # {}
    <3>1. pkg.blks = chain /\ pkg.dlen = n
      OBVIOUS
    <3> HIDE DEF pkg
    <3>2. QED
      BY <2>1, <2>2, <3>1, ChainNotEmpty
  <2>4. PICK b \in chain : TRUE
    BY <2>3
  <2>5. b \in Block /\ \A i \in 1 .. Len(InChannel) : b \notin InChannel[i].blks
    BY <2>1, <2>2, <2>4, ChannelChains
  <2>6. InChannel' = Append(InChannel, pkg)
    <3>1. rxq' = Append(rxq, pkg)
      BY <2>1
    <3> HIDE DEF pkg
    <3>2. QED
      BY <1>2, <2>2, <3>1, EntersLast DEF ChannelInv
  <2>7. Channel!Accept(Id(pkg))
    <3> HIDE DEF pkg
    <3>1. QED
      BY <2>2, <2>5, <2>6, AcceptStep
  <2>8. Id(pkg) = <<p, s>> /\ <<p, s>> \in Peer \X (0 .. SeqMod - 1)
    BY DEF Id
  <2>9. last # <<p, s>> /\ last' = <<p, s>>
    BY <1>5 DEF RxQueued, Fresh
  <2>10. Channel!Hear(<<p, s>>)
    BY <2>7, <2>8, <2>9 DEF Channel!Hear
  <2>11. QED
    BY <2>8, <2>10 DEF Channel!Next
<1>6. QED
  BY <1>1, <1>3, <1>4, <1>5
     DEF RxForeign, RxIgnored, RxDuplicate, RxNoMbuf, RxCopyFails, Fresh

\* os_mqueue_put posts a package of the node; the rest of rtdoa_local_send is
\* not seen.
LEMMA ChannelLocalSend ==
  ASSUME ChannelInv, Shape', NEW t \in Task, LocalSendStep(t)
  PROVE  [Channel!Next]_Channel!vars
<1> USE DEF ChannelInv, Shape, TypeOK, Goto
<1>1. UNCHANGED last
  BY DEF LocalSendStep, GetPkthdr, NoPkthdr, CopyExtend, CopyDone, CopyFails,
         FreeChain, MqueueInsert, MqueueSignal
<1>2. /\ \/ pc["main"] # "process" /\ pc'["main"] # "process"
         \/ pc'["main"] = pc["main"] /\ om'["main"] = om["main"]
      /\ MqueueInsert(t) \/ UNCHANGED rxq
  BY DEF LocalSendStep, GetPkthdr, NoPkthdr, CopyExtend, CopyDone, CopyFails,
         FreeChain, MqueueInsert, MqueueSignal, TakeBlock
<1>3. CASE UNCHANGED rxq
  BY <1>1, <1>2, <1>3, ChannelStays, NotSeen
<1>4. CASE MqueueInsert(t)
  <2> DEFINE pkg == om[t]
  <2>1. /\ pkg \in Package /\ pkg.src = t /\ Cardinality(pkg.blks) = pkg.dlen
        /\ rxq' = Append(rxq, pkg)
    BY <1>4 DEF MqueueInsert, Holding, PutComplete, Ours
  <2>2. pkg.blks # {}
    BY <2>1, ChainNotEmpty
  <2>3. PICK b \in pkg.blks : TRUE
    BY <2>2
  <2>4. b \in Block
    BY <2>1 DEF Package
  <2>5. \A i \in 1 .. Len(InChannel) : b \notin InChannel[i].blks
    <3>1. ~(t = "main" /\ pc["main"] = "process")
      BY <1>4 DEF MqueueInsert
    <3>2. QED
      BY <3>1, ChannelChains DEF Held
  <2>6. InChannel' = Append(InChannel, pkg)
    <3> HIDE DEF pkg
    <3>1. QED
      BY <1>2, <2>1, EntersLast
  <2>7. Channel!Accept(Id(pkg))
    <3> HIDE DEF pkg
    <3>1. QED
      BY <2>1, <2>4, <2>5, <2>6, AcceptStep
  <2>8. Id(pkg) \in Task \X (0 .. SeqMod - 1)
    BY <2>1 DEF Id, Package
  <2>9. Channel!PostLocal(Id(pkg))
    BY <1>1, <2>7 DEF Channel!PostLocal
  <2>10. QED
    BY <2>8, <2>9 DEF Channel!Next
<1>5. QED
  BY <1>2, <1>3, <1>4

\* A sequence is its first element and the rest.
LEMMA HeadThenTail ==
  ASSUME NEW S, NEW s \in Seq(S), s # <<>>
  PROVE  s = <<Head(s)>> \o Tail(s)
<1> DEFINE h == <<Head(s)>>
           r == Tail(s)
           c == h \o r
<1>1. h \in Seq(S) /\ Len(h) = 1 /\ h[1] = s[1]
  OBVIOUS
<1>2. /\ r \in Seq(S) /\ Len(r) = Len(s) - 1 /\ Len(s) \in Nat \ {0}
      /\ \A i \in 1 .. Len(s) - 1 : r[i] = s[i + 1]
  OBVIOUS
<1> HIDE DEF h, r
<1>3. /\ c \in Seq(S) /\ Len(c) = Len(h) + Len(r)
      /\ \A i \in 1 .. Len(h) + Len(r) :
           c[i] = IF i <= Len(h) THEN h[i] ELSE r[i - Len(h)]
  BY ONLY <1>1, <1>2, ConcatProperties
<1> HIDE DEF c
<1>4. Len(c) = Len(s)
  BY <1>1, <1>2, <1>3
<1>5. ASSUME NEW i \in 1 .. Len(s)
      PROVE  c[i] = s[i]
  <2>1. c[i] = IF i <= 1 THEN h[i] ELSE r[i - 1]
    BY <1>1, <1>2, <1>3
  <2>2. CASE i = 1
    BY <1>1, <2>1, <2>2
  <2>3. CASE i # 1
    <3>1. i - 1 \in 1 .. Len(s) - 1 /\ (i - 1) + 1 = i /\ ~(i <= 1)
      BY <1>2, <2>3
    <3>2. QED
      BY <1>2, <2>1, <3>1
  <2>4. QED
    BY <2>2, <2>3
<1>6. c = s
  BY ONLY s \in Seq(S), <1>3, <1>4, <1>5, SeqEqual
<1>7. QED
  BY <1>6 DEF c, h, r

\* The main task delivers the package it has taken off the queue.
LEMMA ChannelMain ==
  ASSUME ChannelInv, Shape', MainStep
  PROVE  [Channel!Next]_Channel!vars
<1> USE DEF ChannelInv, Shape, TypeOK, Goto
<1>1. CASE ProcessPackage
  <2>1. /\ InChannel \in Seq(Package) /\ InChannel # <<>> /\ Tail(InChannel) = rxq
        /\ InChannel' = rxq
    <3>1. pc["main"] = "process" /\ pc'["main"] = "drain" /\ rxq' = rxq
      BY <1>1 DEF ProcessPackage
    <3>2. InChannel' = rxq'
      BY <3>1 DEF InChannel, Taken
    <3>3. QED
      BY <3>1, <3>2, InChannelIs
  <2>2. Ids(InChannel) # <<>> /\ Ids(Tail(InChannel)) = Tail(Ids(InChannel))
    BY <2>1, IdsTail
  <2>3. Ids(InChannel)' = Ids(InChannel')
    BY DEF Ids, Id
  <2>4. UNCHANGED last
    BY <1>1 DEF ProcessPackage
  <2>5. Channel!Deliver
    BY <2>1, <2>2, <2>3, <2>4 DEF Channel!Deliver, Ids
  <2>6. QED
    BY <2>5 DEF Channel!Next
<1>2. CASE MqueueGet
  <2>1. /\ pc["main"] = "drain" /\ pc'["main"] = "process" /\ rxq \in Seq(Package)
        /\ rxq # <<>> /\ rxq' = Tail(rxq) /\ om'["main"] = Head(rxq) /\ last' = last
    BY <1>2 DEF MqueueGet
  <2>2. InChannel = rxq /\ InChannel' = <<Head(rxq)>> \o Tail(rxq)
    <3>1. InChannel = rxq
      BY <2>1, InChannelIs
    <3>2. Taken' = <<Head(rxq)>>
      BY <2>1 DEF Taken
    <3>3. QED
      BY <2>1, <3>1, <3>2 DEF InChannel
  <2>3. rxq = <<Head(rxq)>> \o Tail(rxq)
    <3>1. rxq \in Seq(Package) /\ rxq # <<>>
      BY <2>1
    <3>2. QED
      BY ONLY <3>1, HeadThenTail
  <2>4. QED
    BY <2>1, <2>2, <2>3, NotSeen
<1>3. CASE DispatchRx \/ DrainEnd \/ SendImuOnly
  <2>1. pc["main"] # "process" /\ pc'["main"] # "process" /\ UNCHANGED <<rxq, last>>
    BY <1>3 DEF DispatchRx, DrainEnd, SendImuOnly, LocalSend
  <2>2. QED
    BY <2>1, ChannelStays, NotSeen
<1>4. QED
  BY <1>1, <1>2, <1>3, ChannelLocalSend DEF MainStep

\* Every step is a step of the channel or not seen at all.
LEMMA ChannelNext ==
  ASSUME ChannelInv, Shape', [Next]_vars
  PROVE  [Channel!Next]_Channel!vars
<1> USE DEF ChannelInv, Shape, TypeOK, PcOK, Goto
<1>1. ASSUME UNCHANGED <<rxq, last>>, om'["main"] = om["main"], pc'["main"] = pc["main"]
      PROVE  UNCHANGED Channel!vars
  BY <1>1, ChannelStays, NotSeen
<1>2. CASE TxComplete
  BY <1>1, <1>2 DEF TxComplete, Wake, SemRelease, Waiting
<1>3. CASE SlotStep
  <2>1. CASE ListenPend1 \/ ListenPend2
    BY <1>1, <2>1 DEF ListenPend1, ListenPend2, SemPend
  <2>2. ASSUME NEW l \in Listens, ListenArm(l[1], l[2])
        PROVE  UNCHANGED Channel!vars
    BY <1>1, <2>2 DEF ListenArm
  <2>3. ASSUME NEW error \in BOOLEAN, ListenStart(error)
        PROVE  UNCHANGED Channel!vars
    BY <1>1, <2>3 DEF ListenStart
  <2>4. CASE ListenRelease \/ ListenReturn
    BY <1>1, <2>4 DEF ListenRelease, ListenReturn
  <2>5. CASE LocalSendStep("slot")
    BY <2>5, ChannelLocalSend DEF Task
  <2> HIDE DEF ChannelInv
  <2>6. QED
    BY <1>3, <2>1, <2>2, <2>3, <2>4, <2>5 DEF SlotStep
<1>4. CASE Call
  <2>1. ASSUME NEW r \in Role, SetRole(r)
        PROVE  UNCHANGED Channel!vars
    BY <1>1, <2>1 DEF SetRole
  <2>2. CASE SensorTimer \/ ListenCall
    BY <1>1, <2>2 DEF SensorTimer, ListenCall
  <2>3. ASSUME NEW n \in ResultLengths, SendResult(n)
        PROVE  UNCHANGED Channel!vars
    BY <1>1, <2>3 DEF SendResult, LocalSend
  <2> HIDE DEF ChannelInv
  <2>4. QED
    BY <1>4, <2>1, <2>2, <2>3 DEF Call
<1>5. CASE UNCHANGED vars
  BY <1>1, <1>5 DEF vars
<1>6. QED
  BY <1>2, <1>3, <1>4, <1>5, ChannelRx, ChannelMain DEF Next

\* Nothing is in the channel at the start.
LEMMA ChannelInit == Init => Channel!Init
BY DEF Init, Channel!Init, InChannel, Taken

\* For every pool, every set of peers and every interleaving: what the reader
\* of the output sees is a bounded first-in first-out channel that drops a
\* package heard twice in a row.
THEOREM ChannelCorrect == Spec => ImplementsChannel
<1>1. Init => Channel!Init
  BY ChannelInit
<1>2. ChannelInv /\ Shape' /\ [Next]_vars => [Channel!Next]_Channel!vars
  BY ChannelNext
<1>3. Init => PutComplete /\ CompletePackages /\ Ours
  BY CompleteInit, OursInit
<1>4. Shape /\ CompletePackages /\ PutComplete /\ Ours /\ [Next]_vars
        => CompletePackages' /\ PutComplete' /\ Ours'
  BY CompleteNext, OursNext
<1>5. QED
  BY <1>1, <1>2, <1>3, <1>4, ShapeCorrect, SingleOwnerCorrect, PTL
     DEF Spec, ImplementsChannel, Channel!Spec, ChannelInv
=============================================================================
