--------------------------- MODULE RtdoaBackhaul ---------------------------
(***************************************************************************)
(* The RTDoA backhaul library, lib/rtdoa_backhaul/src/rtdoa_backhaul.c.    *)
(*                                                                         *)
(* Result packages reach the queue rxpkt_q from three contexts: the MAC's  *)
(* receive callback, the slot task (rtdoa_backhaul_send on a bridge) and   *)
(* the main task (rtdoa_backhaul_send_imu_only).  The main task empties    *)
(* the queue.  Every queued package is a chain of blocks of g_mbuf_pool.   *)
(* rtdoa_backhaul_listen, called by the slot task, sleeps on g_sem until a *)
(* MAC callback releases it.                                               *)
(*                                                                         *)
(* A MAC callback runs to completion with respect to the two tasks; the    *)
(* tasks interleave at every kernel call.  A package is the pair (source,  *)
(* sequence number) with its length counted in blocks: sensor values,      *)
(* ranges, statistics and the JSON text are left out.                      *)
(*                                                                         *)
(* A definition that stands right before the one it imitates, and that no  *)
(* action uses, is a faulty variant of it: putting it in the place of the  *)
(* original shows that the properties notice.                              *)
(***************************************************************************)
EXTENDS Integers, Sequences, FiniteSets

CONSTANTS
  Block,        \* blocks of g_mbuf_pool (RTDOABH_NUM_MBUFS of them)
  Peer,         \* short addresses that result packages are received from
  SeqMod,       \* sequence numbers are modulo this (uint8_t: 256)
  RxLengths,    \* lengths, in blocks, of the packages received
  ResultLengths,\* lengths, in blocks, of the packages of rtdoa_backhaul_send
  Tick,         \* device time units in one UWB microsecond (2^16)
  TimeoutMod,   \* rx timeouts are modulo this (uint16_t: 2^16)
  Listens,      \* <<dx_time, timeout_uus>> arguments of rtdoa_backhaul_listen
  RxTimes       \* receive timestamps, in device time units

Task == {"main", "slot"}      \* default event queue; TDMA slot callbacks
Role == {"INVALID", "BRIDGE", "PRODUCER"}
Source == Peer \cup Task      \* a task stands for the package it owns

ASSUME PeerAssumption == Peer \cap (Task \cup {"none"}) = {}
ASSUME BlockAssumption == IsFiniteSet(Block)
ASSUME SeqAssumption == SeqMod \in Nat \ {0}
ASSUME LengthAssumption == /\ RxLengths \subseteq Nat \ {0}
                           /\ ResultLengths \subseteq Nat \ {0}
ASSUME TimeAssumption == /\ Tick \in Nat \ {0}
                         /\ TimeoutMod \in Nat \ {0}
                         /\ Listens \subseteq Nat \X (0 .. TimeoutMod - 1)
                         /\ RxTimes \subseteq Nat

VARIABLES
  role,     \* g_role
  free,     \* the blocks g_mbuf_mempool can still hand out
  rxq,      \* rxpkt_q
  evq,      \* pending events of the default event queue, oldest first
  last,     \* <<last_address, last_seq_num>> of rx_complete_cb
  sem,      \* tokens of g_sem
  gTo,      \* g_to_dx_time
  rxTo,     \* the receive timeout last programmed
  seq,      \* head.seq_num of g_result_pkg ("slot"), g_result_pkg_imu ("main")
  om,       \* the package each task holds in its local variable om
  pc        \* where each task is

vars == <<role, free, rxq, evq, last, sem, gTo, rxTo, seq, om, pc>>

SendPc == {"alloc", "copy", "put", "signal", "fail"}
DrainPc == {"drain", "process"}
ListenPc == {"pend1", "wait1", "arm", "start", "pend2", "wait2", "release",
             "clear"}

Package == [src : Source, seq : 0 .. SeqMod - 1, dlen : Nat \ {0},
            blks : SUBSET Block]
NoPackage == [src |-> "none", seq |-> 0, dlen |-> 0, blks |-> {}]

TypeOK ==
  /\ role \in Role
  /\ free \in SUBSET Block
  /\ rxq \in Seq(Package)
  /\ evq \in Seq({"rx", "imu"})
  /\ last \in (Peer \cup {"none"}) \X (0 .. SeqMod - 1)
  /\ sem \in Nat
  /\ gTo \in Nat
  /\ rxTo \in 0 .. TimeoutMod - 1
  /\ seq \in [Task -> 0 .. SeqMod - 1]
  /\ om \in [Task -> Package \cup {NoPackage}]
  /\ pc \in [Task -> {"idle"} \cup SendPc \cup DrainPc \cup ListenPc]

Init ==
  /\ role = "INVALID"
  /\ free = Block
  /\ rxq = <<>>
  /\ evq = <<>>
  /\ last = <<"none", 0>>
  /\ sem = 1
  /\ gTo = 0
  /\ rxTo = 0
  /\ seq = [t \in Task |-> 0]
  /\ om = [t \in Task |-> NoPackage]
  /\ pc = [t \in Task |-> "idle"]

-----------------------------------------------------------------------------
(***************************************************************************)
(* The kernel calls the library relies on.                                 *)
(***************************************************************************)

\* os_eventq_put: an event that is already queued is not queued again.
Post(e) == evq' = IF \E i \in 1 .. Len(evq) : evq[i] = e
                  THEN evq
                  ELSE Append(evq, e)

\* os_sem_release: the token goes to the task asleep on g_sem, if there is
\* one, and is counted otherwise.
Waiting == pc["slot"] \in {"wait1", "wait2"}
SemRelease ==
  IF Waiting
  THEN /\ pc' = [pc EXCEPT !["slot"] = IF @ = "wait1" THEN "arm" ELSE "release"]
       /\ UNCHANGED sem
  ELSE /\ sem' = sem + 1
       /\ UNCHANGED pc

\* os_sem_pend by the slot task: take a token, or sleep.
SemPend(taken, asleep) ==
  IF sem > 0
  THEN /\ sem' = sem - 1
       /\ pc' = [pc EXCEPT !["slot"] = taken]
  ELSE /\ pc' = [pc EXCEPT !["slot"] = asleep]
       /\ UNCHANGED sem

-----------------------------------------------------------------------------
(***************************************************************************)
(* MAC callbacks.                                                          *)
(***************************************************************************)

\* A callback releases g_sem only when it reads a count of zero.
WakeAlways == SemRelease
Wake == IF sem = 0 THEN SemRelease ELSE UNCHANGED <<sem, pc>>

\* What is left of the listen at time ts, as rx_complete_cb computes it.
TimeLeftWide(ts) == (gTo - ts) \div Tick
TimeLeft(ts) == ((gTo - ts) \div Tick) % TimeoutMod

\* rx_complete_cb starts by shortening the receive timeout of any frame that
\* arrives while g_to_dx_time is set.
AdjustTimeout(ts) == rxTo' = IF gTo # 0 THEN TimeLeft(ts) ELSE rxTo

\* A frame that is not a backhaul frame is left to the other services.
RxForeign(ts) ==
  /\ AdjustTimeout(ts)
  /\ UNCHANGED <<role, free, rxq, evq, last, sem, gTo, seq, om, pc>>

\* A backhaul frame for another node, or for a node that is not a bridge, or
\* too short to be a package: only the listener is woken.
RxIgnored(ts) ==
  /\ AdjustTimeout(ts)
  /\ Wake
  /\ UNCHANGED <<role, free, rxq, evq, last, gTo, seq, om>>

\* The package differs from the one heard last.
FreshAlways(p, s) == TRUE
Fresh(p, s) == last # <<p, s>>

\* The package heard last is heard again: dropped, and nobody is woken.
RxDuplicate(p, s, ts) ==
  /\ role = "BRIDGE"
  /\ ~Fresh(p, s)
  /\ AdjustTimeout(ts)
  /\ UNCHANGED <<role, free, rxq, evq, last, sem, gTo, seq, om, pc>>

\* A new package is copied to a chain of blocks and queued.
RxQueued(p, s, n, ts) ==
  /\ role = "BRIDGE"
  /\ Fresh(p, s)
  /\ AdjustTimeout(ts)
  /\ last' = <<p, s>>
  /\ \E chain \in SUBSET free :
       /\ Cardinality(chain) = n
       /\ free' = free \ chain
       /\ rxq' = Append(rxq, [src |-> p, seq |-> s, dlen |-> n, blks |-> chain])
  /\ Post("rx")
  /\ Wake
  /\ UNCHANGED <<role, gTo, seq, om>>

\* There is no block for the package header: the package is dropped.
RxNoMbuf(p, s, ts) ==
  /\ role = "BRIDGE"
  /\ Fresh(p, s)
  /\ free = {}
  /\ AdjustTimeout(ts)
  /\ last' = <<p, s>>
  /\ Wake
  /\ UNCHANGED <<role, free, rxq, evq, gTo, seq, om>>

\* The pool runs out while the package is copied: os_mbuf_copyinto fails with
\* every remaining block on the chain, and the callback returns at once.
RxCopyFails(p, s, n, ts) ==
  /\ role = "BRIDGE"
  /\ Fresh(p, s)
  /\ free # {}
  /\ Cardinality(free) < n
  /\ AdjustTimeout(ts)
  /\ last' = <<p, s>>
  /\ free' = {}
  /\ UNCHANGED <<role, rxq, evq, sem, gTo, seq, om, pc>>

RxComplete ==
  \E ts \in RxTimes :
    \/ RxForeign(ts)
    \/ RxIgnored(ts)
    \/ \E p \in Peer, s \in 0 .. SeqMod - 1 :
         \/ RxDuplicate(p, s, ts)
         \/ RxNoMbuf(p, s, ts)
         \/ \E n \in RxLengths : RxQueued(p, s, n, ts) \/ RxCopyFails(p, s, n, ts)

\* tx_complete_cb: a backhaul frame has been sent and no listen is going on.
TxComplete ==
  /\ gTo = 0
  /\ Wake
  /\ UNCHANGED <<role, free, rxq, evq, last, gTo, rxTo, seq, om>>

-----------------------------------------------------------------------------
(***************************************************************************)
(* rtdoa_local_send, run by either task.                                   *)
(***************************************************************************)

Goto(t, l) == pc' = [pc EXCEPT ![t] = l]

\* head.seq_num of the task's own package is a uint8_t.
CountPackageWide(t) == seq' = [seq EXCEPT ![t] = @ + 1]
CountPackage(t) == seq' = [seq EXCEPT ![t] = (@ + 1) % SeqMod]

\* The task has filled in its own package and calls rtdoa_local_send.
LocalSend(t, n) ==
  /\ om' = [om EXCEPT ![t] = [src |-> t, seq |-> seq'[t], dlen |-> n, blks |-> {}]]
  /\ Goto(t, "alloc")

\* os_memblock_get: a block of the pool goes to the end of the task's chain.
Extended(p, b) == [src |-> p.src, seq |-> p.seq, dlen |-> p.dlen,
                   blks |-> p.blks \cup {b}]
TakeBlockUnprotected(t) ==
  \E b \in free : /\ om' = [om EXCEPT ![t] = Extended(@, b)]
                  /\ UNCHANGED free
TakeBlock(t) ==
  \E b \in free : /\ free' = free \ {b}
                  /\ om' = [om EXCEPT ![t] = Extended(@, b)]

\* os_mbuf_get_pkthdr
GetPkthdr(t) ==
  /\ pc[t] = "alloc"
  /\ TakeBlock(t)
  /\ Goto(t, "copy")
  /\ UNCHANGED <<role, rxq, evq, last, sem, gTo, rxTo, seq>>

NoPkthdr(t) ==
  /\ pc[t] = "alloc"
  /\ free = {}
  /\ om' = [om EXCEPT ![t] = NoPackage]
  /\ Goto(t, "idle")
  /\ UNCHANGED <<role, free, rxq, evq, last, sem, gTo, rxTo, seq>>

\* os_mbuf_copyinto extends the chain one block at a time.
CopyExtend(t) ==
  /\ pc[t] = "copy"
  /\ Cardinality(om[t].blks) < om[t].dlen
  /\ TakeBlock(t)
  /\ UNCHANGED <<role, rxq, evq, last, sem, gTo, rxTo, seq, pc>>

CopyDoneUnchecked(t) ==
  /\ pc[t] = "copy"
  /\ Goto(t, "put")
  /\ UNCHANGED <<role, free, rxq, evq, last, sem, gTo, rxTo, seq, om>>
CopyDone(t) ==
  /\ pc[t] = "copy"
  /\ Cardinality(om[t].blks) = om[t].dlen
  /\ Goto(t, "put")
  /\ UNCHANGED <<role, free, rxq, evq, last, sem, gTo, rxTo, seq, om>>

CopyFails(t) ==
  /\ pc[t] = "copy"
  /\ Cardinality(om[t].blks) < om[t].dlen
  /\ free = {}
  /\ Goto(t, "fail")
  /\ UNCHANGED <<role, free, rxq, evq, last, sem, gTo, rxTo, seq, om>>

\* exit_err: os_mbuf_free_chain
FreeChainForgotten(t) ==
  /\ pc[t] = "fail"
  /\ om' = [om EXCEPT ![t] = NoPackage]
  /\ Goto(t, "idle")
  /\ UNCHANGED <<role, free, rxq, evq, last, sem, gTo, rxTo, seq>>
FreeChain(t) ==
  /\ pc[t] = "fail"
  /\ free' = free \cup om[t].blks
  /\ om' = [om EXCEPT ![t] = NoPackage]
  /\ Goto(t, "idle")
  /\ UNCHANGED <<role, rxq, evq, last, sem, gTo, rxTo, seq>>

\* os_mqueue_put inserts the package, then posts the queue's event.
MqueueInsert(t) ==
  /\ pc[t] = "put"
  /\ rxq' = Append(rxq, om[t])
  /\ om' = [om EXCEPT ![t] = NoPackage]
  /\ Goto(t, "signal")
  /\ UNCHANGED <<role, free, evq, last, sem, gTo, rxTo, seq>>

MqueueSignal(t) ==
  /\ pc[t] = "signal"
  /\ Post("rx")
  /\ Goto(t, "idle")
  /\ UNCHANGED <<role, free, rxq, last, sem, gTo, rxTo, seq, om>>

LocalSendStep(t) ==
  \/ GetPkthdr(t)
  \/ NoPkthdr(t)
  \/ CopyExtend(t)
  \/ CopyDone(t)
  \/ CopyFails(t)
  \/ FreeChain(t)
  \/ MqueueInsert(t)
  \/ MqueueSignal(t)

-----------------------------------------------------------------------------
(***************************************************************************)
(* The main task: the default event queue.                                 *)
(***************************************************************************)

\* The event loop takes the queue's event and calls process_rx_data_queue.
DispatchRx ==
  /\ pc["main"] = "idle"
  /\ evq # <<>>
  /\ Head(evq) = "rx"
  /\ evq' = Tail(evq)
  /\ Goto("main", "drain")
  /\ UNCHANGED <<role, free, rxq, last, sem, gTo, rxTo, seq, om>>

MqueueGet ==
  /\ pc["main"] = "drain"
  /\ rxq # <<>>
  /\ om' = [om EXCEPT !["main"] = Head(rxq)]
  /\ rxq' = Tail(rxq)
  /\ Goto("main", "process")
  /\ UNCHANGED <<role, free, evq, last, sem, gTo, rxTo, seq>>

\* The package is printed, on a bridge, and its chain freed.
ProcessOnePackage ==
  /\ pc["main"] = "process"
  /\ free' = free \cup om["main"].blks
  /\ om' = [om EXCEPT !["main"] = NoPackage]
  /\ Goto("main", "idle")
  /\ UNCHANGED <<role, rxq, evq, last, sem, gTo, rxTo, seq>>
ProcessPackage ==
  /\ pc["main"] = "process"
  /\ free' = free \cup om["main"].blks
  /\ om' = [om EXCEPT !["main"] = NoPackage]
  /\ Goto("main", "drain")
  /\ UNCHANGED <<role, rxq, evq, last, sem, gTo, rxTo, seq>>

DrainEnd ==
  /\ pc["main"] = "drain"
  /\ rxq = <<>>
  /\ Goto("main", "idle")
  /\ UNCHANGED <<role, free, rxq, evq, last, sem, gTo, rxTo, seq, om>>

\* The application's sensor callout calls rtdoa_backhaul_send_imu_only.
SendImuOnly ==
  /\ pc["main"] = "idle"
  /\ evq # <<>>
  /\ Head(evq) = "imu"
  /\ evq' = Tail(evq)
  /\ CountPackage("main")
  /\ LocalSend("main", 1)
  /\ UNCHANGED <<role, free, rxq, last, sem, gTo, rxTo>>

MainStep ==
  \/ DispatchRx
  \/ MqueueGet
  \/ ProcessPackage
  \/ DrainEnd
  \/ SendImuOnly
  \/ LocalSendStep("main")

-----------------------------------------------------------------------------
(***************************************************************************)
(* The slot task: rtdoa_backhaul_send and rtdoa_backhaul_listen.           *)
(***************************************************************************)

\* rtdoa_backhaul_send of n blocks.  It ends early when the transmission
\* cannot be started, and queues a copy only on a bridge.
SendResult(n) ==
  /\ pc["slot"] = "idle"
  /\ CountPackage("slot")
  /\ \/ /\ role = "BRIDGE"
        /\ LocalSend("slot", n)
     \/ UNCHANGED <<om, pc>>    \* start_tx_error, or not a bridge
  /\ UNCHANGED <<role, free, rxq, evq, last, sem, gTo, rxTo>>

ListenCall ==
  /\ pc["slot"] = "idle"
  /\ Goto("slot", "pend1")
  /\ UNCHANGED <<role, free, rxq, evq, last, sem, gTo, rxTo, seq, om>>

ListenPend1 ==
  /\ pc["slot"] = "pend1"
  /\ SemPend("arm", "wait1")
  /\ UNCHANGED <<role, free, rxq, evq, last, gTo, rxTo, seq, om>>

\* From here to the end of the listen rx_complete_cb adjusts the timeout; one
\* that runs before uwb_set_rx_timeout has its adjustment overwritten.
ListenArm(dx, timeout) ==
  /\ pc["slot"] = "arm"
  /\ gTo' = dx + timeout * Tick
  /\ rxTo' = timeout
  /\ Goto("slot", "start")
  /\ UNCHANGED <<role, free, rxq, evq, last, sem, seq, om>>

ListenStart(error) ==
  /\ pc["slot"] = "start"
  /\ sem' = IF error THEN sem + 1 ELSE sem
  /\ Goto("slot", "pend2")
  /\ UNCHANGED <<role, free, rxq, evq, last, gTo, rxTo, seq, om>>

ListenPend2 ==
  /\ pc["slot"] = "pend2"
  /\ SemPend("release", "wait2")
  /\ UNCHANGED <<role, free, rxq, evq, last, gTo, rxTo, seq, om>>

ListenRelease ==
  /\ pc["slot"] = "release"
  /\ sem' = sem + 1
  /\ Goto("slot", "clear")
  /\ UNCHANGED <<role, free, rxq, evq, last, gTo, rxTo, seq, om>>

ListenReturnArmed ==
  /\ pc["slot"] = "clear"
  /\ Goto("slot", "idle")
  /\ UNCHANGED <<role, free, rxq, evq, last, sem, gTo, rxTo, seq, om>>
ListenReturn ==
  /\ pc["slot"] = "clear"
  /\ gTo' = 0
  /\ Goto("slot", "idle")
  /\ UNCHANGED <<role, free, rxq, evq, last, sem, rxTo, seq, om>>

\* What the slot task does once a call has begun.
SlotStep ==
  \/ ListenPend1
  \/ \E l \in Listens : ListenArm(l[1], l[2])
  \/ \E error \in BOOLEAN : ListenStart(error)
  \/ ListenPend2
  \/ ListenRelease
  \/ ListenReturn
  \/ LocalSendStep("slot")

-----------------------------------------------------------------------------
(***************************************************************************)
(* The application.                                                        *)
(***************************************************************************)

SetRole(r) ==
  /\ role' = r
  /\ UNCHANGED <<free, rxq, evq, last, sem, gTo, rxTo, seq, om, pc>>

\* The sensor callout expires.  It is armed again at the end of its event, so
\* it cannot expire while that event is queued or being handled.
SensorTimer ==
  /\ pc["main"] \notin SendPc
  /\ \A i \in 1 .. Len(evq) : evq[i] # "imu"
  /\ Post("imu")
  /\ UNCHANGED <<role, free, rxq, last, sem, gTo, rxTo, seq, om, pc>>

Call ==
  \/ \E r \in Role : SetRole(r)
  \/ SensorTimer
  \/ \E n \in ResultLengths : SendResult(n)
  \/ ListenCall

Next == RxComplete \/ TxComplete \/ MainStep \/ SlotStep \/ Call

Spec == Init /\ [][Next]_vars

\* The scheduler runs a task that can run; the MAC callbacks and the
\* application owe nothing.
FairSpec == Spec /\ WF_vars(MainStep) /\ WF_vars(SlotStep)

-----------------------------------------------------------------------------
(***************************************************************************)
(* Properties.                                                             *)
(***************************************************************************)

Chain(i) == rxq[i].blks
Held(t) == om[t].blks

\* A block is in the pool, on one queued package, or on the package of one
\* task, and never in two of these: an interleaving of os_mbuf_get_pkthdr,
\* os_mbuf_copyinto and os_mbuf_free_chain in two tasks and the callback never
\* hands out a block in use and never frees one twice.
SingleOwner ==
  /\ \A i, j \in 1 .. Len(rxq) : i # j => Chain(i) \cap Chain(j) = {}
  /\ \A i \in 1 .. Len(rxq) : Chain(i) \cap free = {}
  /\ \A t \in Task : Held(t) \cap free = {}
  /\ \A t \in Task, i \in 1 .. Len(rxq) : Held(t) \cap Chain(i) = {}
  /\ Held("main") \cap Held("slot") = {}

\* A package that fails half way is never queued: what process_rx_data_queue
\* finds on rxpkt_q has as many blocks as its length calls for.
CompletePackages ==
  \A i \in 1 .. Len(rxq) : Cardinality(Chain(i)) = rxq[i].dlen

\* The blocks somebody owns, and those nobody owns any more.
Queued == UNION {Chain(i) : i \in 1 .. Len(rxq)}
Owned == free \cup Held("main") \cup Held("slot") \cup Queued
Lost == Block \ Owned

\* "Not enough memory to handle incoming packet, drop it": whatever happens to
\* a package, its blocks find their way back to the pool.
NoLeak == Lost = {}

\* The only step that loses blocks is a received package that the pool cannot
\* hold: it takes every block left, queues nothing, and counts as heard.  No
\* step ever gets a lost block back, so rtdoa_backhaul_queue_size never again
\* falls below the number lost.
LeakOnlyFromRx ==
  [][Lost' # Lost => /\ Lost' = Lost \cup free
                     /\ free # {} /\ free' = {}
                     /\ rxq' = rxq /\ evq' = evq /\ om' = om /\ pc' = pc
                     /\ last' # last]_vars

\* A package on rxpkt_q is on its way to the main task: the queue's event is
\* pending, or the main task is in process_rx_data_queue, or a task that has
\* just inserted is about to post the event.
NoLostWakeup ==
  rxq # <<>> =>
    \/ \E i \in 1 .. Len(evq) : evq[i] = "rx"
    \/ pc["main"] \in DrainPc
    \/ \E t \in Task : pc[t] = "signal"

\* The unguarded releases of rtdoa_backhaul_listen and the guarded ones of the
\* callbacks never pile up more than two tokens, and outside
\* rtdoa_backhaul_listen there is always one: the next listen gets past its
\* first os_sem_pend, so it never sleeps before it has started the receiver.
TokensBounded ==
  /\ sem <= 2
  /\ pc["slot"] \notin ListenPc => sem >= 1
  /\ pc["slot"] # "wait1"

\* A listen that has armed g_to_dx_time clears it before it returns, so that
\* rx_complete_cb touches the timeout of another service's receive only while
\* a listen is under way.
TimeoutUntouched ==
  [][rxTo' # rxTo => pc["slot"] \in ListenPc]_vars

=============================================================================
