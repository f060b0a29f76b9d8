---------------------- MODULE ListenerReceiversProofs ----------------------
(***************************************************************************)
(* Proof that no receiver of the sniffer is left off, in builds with and   *)
(* without CIR_ENABLED: whoever takes away the reason why a receiver will  *)
(* be restarted has begun to restart it.                                   *)
(***************************************************************************)
EXTENDS ListenerReceivers, TLAPS

Types ==
  /\ cir \in BOOLEAN
  /\ on \subseteq Receiver
  /\ limited \subseteq Receiver
  /\ irq \in [Receiver -> {"none", "frame", "timeout"}]
  /\ callout \in {"idle", "ticking", "queued"}
  /\ next \in [Task -> 0 .. 2]
  /\ timeout \in [Task -> BOOLEAN]

\* Where the MAC restarts the receivers, none is ever off: nobody gives them a
\* timeout.
AlwaysOn ==
  ~cir => /\ on = Receiver
          /\ limited = {}
          /\ \A t \in Task : ~timeout[t]

IInv == Types /\ AlwaysOn /\ RestartComes

USE DEF Receiver, Task, Main

LEMMA InitIInv == Init => IInv
BY BuildsAssumption DEF Init, IInv, Types, AlwaysOn, RestartComes

-----------------------------------------------------------------------------
\* Types and AlwaysOn: each callback on its own.
LEMMA NextShape ==
  ASSUME IInv, [Next]_vars
  PROVE  (Types /\ AlwaysOn)'
<1> USE DEF IInv, Types, AlwaysOn
<1>1. ASSUME NEW heard \in SUBSET Receiver, Frame(heard)
      PROVE  (Types /\ AlwaysOn)'
  BY <1>1 DEF Frame
<1>2. ASSUME NEW r \in Receiver, Timeout(r)
      PROVE  (Types /\ AlwaysOn)'
  BY <1>2 DEF Timeout
<1>3. ASSUME NEW t \in Task, Restart(t)
      PROVE  (Types /\ AlwaysOn)'
  <2>1. next[t] \in Receiver
    BY <1>3 DEF Restart, Idle
  <2>2. next' \in [Task -> 0 .. 2]
    BY <1>3, <2>1 DEF Restart
  <2>3. on' \subseteq Receiver /\ limited' \subseteq Receiver
    BY <1>3, <2>1 DEF Restart
  <2>4. AlwaysOn'
    BY <1>3, <2>1 DEF Restart
  <2> QED
    BY <1>3, <2>2, <2>3, <2>4 DEF Restart
<1>4. ASSUME NEW r \in Receiver, TimeoutCb(r)
      PROVE  (Types /\ AlwaysOn)'
  BY <1>4 DEF TimeoutCb, Take, RestartFrom
<1>5. CASE RxCompleteFirst
  BY <1>5 DEF RxCompleteFirst, Take
<1>6. CASE RxCompleteLast
  <2>1. CASE cir
    <3>1. RestartFrom(1, 0, TRUE)
      BY <1>6, <2>1 DEF RxCompleteLast
    <3>2. next' \in [Task -> 0 .. 2] /\ timeout' \in [Task -> BOOLEAN]
      BY <3>1 DEF RestartFrom
    <3> QED
      BY <1>6, <2>1, <3>2 DEF RxCompleteLast, Take
  <2>2. CASE ~cir
    BY <1>6, <2>2 DEF RxCompleteLast, Take
  <2> QED
    BY <2>1, <2>2
<1>7. CASE Expire
  BY <1>7 DEF Expire
<1>8. CASE RxReenable \/ ConfigUpdate
  <2>1. RestartFrom(Main, 0, FALSE)
    BY <1>8 DEF RxReenable, ConfigUpdate
  <2>2. next' \in [Task -> 0 .. 2] /\ timeout' \in [Task -> BOOLEAN]
    BY <2>1 DEF RestartFrom
  <2>3. \A t \in Task : timeout'[t] => timeout[t]
    BY <2>1 DEF RestartFrom
  <2>4. UNCHANGED <<cir, on, limited, irq>>
        /\ callout' \in {"idle", "ticking", "queued"}
    BY <1>8 DEF RxReenable, ConfigUpdate
  <2>5. AlwaysOn'
    BY <2>3, <2>4
  <2> QED
    BY <2>2, <2>4, <2>5
<1>9. CASE Commit
  BY <1>9 DEF Commit
<1>10. CASE UNCHANGED vars
  BY <1>10 DEF vars
<1> QED
  BY <1>1, <1>2, <1>3, <1>4, <1>5, <1>6, <1>7, <1>8, <1>9, <1>10
     DEF Next, Callback

-----------------------------------------------------------------------------
\* Why a receiver that is off will be restarted.
Hope(r) ==
  \/ irq[r] # "none" \/ irq[1] = "frame" \/ irq[1 - r] = "timeout"
  \/ \E t \in Task : next[t] <= r
  \/ callout # "idle"

\* A restart loop that begins gives hope to both.
LEMMA RestartGivesHope ==
  ASSUME IInv, NEW t \in Task, NEW w, RestartFrom(t, 0, w), NEW r \in Receiver
  PROVE  Hope(r)'
<1>1. next'[t] = 0
  BY DEF RestartFrom, IInv, Types
<1> QED
  BY <1>1 DEF Hope

LEMMA NextRestartComes ==
  ASSUME IInv, [Next]_vars
  PROVE  RestartComes'
<1> SUFFICES ASSUME NEW r \in Receiver, r \notin on' PROVE Hope(r)'
  BY DEF RestartComes, Hope
<1>0. r \in on \/ Hope(r)
  BY DEF IInv, RestartComes, Hope
<1> USE DEF IInv, Types
<1>1. ASSUME NEW heard \in SUBSET Receiver, Frame(heard) PROVE Hope(r)'
  <2>1. CASE r \in heard
    BY <1>1, <2>1 DEF Frame, Hope
  <2>2. CASE r \notin heard
    <3>1. Hope(r)
      BY <1>0, <1>1, <2>2 DEF Frame
    <3> QED
      BY <1>1, <2>2, <3>1 DEF Frame, Hope
  <2> QED
    BY <2>1, <2>2
<1>2. ASSUME NEW s \in Receiver, Timeout(s) PROVE Hope(r)'
  <2>1. CASE r = s
    BY <1>2, <2>1 DEF Timeout, Hope
  <2>2. CASE r # s
    <3>1. Hope(r)
      BY <1>0, <1>2, <2>2 DEF Timeout
    <3> QED
      BY <1>2, <2>2, <3>1 DEF Timeout, Hope
  <2> QED
    BY <2>1, <2>2
<1>3. ASSUME NEW t \in Task, Restart(t) PROVE Hope(r)'
  <2>1. Hope(r) /\ r # next[t]
    BY <1>0, <1>3 DEF Restart
  <2>2. ASSUME NEW u \in Task, next[u] <= r PROVE next'[u] <= r
    BY <1>3, <2>1, <2>2 DEF Restart, Idle
  <2> QED
    BY <1>3, <2>1, <2>2 DEF Restart, Hope
<1>4. ASSUME NEW s \in Receiver, TimeoutCb(s) PROVE Hope(r)'
  BY <1>4, RestartGivesHope DEF TimeoutCb
<1>5. CASE RxCompleteFirst
  <2>1. CASE cir
    BY <1>5, <2>1 DEF RxCompleteFirst, Hope
  <2>2. CASE ~cir
    BY <1>5, <2>2 DEF RxCompleteFirst, AlwaysOn
  <2> QED
    BY <2>1, <2>2
<1>6. CASE RxCompleteLast
  <2>1. CASE cir
    BY <1>6, <2>1, RestartGivesHope DEF RxCompleteLast
  <2>2. CASE ~cir
    BY <1>6, <2>2 DEF RxCompleteLast, AlwaysOn
  <2> QED
    BY <2>1, <2>2
<1>7. CASE Expire
  BY <1>7 DEF Expire, Hope
<1>8. CASE RxReenable \/ ConfigUpdate
  BY <1>8, RestartGivesHope DEF RxReenable, ConfigUpdate
<1>9. CASE Commit
  BY <1>0, <1>9 DEF Commit, Hope
<1>10. CASE UNCHANGED vars
  BY <1>0, <1>10 DEF vars, Hope
<1> QED
  BY <1>1, <1>2, <1>3, <1>4, <1>5, <1>6, <1>7, <1>8, <1>9, <1>10
     DEF Next, Callback

-----------------------------------------------------------------------------
\* A receiver that is off is about to be restarted, whichever of the two heard
\* a frame, timed out, or had its callout stopped by the other one.
THEOREM RestartComesCorrect == Spec => []RestartComes
<1>1. IInv /\ [Next]_vars => IInv'
  BY NextShape, NextRestartComes DEF IInv
<1>2. IInv => RestartComes
  BY DEF IInv
<1> QED
  BY InitIInv, <1>1, <1>2, PTL DEF Spec
=============================================================================
