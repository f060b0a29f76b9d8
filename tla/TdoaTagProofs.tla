--------------------------- MODULE TdoaTagProofs ---------------------------
(***************************************************************************)
(* Proofs about TdoaTag, for any set of blink rates and any tick rate.     *)
(***************************************************************************)
EXTENDS TdoaTag, TLAPS

\* A positive rate divides into a number of ticks that is not negative, 0 when
\* the rate is above the tick rate.
LEMMA IntervalNatural ==
  ASSUME NEW r \in Int, r > 0
  PROVE  Interval(r) \in Nat
BY TpsAssumption, SMT DEF Interval

-----------------------------------------------------------------------------
\* The rate in use is one that was written, the callout and the flag of the
\* radio's settings keep their types: uwb_conf_commit ignores text it cannot read.
THEOREM TagTypeCorrect == TagSpec => []TagTypeOK
<1>1. TagInit => TagTypeOK
  BY RatesAssumption DEF TagInit, TagTypeOK
<1>2. TagTypeOK /\ [TagNext]_tagVars => TagTypeOK'
  <2> SUFFICES ASSUME TagTypeOK, [TagNext]_tagVars PROVE TagTypeOK'
    OBVIOUS
  <2>1. ASSUME NEW v \in Rates \cup {Garbage}, ConfSet(v) PROVE TagTypeOK'
    BY <2>1 DEF TagTypeOK, ConfSet
  <2>2. CASE ConfCommit
    <3>1. rate' \in Rates
      BY <2>2 DEF TagTypeOK, ConfCommit, Parsed
    <3>2. callout' \in {"idle", "ticking", "queued"}
      BY <2>2 DEF TagTypeOK, ConfCommit, StartBlinking, Reset
    <3> QED
      BY <2>2, <3>1, <3>2 DEF TagTypeOK, ConfCommit
  <2>3. CASE ConfigUpdated
    BY <2>3 DEF TagTypeOK, ConfigUpdated
  <2>4. CASE Expire
    BY <2>4 DEF TagTypeOK, Expire
  <2>5. CASE Blink
    BY <2>5 DEF TagTypeOK, Blink, ApplyConfig, Rearm
  <2>6. CASE UNCHANGED tagVars
    BY <2>6 DEF TagTypeOK, tagVars
  <2> QED
    BY <2>1, <2>2, <2>3, <2>4, <2>5, <2>6 DEF TagNext
<1> QED
  BY <1>1, <1>2, PTL DEF TagSpec

-----------------------------------------------------------------------------
\* Two facts that together are inductive: the types, and the property itself.
BlinkInv == TagTypeOK /\ BlinksWhenRatePositive

\* tdoa_timer_ev_cb and uwb_conf_commit between them never leave the callout
\* unarmed with a positive rate, as long as nobody writes a negative rate: then
\* the rate before a positive one is positive, and the callout is armed, or 0,
\* and the commit arms it.
THEOREM BlinksCorrect ==
  ASSUME Rates \subseteq Nat
  PROVE  TagSpec => []BlinksWhenRatePositive
<1>1. TagInit => BlinkInv
  BY RatesAssumption DEF TagInit, TagTypeOK, BlinkInv, BlinksWhenRatePositive
<1>2. BlinkInv /\ [TagNext]_tagVars => BlinksWhenRatePositive'
  <2> SUFFICES ASSUME BlinkInv, [TagNext]_tagVars, TagTypeOK, BlinksWhenRatePositive
               PROVE  BlinksWhenRatePositive'
    BY DEF BlinkInv
  <2>1. ASSUME NEW v \in Rates \cup {Garbage}, ConfSet(v)
        PROVE  BlinksWhenRatePositive'
    BY <2>1 DEF ConfSet, BlinksWhenRatePositive
  <2>2. CASE ConfCommit
    <3>1. rate \in Nat /\ rate' \in Nat
      BY <2>2 DEF TagTypeOK, ConfCommit, Parsed
    <3> SUFFICES ASSUME rate' > 0 PROVE callout' # "idle"
      BY DEF BlinksWhenRatePositive
    <3>2. CASE rate = 0
      <4>1. Interval(rate') \in Nat
        BY <3>1, IntervalNatural
      <4>2. ~(Interval(rate') < 0)
        BY <4>1
      <4> QED
        BY <2>2, <3>2, <4>2 DEF ConfCommit, StartBlinking, Reset
    <3>3. CASE rate # 0
      <4>1. rate > 0
        BY <3>1, <3>3
      <4> QED
        BY <2>2, <3>3, <4>1
           DEF ConfCommit, StartBlinking, BlinksWhenRatePositive
    <3> QED
      BY <3>2, <3>3
  <2>3. CASE ConfigUpdated
    BY <2>3 DEF ConfigUpdated, BlinksWhenRatePositive
  <2>4. CASE Expire
    BY <2>4 DEF Expire, BlinksWhenRatePositive
  <2>5. CASE Blink
    <3> SUFFICES ASSUME rate > 0 PROVE callout' # "idle"
      BY <2>5 DEF Blink, BlinksWhenRatePositive
    <3>1. rate \in Int
      BY DEF TagTypeOK
    <3>2. Interval(rate) \in Nat
      BY <3>1, IntervalNatural
    <3>3. ~(rate = 0 \/ Interval(rate) < 0)
      BY <3>1, <3>2
    <3> QED
      BY <2>5, <3>3 DEF Blink, Rearm
  <2>6. CASE UNCHANGED tagVars
    BY <2>6 DEF tagVars, BlinksWhenRatePositive
  <2> QED
    BY <2>1, <2>2, <2>3, <2>4, <2>5, <2>6 DEF TagNext
<1>3. TagSpec => []TagTypeOK
  BY TagTypeCorrect
<1> QED
  BY <1>1, <1>2, <1>3, PTL DEF TagSpec, BlinkInv
=============================================================================
