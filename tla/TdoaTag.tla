------------------------------ MODULE TdoaTag ------------------------------
(***************************************************************************)
(* The blinking tag, apps/tdoa_tag/src/main.c.  A callout sends a blink    *)
(* and arms itself again while the blink rate is not 0; a commit of the    *)
(* settings arms it when the rate was 0.  All of it runs in the default    *)
(* event queue, so handlers are atomic.                                    *)
(*                                                                         *)
(* New settings of the radio wait for the next blink.  The sleep of the    *)
(* radio between blinks and the contents of the frame are left out.        *)
(***************************************************************************)
EXTENDS Integers

CONSTANTS
  Rates,      \* blink rates that can be written (CONF_INT16)
  Tps,        \* DPL_TICKS_PER_SEC
  Garbage     \* text that is not a number in the range of int16_t

ASSUME RatesAssumption == Rates \subseteq Int /\ 1 \in Rates
ASSUME TpsAssumption == Tps \in Nat \ {0}
ASSUME GarbageAssumption == Garbage \notin Rates

VARIABLES
  text,       \* uwb_config.blink_rate
  rate,       \* g_blink_rate
  callout,    \* tdoa_callout: not armed, ticking, or its event queued
  changed,    \* config_changed
  applied     \* the radio has the latest settings

tagVars == <<text, rate, callout, changed, applied>>

TagTypeOK ==
  /\ text \in Rates \cup {Garbage}
  /\ rate \in Rates
  /\ callout \in {"idle", "ticking", "queued"}
  /\ changed \in BOOLEAN
  /\ applied \in BOOLEAN

\* dpl_callout_reset: a negative number of ticks is refused, and leaves the
\* callout as it is; 0 counts as 1.
Reset(ticks) == callout' = IF ticks < 0 THEN callout ELSE "ticking"

\* DPL_TICKS_PER_SEC / g_blink_rate, truncated towards 0.
Interval(r) == IF r > 0 THEN Tps \div r ELSE -(Tps \div (-r))

\* The syscfg value 1, and what init_timer makes of it.
TagInit ==
  /\ text = 1
  /\ rate = 1
  /\ callout = "ticking"
  /\ changed = FALSE
  /\ applied = TRUE

-----------------------------------------------------------------------------
\* uwb_conf_set stores the text.
ConfSet(v) ==
  /\ text' = v
  /\ UNCHANGED <<rate, callout, changed, applied>>

\* uwb_conf_commit takes over the rate and starts blinking if the tag did not
\* blink before.
StartBlinkingNever(old, new) == UNCHANGED callout
StartBlinking(old, new) ==
  IF new > 0 /\ old = 0 THEN Reset(Interval(new)) ELSE UNCHANGED callout

\* conf_value_from_str leaves the rate alone when it cannot read the text; what
\* it returns is not looked at.
ParsedAsError(old, t) == IF t = Garbage THEN -1 ELSE t
Parsed(old, t) == IF t = Garbage THEN old ELSE t

ConfCommit ==
  /\ rate' = Parsed(rate, text)
  /\ StartBlinking(rate, rate')
  /\ UNCHANGED <<text, changed, applied>>

\* uwb_config_updated: the radio's settings change.
ConfigUpdated ==
  /\ changed' = TRUE
  /\ applied' = FALSE
  /\ UNCHANGED <<text, rate, callout>>

\* The callout expires: its event is queued.
Expire ==
  /\ callout = "ticking"
  /\ callout' = "queued"
  /\ UNCHANGED <<text, rate, changed, applied>>

\* tdoa_timer_ev_cb starts with a callout that is not armed, since its event has
\* been taken off the queue, and arms it again unless the rate is 0.
RearmSlow == callout' = IF rate > 1 THEN "ticking" ELSE "idle"
Rearm ==
  callout' = IF rate = 0 \/ Interval(rate) < 0 THEN "idle" ELSE "ticking"

\* Settings that changed are applied, after the radio has been woken.
ApplyConfigForgotten == UNCHANGED changed /\ UNCHANGED applied
ApplyConfig == changed' = FALSE /\ applied' = (applied \/ changed)

\* tdoa_timer_ev_cb, whether the transmission can be started or not.
Blink ==
  /\ callout = "queued"
  /\ ApplyConfig
  /\ Rearm
  /\ UNCHANGED <<text, rate>>

TagNext ==
  \/ \E v \in Rates \cup {Garbage} : ConfSet(v)
  \/ ConfCommit
  \/ ConfigUpdated
  \/ Expire
  \/ Blink

TagSpec == TagInit /\ [][TagNext]_tagVars

\* Time passes and the main task runs.
TagFairness ==
  /\ WF_tagVars(Expire)
  /\ WF_tagVars(Blink)

-----------------------------------------------------------------------------
\* "Start blinking if we weren't before": whenever the rate is positive the
\* callout is armed, wherever between two blinks the commits came, also one that
\* set it to 0 and another that raised it again.  This is so among rates that are
\* not negative: after a negative one, whose interval the callout refuses, the old
\* rate is not 0 and the commit of a positive one arms nothing.
BlinksWhenRatePositive == rate > 0 => callout # "idle"

\* A tag whose rate stays positive goes on blinking, and settings of the radio
\* that change between two blinks get to the radio.
KeepsBlinking ==
  <>[](rate > 0) => ([]<>(callout = "queued") /\ []<>applied)
=============================================================================
