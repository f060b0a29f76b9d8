---------------------------- MODULE BackhaulRadio ----------------------------
(***************************************************************************)
(* rtdoa_backhaul_listen against the clock: a bridge that listens, with    *)
(* the receiver and its timestamp counter made explicit.                   *)
(*                                                                         *)
(* The radio is external to the repository.  What is assumed of it: its    *)
(* timestamps are the time modulo Wrap; a timeout of zero means none; it   *)
(* reports a frame Lag units after the time it stamps on it, no later than *)
(* the timeout; it then either starts to receive again with the timeout    *)
(* now programmed, or stays off; and it switches off at the timeout, of    *)
(* which the library, having no rx_timeout_cb, is not told.                *)
(***************************************************************************)
EXTENDS RtdoaBackhaul

CONSTANTS
  Wrap,       \* device time is modulo this (2^40)
  Lag,        \* from a timestamp to its callback: the rest of the frame, at least
  Restarts,   \* may the receiver start again after a frame?
  Timeouts,   \* timeout_uus arguments of rtdoa_backhaul_listen
  MaxTime     \* bound on the time explored

ASSUME WrapAssumption == /\ Wrap \in Nat \ {0}
                         /\ Wrap % (Tick * TimeoutMod) = 0
ASSUME RadioAssumption == /\ Lag \in Nat /\ Lag >= Tick
                          /\ Timeouts \subseteq 1 .. TimeoutMod - 1
                          /\ MaxTime \in Nat
                          /\ Restarts \subseteq BOOLEAN

VARIABLES
  now,        \* the time, not reduced modulo Wrap
  on,         \* the receiver is on
  begin,      \* when the receiver started, or will start, for this listen
  deadline,   \* when the listen in progress is over
  stop        \* when the receiver switches off; Forever if never

radio == <<now, on, begin, deadline, stop>>
Forever == 0

RadioInit ==
  /\ Init
  /\ now = 1
  /\ on = FALSE
  /\ begin = 0
  /\ deadline = 0
  /\ stop = Forever

\* A timeout value programmed at time t.
StopAt(t, timeout) == IF timeout = 0 THEN Forever ELSE t + timeout * Tick

TimePasses ==
  /\ now < MaxTime
  /\ on /\ stop # Forever => now < stop
  /\ now' = now + 1
  /\ UNCHANGED <<on, begin, deadline, stop>>
  /\ UNCHANGED vars

\* The slot task asks for a receive that starts one unit from now.
Arm(timeout) ==
  /\ ListenArm((now + 1) % Wrap, timeout)
  /\ begin' = now + 1
  /\ deadline' = now + 1 + timeout * Tick
  /\ UNCHANGED <<now, on, stop>>

\* uwb_start_rx fails when the start time has passed.
Start ==
  \/ /\ now <= begin
     /\ ListenStart(FALSE)
     /\ on' = TRUE
     /\ stop' = StopAt(begin, rxTo)
     /\ UNCHANGED <<now, begin, deadline>>
  \/ /\ now > begin
     /\ ListenStart(TRUE)
     /\ UNCHANGED radio

Receive(ts) ==
  \/ RxForeign(ts)
  \/ RxIgnored(ts)
  \/ \E p \in Peer, s \in 0 .. SeqMod - 1 :
       \/ RxDuplicate(p, s, ts)
       \/ RxNoMbuf(p, s, ts)
       \/ \E n \in RxLengths : RxQueued(p, s, n, ts)

Frame ==
  /\ on
  /\ pc["slot"] = "start" \/ now >= begin + Lag
  /\ Receive((now - Lag) % Wrap)
  /\ on' \in Restarts
  /\ stop' = IF on' THEN StopAt(now, rxTo') ELSE Forever
  /\ UNCHANGED <<now, begin, deadline>>

\* The frame wait timeout: no callback of the library.
Expire ==
  /\ on
  /\ stop # Forever
  /\ now >= stop
  /\ on' = FALSE
  /\ stop' = Forever
  /\ UNCHANGED <<now, begin, deadline>>
  /\ UNCHANGED vars

Quiet == UNCHANGED radio

\* The listen is over; the receiver may still be on.
Return ==
  /\ ListenReturn
  /\ begin' = 0
  /\ deadline' = 0
  /\ UNCHANGED <<now, on, stop>>

ListenStep ==
  \/ (ListenPend1 \/ ListenPend2 \/ ListenRelease) /\ Quiet
  \/ Return
  \/ \E timeout \in Timeouts : Arm(timeout)
  \/ Start

Bridge == SetRole("BRIDGE") /\ Quiet
BeginListen == ListenCall /\ Quiet
Drain == (DispatchRx \/ MqueueGet \/ ProcessPackage \/ DrainEnd) /\ Quiet

RadioNext ==
  \/ TimePasses \/ Frame \/ Expire
  \/ ListenStep \/ Drain \/ Bridge \/ BeginListen

RadioSpec == RadioInit /\ [][RadioNext]_<<vars, radio>>

-----------------------------------------------------------------------------
Listening == pc["slot"] \in {"pend2", "wait2"}
InWindow == stop # Forever /\ stop <= deadline + Lag

\* "When the current listen for backhaul expires": however often a frame
\* restarts the receiver, and also when the 40-bit device time wraps between
\* the start of the listen and the frame, the timeout rx_complete_cb programs
\* ends the receive no later than the listen's deadline (but for the Lag it
\* does not account for), or else is zero.
WindowKept ==
  [][(Listening /\ Listening' /\ on /\ on' /\ InWindow)
       => (InWindow \/ stop = Forever)']_<<vars, radio>>
=============================================================================
