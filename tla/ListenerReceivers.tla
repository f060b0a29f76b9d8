------------------------- MODULE ListenerReceivers -------------------------
(***************************************************************************)
(* The two receivers of the sniffer, apps/listener/src/main.c with         *)
(* N_DW_INSTANCES = 2: when they are switched off and on.  In builds with  *)
(* CIR_ENABLED a receiver stays off after a frame, so that its accumulator *)
(* can be read, until the application restarts both; in the others the MAC *)
(* restarts it at once.                                                    *)
(*                                                                         *)
(* A frame is heard by both receivers, by one or by none.  Each receiver's *)
(* callbacks run in a task of its own; the callout's and the settings'     *)
(* events in the main task.  Whoever restarts the receivers restarts them  *)
(* one after the other, and the rest goes on in between.  What becomes of  *)
(* the frames is the subject of Listener.                                  *)
(***************************************************************************)
EXTENDS Naturals

CONSTANT Builds     \* values of CIR_ENABLED
ASSUME BuildsAssumption == Builds \subseteq BOOLEAN

Receiver == {0, 1}
Main == 2                   \* the main task; the others are the receivers' own
Task == Receiver \cup {Main}

VARIABLES
  cir,        \* CIR_ENABLED
  on,         \* the receivers that are on
  limited,    \* those that have a timeout (0xffff) if they are on
  irq,        \* what each receiver has to report: a frame, a timeout
  callout,    \* rx_reenable_callout: not armed, ticking, or its event queued
  commit,     \* the event of uwb_config_updated is queued
  next,       \* the receiver that each task restarts next; 2 when it does none
  timeout     \* the timeout each task restarts them with: limited or not

vars == <<cir, on, limited, irq, callout, commit, next, timeout>>

\* main starts both without a timeout.
Init ==
  /\ cir \in Builds
  /\ on = Receiver
  /\ limited = {}
  /\ irq = [r \in Receiver |-> "none"]
  /\ callout = "idle"
  /\ commit = FALSE
  /\ next = [t \in Task |-> 2]
  /\ timeout = [t \in Task |-> FALSE]

-----------------------------------------------------------------------------
(***************************************************************************)
(* The hardware and the MAC (external).                                    *)
(***************************************************************************)

\* A frame is on the air.  Receivers that are not restarted are off now.
Frame(heard) ==
  /\ heard \subseteq {r \in on : irq[r] = "none"}
  /\ heard # {}
  /\ irq' = [r \in Receiver |-> IF r \in heard THEN "frame" ELSE irq[r]]
  /\ on' = IF cir THEN on \ heard ELSE on
  /\ UNCHANGED <<cir, limited, callout, commit, next, timeout>>

Timeout(r) ==
  /\ r \in on \cap limited
  /\ irq[r] = "none"
  /\ irq' = [irq EXCEPT ![r] = "timeout"]
  /\ on' = on \ {r}
  /\ UNCHANGED <<cir, limited, callout, commit, next, timeout>>

Expire ==
  /\ callout = "ticking"
  /\ callout' = "queued"
  /\ UNCHANGED <<cir, on, limited, irq, commit, next, timeout>>

-----------------------------------------------------------------------------
(***************************************************************************)
(* "Restart receivers"                                                     *)
(***************************************************************************)

Idle(t) == next[t] = 2

\* The loop begins, with a timeout or without.
RestartFrom(t, first, withTimeout) ==
  /\ next' = [next EXCEPT ![t] = first]
  /\ timeout' = [timeout EXCEPT ![t] = withTimeout]

RestartFirstOnly(t) ==
  /\ ~Idle(t)
  /\ on' = on \cup {0}
  /\ limited' = IF timeout[t] THEN limited \cup {0} ELSE limited \ {0}
  /\ next' = [next EXCEPT ![t] = 2]
  /\ UNCHANGED <<cir, irq, callout, commit, timeout>>
\* uwb_set_rx_timeout and uwb_start_rx for one of them
Restart(t) ==
  /\ ~Idle(t)
  /\ on' = on \cup {next[t]}
  /\ limited' = IF timeout[t] THEN limited \cup {next[t]}
                              ELSE limited \ {next[t]}
  /\ next' = [next EXCEPT ![t] = @ + 1]
  /\ UNCHANGED <<cir, irq, callout, commit, timeout>>

-----------------------------------------------------------------------------
(***************************************************************************)
(* The callbacks of the MAC.                                               *)
(***************************************************************************)

Take(r, what) ==
  /\ Idle(r)
  /\ irq[r] = what
  /\ irq' = [irq EXCEPT ![r] = "none"]

\* rx_complete_cb of the first receiver leaves the frame to the other one, and
\* sees to it that it is restarted if the other one misses the frame.
RxCompleteFirstForgets ==
  /\ Take(0, "frame")
  /\ UNCHANGED <<cir, on, limited, callout, commit, next, timeout>>
RxCompleteFirst ==
  /\ Take(0, "frame")
  /\ callout' = IF cir THEN "ticking" ELSE callout
  /\ UNCHANGED <<cir, on, limited, commit, next, timeout>>

\* That of the second: the callout is stopped and both receivers restarted,
\* before their buffers are compared.
RxCompleteLastComparesFirst ==
  /\ Take(1, "frame")
  /\ IF cir THEN /\ callout' = "idle"
                 /\ \E same \in BOOLEAN : RestartFrom(1, IF same THEN 0 ELSE 2, TRUE)
            ELSE UNCHANGED <<callout, next, timeout>>
  /\ UNCHANGED <<cir, on, limited, commit>>
RxCompleteLast ==
  /\ Take(1, "frame")
  /\ IF cir THEN callout' = "idle" /\ RestartFrom(1, 0, TRUE)
            ELSE UNCHANGED <<callout, next, timeout>>
  /\ UNCHANGED <<cir, on, limited, commit>>

\* timeout_cb of either receiver restarts both.
TimeoutCb(r) ==
  /\ Take(r, "timeout")
  /\ RestartFrom(r, 0, FALSE)
  /\ UNCHANGED <<cir, on, limited, callout, commit>>

-----------------------------------------------------------------------------
(***************************************************************************)
(* The main task.                                                          *)
(***************************************************************************)

\* rx_reenable_ev_cb
RxReenable ==
  /\ Idle(Main)
  /\ callout = "queued"
  /\ callout' = "idle"
  /\ RestartFrom(Main, 0, FALSE)
  /\ UNCHANGED <<cir, on, limited, irq, commit>>

\* uwb_config_updated queues uwb_config_update, which programs and restarts one
\* receiver after the other.
Commit ==
  /\ ~commit
  /\ commit' = TRUE
  /\ UNCHANGED <<cir, on, limited, irq, callout, next, timeout>>

ConfigUpdate ==
  /\ Idle(Main)
  /\ commit
  /\ commit' = FALSE
  /\ RestartFrom(Main, 0, FALSE)
  /\ UNCHANGED <<cir, on, limited, irq, callout>>

-----------------------------------------------------------------------------
Callback(r) ==
  Restart(r) \/ TimeoutCb(r)
    \/ (r = 0 /\ RxCompleteFirst) \/ (r = 1 /\ RxCompleteLast)

Next ==
  \/ \E heard \in SUBSET Receiver : Frame(heard)
  \/ \E r \in Receiver : Timeout(r) \/ Callback(r)
  \/ Expire \/ Restart(Main) \/ RxReenable \/ Commit \/ ConfigUpdate

Spec == Init /\ [][Next]_vars

\* Interrupts are served and the callout expires.  The main task's events are
\* taken in their order: neither starves the other.
FairSpec ==
  /\ Spec
  /\ \A r \in Receiver : WF_vars(Callback(r))
  /\ WF_vars(Expire)
  /\ WF_vars(Restart(Main))
  /\ SF_vars(RxReenable)
  /\ SF_vars(ConfigUpdate)

-----------------------------------------------------------------------------
\* A receiver that is off is about to be restarted: it has something to report
\* that leads to it, the other one has, somebody restarts it now, or the callout
\* is armed.  The stop of the callout takes the last hope from nobody.
RestartComes ==
  \A r \in Receiver \ on :
    \/ irq[r] # "none" \/ irq[1] = "frame" \/ irq[1 - r] = "timeout"
    \/ \E t \in Task : next[t] <= r
    \/ callout # "idle"

\* A receiver is on again and again, whatever the other one misses.
ReceiversComeBack == \A r \in Receiver : []<>(r \in on)
=============================================================================
