---------------------------- MODULE RadioConfig ----------------------------
(***************************************************************************)
(* How the TDMA applications change the settings of the radio.             *)
(*                                                                         *)
(* "config commit" writes udev->config in the main task and then calls the *)
(* application's uc_update callback.  The callback applies the settings at *)
(* once when the clock synchronisation (CCP) holds its semaphore, because  *)
(* CCP may be waiting for a frame it cannot hear with the settings in the  *)
(* radio, and leaves a flag for the next slot callback otherwise.          *)
(*                                                                         *)
(* The applications do so in different ways.  An application is a record:  *)
(*   when  : what makes uc_update apply the settings at once               *)
(*   looks : whether a slot callback asks CCP first, last or never         *)
(*   main  : the calls of uc_update, in their order                        *)
(*   slot  : the calls of a slot callback that finds the flag set          *)
(* A call is named for its effect (see Program and its successors); the    *)
(* main task and the slot task interleave between them.  The boards with a *)
(* second receiver program it right after the first; one stands for both.  *)
(***************************************************************************)
EXTENDS Integers

TwrNrangesNoTxrf ==
  [when  |-> "waiting",
   looks |-> "first",
   main  |-> [start |-> "off", off |-> "mac", mac |-> "txrf", txrf |-> "on",
              on |-> "idle"],
   slot  |-> [start |-> "clear", clear |-> "off", off |-> "mac",
              mac |-> "idle"]]
\* uc_update applies at once when CCP holds its semaphore.  The slot callback
\* clears the flag, then applies.
TwrNranges ==
  [when  |-> "waiting",
   looks |-> "first",
   main  |-> [start |-> "off", off |-> "mac", mac |-> "txrf", txrf |-> "on",
              on |-> "idle"],
   slot  |-> [start |-> "clear", clear |-> "off", off |-> "mac",
              mac |-> "txrf", txrf |-> "idle"]]

\* The flag is cleared after the settings have been applied, and automatic
\* acknowledgement is set up.
TwrNode ==
  [when  |-> "waiting",
   looks |-> "first",
   main  |-> [start |-> "off", off |-> "mac", mac |-> "txrf",
              txrf |-> "autoack", autoack |-> "on", on |-> "idle"],
   slot  |-> [start |-> "mac", mac |-> "txrf", txrf |-> "clear",
              clear |-> "autoack", autoack |-> "reset", reset |-> "idle"]]

StreamingNoClear ==
  [when  |-> "waiting",
   looks |-> "first",
   main  |-> [start |-> "off", off |-> "mac", mac |-> "txrf", txrf |-> "on",
              on |-> "idle"],
   slot  |-> [start |-> "mac", mac |-> "txrf", txrf |-> "idle"]]
Streaming ==
  [when  |-> "waiting",
   looks |-> "first",
   main  |-> [start |-> "off", off |-> "mac", mac |-> "txrf", txrf |-> "on",
              on |-> "idle"],
   slot  |-> [start |-> "mac", mac |-> "txrf", txrf |-> "clear",
              clear |-> "idle"]]

\* uc_update also applies at once while CCP is out of sync, and restarts the
\* receiver only if CCP holds its semaphore by then.
RtdoaNode ==
  [when  |-> "unsynced",
   looks |-> "first",
   main  |-> [start |-> "mac", mac |-> "txrf", txrf |-> "onIfWaiting",
              onIfWaiting |-> "idle"],
   slot  |-> [start |-> "mac", mac |-> "txrf", txrf |-> "clear",
              clear |-> "idle"]]

\* As the node, but nmgr_slot_timer_cb applies before it looks at CCP.
RtdoaTag ==
  [when  |-> "unsynced",
   looks |-> "last",
   main  |-> [start |-> "mac", mac |-> "txrf", txrf |-> "onIfWaiting",
              onIfWaiting |-> "idle"],
   slot  |-> [start |-> "mac", mac |-> "txrf", txrf |-> "clear",
              clear |-> "look"]]

\* uc_update applies at once; there is no flag, and no look at CCP.
TwrTag ==
  [when  |-> "always",
   looks |-> "never",
   main  |-> [start |-> "mac", mac |-> "txrf", txrf |-> "idle"],
   slot  |-> [start |-> "idle"]]

Applications == {TwrNranges, TwrNode, Streaming, RtdoaNode, RtdoaTag, TwrTag}

CONSTANTS
  Config,     \* settings
  Boot,       \* those loaded from flash at boot
  Apps,       \* the applications considered
  Deafness    \* TRUE: CCP hears nothing with settings the network has not

NoTimeout == "none"     \* timeout = 0 in slot_cb of twr_node_tdma

ASSUME BootAssumption == Boot \in Config
ASSUME AppsAssumption == Apps \subseteq Applications
ASSUME DeafnessAssumption == Deafness \subseteq BOOLEAN
ASSUME TimeoutAssumption == NoTimeout \notin Config

VARIABLES
  app,        \* the application of this node
  deaf,       \* whether CCP needs the settings of the network
  config,     \* udev->config
  radio,      \* what the radio has been programmed with
  updated,    \* uwb_config_updated
  timeout,    \* the settings the timeout of slot_cb was calculated for
  ccp,        \* dpl_sem_get_count(&ccp->sem) == 0
  valid,      \* ccp->status.valid
  rx,         \* the receiver is on for the frame that CCP waits for
  net,        \* the settings of the other nodes
  at          \* where the main task and the slot task are

Task == {"main", "slot"}
Part == {"mac", "txrf", "autoack"} \cap DOMAIN app.main
fixed == <<app, deaf>>
ccpVars == <<ccp, valid, net>>
vars == <<fixed, config, radio, updated, timeout, ccpVars, rx, at>>

Steps == {"mac", "txrf", "autoack", "off", "on", "onIfWaiting", "clear",
          "reset", "look"}

TypeOK ==
  /\ app \in Apps /\ deaf \in Deafness
  /\ config \in Config /\ net \in Config
  /\ radio \in [Part -> Config]
  /\ updated \in BOOLEAN /\ ccp \in BOOLEAN /\ valid \in BOOLEAN
  /\ rx \in BOOLEAN
  /\ timeout \in Config \cup {NoTimeout}
  /\ at \in [Task -> Steps \cup {"idle", "call", "exchange"}]
  /\ at["main"] \in {"idle", "call"} \cup DOMAIN app.main
  /\ at["slot"] \in {"idle", "look", "exchange"} \cup DOMAIN app.slot

\* Settings are loaded from flash before the services start.
Init ==
  /\ app \in Apps /\ deaf \in Deafness
  /\ config = Boot
  /\ radio = [p \in Part |-> Boot]
  /\ updated = FALSE
  /\ timeout = NoTimeout
  /\ ccp = FALSE /\ valid = FALSE /\ rx = FALSE
  /\ net \in Config
  /\ at = [t \in Task |-> "idle"]

-----------------------------------------------------------------------------
(***************************************************************************)
(* The calls that apply settings, in either task.                          *)
(***************************************************************************)

At(t, step) == at[t] = step
Goto(t, step) == at' = [at EXCEPT ![t] = step]
After(t, step) == IF t = "main" THEN app.main[step] ELSE app.slot[step]
Advance(t) == Goto(t, After(t, at[t]))

\* uwb_mac_config, uwb_txrf_config and uwb_set_autoack each copy a part of
\* udev->config, as it is at this moment.
ProgramWhole(t) ==
  /\ at[t] \in Part
  /\ radio' = config
  /\ Advance(t)
  /\ UNCHANGED <<fixed, config, updated, timeout, ccpVars, rx>>
Program(t) ==
  /\ at[t] \in Part
  /\ radio' = [radio EXCEPT ![at[t]] = config]
  /\ Advance(t)
  /\ UNCHANGED <<fixed, config, updated, timeout, ccpVars, rx>>

\* uwb_phy_forcetrxoff
ReceiverOff(t) ==
  /\ At(t, "off")
  /\ rx' = FALSE
  /\ Advance(t)
  /\ UNCHANGED <<fixed, config, radio, updated, timeout, ccpVars>>

\* uwb_start_rx
ReceiverForgotten(t) ==
  /\ At(t, "on") \/ At(t, "onIfWaiting")
  /\ Advance(t)
  /\ UNCHANGED <<fixed, config, radio, updated, timeout, ccpVars, rx>>
ReceiverOn(t) ==
  /\ At(t, "on") \/ At(t, "onIfWaiting")
  /\ rx' = (rx \/ At(t, "on") \/ ccp)
  /\ Advance(t)
  /\ UNCHANGED <<fixed, config, radio, updated, timeout, ccpVars>>

\* uwb_config_updated = false
ClearFlag(t) ==
  /\ At(t, "clear")
  /\ updated' = FALSE
  /\ Advance(t)
  /\ UNCHANGED <<fixed, config, radio, timeout, ccpVars, rx>>

\* timeout = 0
KeepTimeout(t) ==
  /\ At(t, "reset")
  /\ Advance(t)
  /\ UNCHANGED <<fixed, config, radio, updated, timeout, ccpVars, rx>>
ResetTimeout(t) ==
  /\ At(t, "reset")
  /\ timeout' = NoTimeout
  /\ Advance(t)
  /\ UNCHANGED <<fixed, config, radio, updated, ccpVars, rx>>

Apply(t) == Program(t) \/ ReceiverOff(t) \/ ReceiverOn(t) \/ ClearFlag(t)
              \/ ResetTimeout(t)

-----------------------------------------------------------------------------
(***************************************************************************)
(* The main task.                                                          *)
(***************************************************************************)

\* uwbcfg stores new settings and is about to call uc_update.
Commit(c) ==
  /\ At("main", "idle")
  /\ config' = c
  /\ Goto("main", "call")
  /\ UNCHANGED <<fixed, radio, updated, timeout, ccpVars, rx>>

\* The condition of the workaround.
AtOnce == \/ app.when = "always"
          \/ ccp
          \/ app.when = "unsynced" /\ ~valid

UpdateNow ==
  /\ At("main", "call")
  /\ AtOnce
  /\ Goto("main", app.main["start"])
  /\ UNCHANGED <<fixed, config, radio, updated, timeout, ccpVars, rx>>

UpdateLaterForgotten ==
  /\ At("main", "call")
  /\ ~AtOnce
  /\ Goto("main", "idle")
  /\ UNCHANGED <<fixed, config, radio, updated, timeout, ccpVars, rx>>
UpdateLater ==
  /\ At("main", "call")
  /\ ~AtOnce
  /\ updated' = TRUE
  /\ Goto("main", "idle")
  /\ UNCHANGED <<fixed, config, radio, timeout, ccpVars, rx>>

MainStep == UpdateNow \/ UpdateLater \/ Apply("main")

-----------------------------------------------------------------------------
(***************************************************************************)
(* The slot task.  What a slot is used for otherwise, newtmgr, ranging or  *)
(* a stream, is one exchange here.                                         *)
(***************************************************************************)

\* A slot callback that handles the flag finds it set.
SlotUpdate ==
  /\ At("slot", "idle")
  /\ updated
  /\ app.looks = "first" => ~ccp
  /\ Goto("slot", app.slot["start"])
  /\ UNCHANGED <<fixed, config, radio, updated, timeout, ccpVars, rx>>

\* rtdoa_tag looks at CCP after the update and goes on with its slot.
SlotLook ==
  /\ At("slot", "look")
  /\ Goto("slot", IF ccp THEN "idle" ELSE "exchange")
  /\ UNCHANGED <<fixed, config, radio, updated, timeout, ccpVars, rx>>

\* "Only recalculate timeout if needed" (twr_node_tdma).
Recalculated == IF app = TwrNode /\ timeout = NoTimeout THEN radio["mac"]
                                                        ELSE timeout

\* Other slots than those that handle the flag do not look at it; those of
\* twr_nranges_tdma and twr_node_tdma all handle it.
SlotExchange ==
  /\ At("slot", "idle")
  /\ app.looks # "never" => ~ccp
  /\ app \in {TwrNranges, TwrNode} => ~updated
  /\ timeout' = Recalculated
  /\ Goto("slot", "exchange")
  /\ UNCHANGED <<fixed, config, radio, updated, ccpVars, rx>>

ExchangeDone ==
  /\ At("slot", "exchange")
  /\ Goto("slot", "idle")
  /\ UNCHANGED <<fixed, config, radio, updated, timeout, ccpVars, rx>>

SlotRest == Apply("slot") \/ SlotLook \/ ExchangeDone

-----------------------------------------------------------------------------
(***************************************************************************)
(* Clock synchronisation and the rest of the network (external).           *)
(***************************************************************************)

\* CCP takes its semaphore and turns the receiver on.
CcpBegin ==
  /\ ~ccp
  /\ ccp' = TRUE
  /\ rx' = TRUE
  /\ UNCHANGED <<fixed, config, radio, updated, timeout, valid, net, at>>

\* A frame is received, or the receiver's timeout ends the wait.  A receiver
\* that has been switched off does neither.
CcpEnd ==
  /\ ccp
  /\ rx
  /\ deaf => radio["mac"] = net
  /\ ccp' = FALSE
  /\ rx' = FALSE
  /\ valid' \in (IF radio["mac"] = net THEN BOOLEAN ELSE {FALSE})
  /\ UNCHANGED <<fixed, config, radio, updated, timeout, net, at>>

\* The other nodes change their settings.
NetChange(c) ==
  /\ net' = c
  /\ UNCHANGED <<fixed, config, radio, updated, timeout, ccp, valid, rx, at>>

Environment ==
  CcpBegin \/ \E c \in Config : NetChange(c) \/ Commit(c)

-----------------------------------------------------------------------------
Next == MainStep \/ SlotUpdate \/ SlotExchange \/ SlotRest \/ CcpEnd
          \/ Environment

Spec == Init /\ [][Next]_vars

\* Both tasks go on.  CCP's waits end: an operator's commits, each of which may
\* turn the receiver off and on, are rare against them.  A callback that handles
\* the flag runs again and again: slots of this kind recur in every frame of
\* TDMA_NSLOTS slots, only one of which is CCP's.
FairSpec ==
  /\ Spec
  /\ WF_vars(MainStep)
  /\ WF_vars(SlotRest)
  /\ SF_vars(CcpEnd)
  /\ SF_vars(SlotUpdate)

-----------------------------------------------------------------------------
(***************************************************************************)
(* Properties                                                              *)
(***************************************************************************)

ClearsFirst == app.slot["start"] \in {"clear", "idle"}
Active == \A p \in Part : radio[p] = config

\* Nobody is busy with an update, and none is flagged.
Quiet ==
  /\ ~updated
  /\ At("main", "idle")
  /\ at["slot"] \in {"idle", "look", "exchange"}

\* "config commit: make this change active" (README.md of twr_node_tdma): with no
\* update left to be made, the radio has the settings committed last.
CommitMakesActive == Quiet => Active

\* An application that clears the flag before it applies the settings, or has
\* none, keeps the promise: a commit at any moment of the slot callback is not
\* forgotten.
EveryUpdateApplied == ClearsFirst => CommitMakesActive

\* The timeout of twr_node_tdma is calculated "only if needed".  It goes stale
\* in one way only: the main task's workaround puts new settings in the radio.
\* When the slot task does, it ends by resetting the timeout.
Fresh == timeout \in {NoTimeout, radio["mac"]} \/ at["slot"] \in Steps
StaleOnlyByWorkaround ==
  [][Fresh /\ ~Fresh' => At("main", "mac")]_vars

\* An update never leaves CCP waiting for a frame with the receiver off: a
\* uc_update that turned it off turns it on again, also when CCP started to
\* wait in between.  The slot callback of twr_nranges_tdma can: it turns the
\* receiver off after it has looked at CCP.
WaitingHears ==
  (ccp /\ app # TwrNranges) => (rx \/ at["main"] \in Steps)

NeverForgets == app.when = "always" \/ (ClearsFirst /\ ~deaf)
\* Settings that stay committed become those of the radio, in the applications that
\* forget none (EveryUpdateApplied) and where CCP ends its waits; twr_tag_tdma needs
\* neither.
EventuallyActive ==
  \A c \in Config :
    (config = c /\ NeverForgets) ~> (config # c \/ Active)

HandlesFlag ==
  \/ app.looks = "last"
  \/ ~deaf /\ app # TwrNranges
\* A flagged update is dealt with; where the slot callback applies it before it
\* looks at CCP, even when CCP waits for a frame that cannot be heard.
FlagServed ==
  (updated /\ HandlesFlag) ~> ~updated

\* The workaround's purpose, "in case we're stuck waiting for ccp with the
\* wrong radio settings": a node that has been given the settings of its
\* network gets to use them.
NeverStuck ==
  \A c \in Config : (config = c /\ net = c) ~> (config # c \/ net # c \/ Active)
=============================================================================
