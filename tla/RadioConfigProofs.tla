------------------------- MODULE RadioConfigProofs -------------------------
(***************************************************************************)
(* Proof, for any settings and any interleaving of the two tasks and of    *)
(* CCP, that an application which clears the flag before it applies the    *)
(* settings forgets no update, by which single step the others forget     *)
(* one, that the timeout of twr_node_tdma goes stale in a single way, and that  *)
(* uc_update leaves no CCP waiting with the receiver off.                  *)
(***************************************************************************)
EXTENDS RadioConfig, TLAPS

\* Each call is followed by another of the same callback, or is its last.
Graphs(a) ==
  /\ "start" \in DOMAIN a.main /\ "start" \in DOMAIN a.slot
  /\ \A s \in DOMAIN a.main :
       /\ s \in Steps \cup {"start"}
       /\ a.main[s] \in Steps \cup {"idle"}
       /\ a.main[s] \in DOMAIN a.main \cup {"idle"}
  /\ \A s \in DOMAIN a.slot :
       /\ s \in Steps \cup {"start"}
       /\ a.slot[s] \in Steps \cup {"idle"}
       /\ a.slot[s] \in DOMAIN a.slot \cup {"idle", "look"}
LEMMA GraphsClosed == \A a \in Applications : Graphs(a)
<1> USE DEF Graphs, Steps
<1>1. Graphs(TwrNranges)
  BY SMT DEF TwrNranges
<1>2. Graphs(TwrNode)
  BY SMT DEF TwrNode
<1>3. Graphs(Streaming)
  BY DEF Streaming
<1>4. Graphs(RtdoaNode)
  BY DEF RtdoaNode
<1>5. Graphs(RtdoaTag)
  BY DEF RtdoaTag
<1>6. Graphs(TwrTag)
  BY DEF TwrTag
<1> HIDE DEF Graphs, Steps
<1> QED
  BY <1>1, <1>2, <1>3, <1>4, <1>5, <1>6 DEF Applications

\* The calls of either task that have part p still to be programmed.
Before(p) == CASE p = "mac" -> {"off", "mac"}
               [] p = "txrf" -> {"off", "mac", "txrf"}
               [] OTHER -> {"off", "mac", "txrf", "clear", "autoack"}

\* What is to be programmed stays ahead of a task until it is programmed, and
\* all of it is ahead of a slot callback that clears the flag first; and
\* uc_update ends with the receiver on if it turned it off.
Paths(a) ==
  /\ "off" \in DOMAIN a.main =>
       \A s \in DOMAIN a.main : a.main[s] = "idle" => s = "on"
  /\ a # TwrNranges => "off" \notin DOMAIN a.slot
  /\ "clear" \notin DOMAIN a.main
  /\ \A p \in {"mac", "txrf", "autoack"} \cap DOMAIN a.main :
       /\ a.main["start"] \in Before(p)
       /\ \A s \in DOMAIN a.main \cap Before(p) :
            s = p \/ a.main[s] \in Before(p)
       /\ \A s \in DOMAIN a.slot \cap Before(p) :
            s = p \/ a.slot[s] \in Before(p)
       /\ a.slot["start"] \in {"clear", "idle"} /\ "clear" \in DOMAIN a.slot
            => a.slot["clear"] \in Before(p)
LEMMA PathsComplete == \A a \in Applications : Paths(a)
<1> USE DEF Paths, Before
<1>1. Paths(TwrNranges)
  BY DEF TwrNranges
<1>2. Paths(TwrNode)
  BY DEF TwrNode
<1>3. Paths(Streaming)
  BY DEF Streaming
<1>4. Paths(RtdoaNode)
  BY DEF RtdoaNode
<1>5. Paths(RtdoaTag)
  BY DEF RtdoaTag
<1>6. Paths(TwrTag)
  BY DEF TwrTag
<1> QED
  BY <1>1, <1>2, <1>3, <1>4, <1>5, <1>6 DEF Applications

-----------------------------------------------------------------------------
\* The settings committed are in part p of the radio, or on their way to it: the
\* flag is set, or a task is about to program the part.
Way(p) ==
  \/ radio[p] = config
  \/ updated
  \/ at["main"] \in {"call"} \cup Before(p)
  \/ at["slot"] \in Before(p)
OnItsWay == \A p \in Part : Way(p)

\* The part of the argument about updates: what differs from the settings
\* committed is flagged or ahead of a task.
Pending == ClearsFirst => OnItsWay

\* The part about the receiver: uc_update has yet to turn it on.
Restarts ==
  (ccp /\ app # TwrNranges) =>
    \/ rx
    \/ ("off" \in DOMAIN app.main /\ at["main"] \in DOMAIN app.main)

IInv == TypeOK /\ Pending /\ Restarts

\* At boot the radio has the settings loaded from flash.
LEMMA InitIInv == Init => IInv
  BY BootAssumption DEF Init, IInv, TypeOK, Pending, Restarts, OnItsWay,
     Way, Task, Part, ClearsFirst

\* The records of the applications considered.
LEMMA AppFacts == TypeOK => app \in Applications /\ Graphs(app) /\ Paths(app)
  BY AppsAssumption, GraphsClosed, PathsComplete DEF TypeOK

LEMMA NextTypeOK == TypeOK /\ [Next]_vars => TypeOK'
<1> SUFFICES ASSUME TypeOK, [Next]_vars
             PROVE  TypeOK'
  OBVIOUS
<1> USE AppFacts DEF TypeOK, Task, At, Goto, fixed, ccpVars
<1>1. ASSUME NEW t \in Task, Apply(t)
      PROVE  TypeOK'
  <2>1. app' = app /\ deaf' = deaf /\ config' = config /\ net' = net
          /\ ccp' = ccp /\ valid' = valid /\ Part' = Part
    BY <1>1 DEF Apply, Program, ReceiverOff, ReceiverOn, ClearFlag,
                ResetTimeout, Part
  <2>2. at[t] \in Steps /\ at' = [at EXCEPT ![t] = After(t, at[t])]
    BY <1>1 DEF Apply, Program, ReceiverOff, ReceiverOn, ClearFlag,
                ResetTimeout, Advance, Part, Steps
  <2>3. at[t] # "look" => /\ at' \in [Task -> Steps \cup {"idle", "call", "exchange"}]
                          /\ at'["main"] \in {"idle", "call"} \cup DOMAIN app.main
                          /\ at'["slot"] \in {"idle", "look", "exchange"} \cup DOMAIN app.slot
    BY <2>2 DEF After, Graphs, Steps
  <2>4. at[t] # "look"
    BY <1>1 DEF Apply, Program, ReceiverOff, ReceiverOn, ClearFlag,
                ResetTimeout, Part
  <2>5. radio' \in [Part -> Config]
    BY <1>1 DEF Apply, Program, ReceiverOff, ReceiverOn, ClearFlag,
                ResetTimeout
  <2>6. updated' \in BOOLEAN /\ rx' \in BOOLEAN
          /\ timeout' \in Config \cup {NoTimeout}
    BY <1>1 DEF Apply, Program, ReceiverOff, ReceiverOn, ClearFlag,
                ResetTimeout
  <2> QED
    BY <2>1, <2>3, <2>4, <2>5, <2>6
<1>2. CASE MainStep
  <2>1. CASE UpdateNow
    BY <2>1 DEF UpdateNow, Part, Graphs
  <2>2. CASE UpdateLater
    BY <2>2 DEF UpdateLater, Part
  <2>3. CASE Apply("main")
    BY <1>1, <2>3
  <2> QED
    BY <1>2, <2>1, <2>2, <2>3 DEF MainStep
<1>3. CASE SlotUpdate
  BY <1>3 DEF SlotUpdate, Part, Graphs
<1>4. CASE SlotExchange
  BY <1>4 DEF SlotExchange, Recalculated, Part, TwrNode, Applications
<1>5. CASE SlotRest
  BY <1>1, <1>5 DEF SlotRest, SlotLook, ExchangeDone, Part
<1>6. CASE CcpEnd
  BY <1>6 DEF CcpEnd, Part
<1>7. CASE Environment
  BY <1>7 DEF Environment, CcpBegin, NetChange, Commit, Part
<1>8. CASE UNCHANGED vars
  BY <1>8 DEF vars, Part
<1> QED
  BY <1>2, <1>3, <1>4, <1>5, <1>6, <1>7, <1>8 DEF Next

-----------------------------------------------------------------------------
\* No step takes a part of an update off its way but the one that clears the
\* flag while it is set.
LEMMA WayKept ==
  ASSUME TypeOK, [Next]_vars, ~(ClearFlag("slot") /\ updated), NEW p \in Part, Way(p)
  PROVE  Way(p)'
<1> USE AppFacts DEF Task, At, Goto, fixed, ccpVars, Way
<1>4. /\ "call" \notin Before(p) /\ "idle" \notin Before(p)
      /\ "look" \notin Before(p) /\ "exchange" \notin Before(p)
      /\ p \in {"mac", "txrf", "autoack"} \cap DOMAIN app.main
      /\ app.main["start"] \in Before(p)
  BY DEF Before, Part, Paths
<1>5. \A s \in DOMAIN app.main \cap Before(p) :
        s = p \/ app.main[s] \in Before(p)
  BY <1>4 DEF Paths
<1>6. \A s \in DOMAIN app.slot \cap Before(p) :
        s = p \/ app.slot[s] \in Before(p)
  BY <1>4 DEF Paths
<1>7. at["main"] \in {"idle", "call"} \cup DOMAIN app.main
        /\ at["slot"] \in {"idle", "look", "exchange"} \cup DOMAIN app.slot
        /\ at \in [Task -> Steps \cup {"idle", "call", "exchange"}]
        /\ radio \in [Part -> Config]
  BY DEF TypeOK
<1>8. ASSUME NEW t \in Task, Apply(t)
      PROVE  Way(p)'
  <2>1. config' = config /\ at' = [at EXCEPT ![t] = After(t, at[t])]
    BY <1>8 DEF Apply, Program, ReceiverOff, ReceiverOn, ClearFlag,
                ResetTimeout, Advance
  <2>2. CASE Program(t)
    <3>1. /\ at[t] \in Part /\ updated' = updated
          /\ radio' = [radio EXCEPT ![at[t]] = config]
      BY <2>2 DEF Program
    <3>2. CASE at[t] = p
      BY <3>1, <3>2, <2>1, <1>7
    <3>3. CASE at[t] # p
      <4>1. radio'[p] = radio[p]
        BY <3>1, <3>3, <1>7
      <4>2. at[t] \notin {"idle", "call", "look", "exchange"}
        BY <3>1 DEF Part
      <4>3. CASE t = "main"
        BY <4>1, <4>2, <4>3, <3>1, <3>3, <2>1, <1>5, <1>7 DEF After
      <4>4. CASE t = "slot"
        BY <4>1, <4>2, <4>4, <3>1, <3>3, <2>1, <1>6, <1>7 DEF After
      <4> QED
        BY <4>3, <4>4
    <3> QED
      BY <3>2, <3>3
  <2>3. CASE ClearFlag(t) \/ ReceiverOff(t) \/ ReceiverOn(t) \/ ResetTimeout(t)
    <3>1. radio' = radio /\ at[t] # p
            /\ at[t] \notin {"idle", "call", "look", "exchange"}
      BY <2>3, <1>4 DEF ClearFlag, ReceiverOff, ReceiverOn, ResetTimeout
    <3>2. updated => updated'
      BY <2>3, <1>7 DEF ClearFlag, ReceiverOff, ReceiverOn, ResetTimeout, Paths
    <3> QED
      BY <3>1, <3>2, <2>1, <1>4, <1>5, <1>6, <1>7 DEF After
  <2> QED
    BY <1>8, <2>2, <2>3 DEF Apply
<1>9. CASE MainStep
  <2>1. CASE UpdateNow
    BY <2>1, <1>4, <1>7 DEF UpdateNow
  <2>2. CASE UpdateLater
    BY <2>2 DEF UpdateLater
  <2> QED
    BY <1>8, <1>9, <2>1, <2>2 DEF MainStep
<1>10. CASE SlotUpdate
  BY <1>10 DEF SlotUpdate
<1>11. CASE SlotExchange
  BY <1>11, <1>4, <1>7 DEF SlotExchange
<1>12. CASE SlotRest
  <2>1. CASE SlotLook \/ ExchangeDone
    BY <2>1, <1>4, <1>7 DEF SlotLook, ExchangeDone
  <2> QED
    BY <1>8, <1>12, <2>1 DEF SlotRest
<1>13. CASE CcpEnd
  BY <1>13 DEF CcpEnd
<1>14. CASE Environment
  <2>1. CASE \E c \in Config : Commit(c)
    BY <2>1, <1>7 DEF Commit
  <2>2. CASE CcpBegin \/ \E c \in Config : NetChange(c)
    BY <2>2 DEF CcpBegin, NetChange
  <2> QED
    BY <1>14, <2>1, <2>2 DEF Environment
<1>15. CASE UNCHANGED vars
  BY <1>15 DEF vars
<1> QED
  BY <1>9, <1>10, <1>11, <1>12, <1>13, <1>14, <1>15 DEF Next

\* A node stays the application it is.
LEMMA AppKept == [Next]_vars => UNCHANGED app
BY DEF Next, vars, MainStep, UpdateNow, UpdateLater, SlotUpdate,
       SlotExchange, SlotRest, SlotLook, ExchangeDone, CcpEnd, Environment,
       CcpBegin, NetChange, Commit, Apply, Program, ReceiverOff, ReceiverOn,
       ClearFlag, ResetTimeout, fixed

\* Where the flag is cleared first, clearing it leaves every part ahead.
LEMMA NextPending == IInv /\ [Next]_vars => Pending'
<1> SUFFICES ASSUME IInv, [Next]_vars, ClearsFirst'
             PROVE  OnItsWay'
  BY DEF Pending
<1>1. app' = app /\ Part' = Part /\ ClearsFirst
  BY AppKept DEF Part, ClearsFirst
<1>2. \A p \in Part : Way(p)
  BY <1>1 DEF IInv, Pending, OnItsWay, Way
<1>3. ASSUME NEW p \in Part, ClearFlag("slot")
      PROVE  Way(p)'
  <2>1. at["slot"] = "clear" /\ at' = [at EXCEPT !["slot"] = app.slot["clear"]]
    BY <1>3 DEF ClearFlag, At, Advance, Goto, After
  <2>2. "clear" \in DOMAIN app.slot
    BY <2>1 DEF IInv, TypeOK
  <2>3. app.slot["clear"] \in Before(p)
    BY <1>1, <2>2, AppFacts DEF IInv, Paths, ClearsFirst, Part
  <2> QED
    BY <2>1, <2>3 DEF Way, IInv, TypeOK, Task
<1>4. \A p \in Part : Way(p)'
  BY <1>2, <1>3, WayKept DEF IInv
<1> QED
  BY <1>1, <1>4 DEF OnItsWay, Way

-----------------------------------------------------------------------------
LEMMA NextRestarts == IInv /\ [Next]_vars => Restarts'
<1> SUFFICES ASSUME IInv, [Next]_vars, ccp', app' # TwrNranges
             PROVE  \/ rx'
                    \/ ("off" \in DOMAIN app'.main /\ at'["main"] \in DOMAIN app'.main)
  BY DEF Restarts
<1> USE AppFacts DEF IInv, Task, At, Goto, fixed, ccpVars
<1>1. app' = app
  BY DEF Next, vars, MainStep, UpdateNow, UpdateLater, SlotUpdate,
         SlotExchange, SlotRest, SlotLook, ExchangeDone, CcpEnd, Environment,
         CcpBegin, NetChange, Commit, Apply, Program, ReceiverOff, ReceiverOn,
         ClearFlag, ResetTimeout
<1>2. /\ at["main"] \in {"idle", "call"} \cup DOMAIN app.main
      /\ at["slot"] \in {"idle", "look", "exchange"} \cup DOMAIN app.slot
      /\ at \in [Task -> Steps \cup {"idle", "call", "exchange"}]
      /\ \A s \in DOMAIN app.main : /\ s \in Steps \cup {"start"}
                                    /\ app.main[s] \in DOMAIN app.main \cup {"idle"}
      /\ "off" \in DOMAIN app.main =>
           \A s \in DOMAIN app.main : app.main[s] = "idle" => s = "on"
      /\ "off" \notin DOMAIN app.slot
  BY <1>1 DEF TypeOK, Graphs, Paths
<1>3. "idle" \notin DOMAIN app.main /\ "call" \notin DOMAIN app.main
  BY <1>2 DEF Steps
<1>4. ASSUME NEW t \in Task, Apply(t)
      PROVE  \/ rx'
             \/ ("off" \in DOMAIN app.main /\ at'["main"] \in DOMAIN app.main)
  <2>1. ccp' = ccp /\ at' = [at EXCEPT ![t] = After(t, at[t])]
    BY <1>4 DEF Apply, Program, ReceiverOff, ReceiverOn, ClearFlag,
                ResetTimeout, Advance
  <2>2. rx \/ ("off" \in DOMAIN app.main /\ at["main"] \in DOMAIN app.main)
    BY <2>1, <1>1 DEF Restarts
  <2>3. at[t] \in Steps
    BY <1>4 DEF Apply, Program, ReceiverOff, ReceiverOn, ClearFlag,
                ResetTimeout, Part, Steps
  <2>4. CASE t = "main" /\ ReceiverOff(t)
    <3>1. at["main"] = "off" /\ "off" \in DOMAIN app.main
      BY <2>4, <1>2 DEF ReceiverOff
    <3> QED
      BY <3>1, <2>1, <2>4, <1>2 DEF After
  <2>5. CASE t = "main" /\ ReceiverOn(t)
    <3>1. rx' = (rx \/ at["main"] = "on" \/ ccp)
      BY <2>5 DEF ReceiverOn
    <3> QED
      BY <3>1, <2>1
  <2>6. CASE t = "main" /\ ~ReceiverOff(t) /\ ~ReceiverOn(t)
    <3>1. rx' = rx /\ at["main"] # "on" /\ at["main"] \in DOMAIN app.main
      BY <2>6, <2>3, <1>4, <1>2 DEF Apply, Program, ClearFlag, ResetTimeout,
                                    Part, Steps
    <3> QED
      BY <3>1, <2>1, <2>2, <2>6, <1>2 DEF After
  <2>7. CASE t = "slot"
    <3>1. at["slot"] # "off"
      BY <1>2
    <3>2. at'["main"] = at["main"]
      BY <2>1, <2>7, <1>2
    <3>3. rx => rx'
      BY <2>7, <3>1, <1>4 DEF Apply, Program, ReceiverOff, ReceiverOn,
                              ClearFlag, ResetTimeout
    <3> QED
      BY <3>2, <3>3, <2>2
  <2> QED
    BY <2>4, <2>5, <2>6, <2>7
<1>11. ASSUME ccp' = ccp, rx' = rx,
              at'["main"] = at["main"] \/ at["main"] \in {"idle", "call"}
       PROVE  \/ rx'
              \/ ("off" \in DOMAIN app.main /\ at'["main"] \in DOMAIN app.main)
  <2>1. rx \/ ("off" \in DOMAIN app.main /\ at["main"] \in DOMAIN app.main)
    BY <1>1, <1>11 DEF Restarts
  <2> QED
    BY <2>1, <1>3, <1>11
<1>5. CASE MainStep
  <2>1. CASE UpdateNow \/ UpdateLater
    <3>1. ccp' = ccp /\ rx' = rx /\ at["main"] = "call"
      BY <2>1 DEF UpdateNow, UpdateLater
    <3> QED
      BY <3>1, <1>1, <1>11
  <2> QED
    BY <1>1, <1>4, <1>5, <2>1 DEF MainStep
<1>6. CASE SlotUpdate \/ SlotExchange
  <2>1. ccp' = ccp /\ rx' = rx
    BY <1>6 DEF SlotUpdate, SlotExchange
  <2>2. \E step : at' = [at EXCEPT !["slot"] = step]
    BY <1>6, Zenon DEF SlotUpdate, SlotExchange
  <2>3. at'["main"] = at["main"]
    BY <2>2, <1>2
  <2> QED
    BY <2>1, <2>3, <1>1, <1>11
<1>7. CASE SlotRest
  <2>1. CASE SlotLook \/ ExchangeDone
    <3>1. ccp' = ccp /\ rx' = rx
      BY <2>1 DEF SlotLook, ExchangeDone
    <3>2. \E step : at' = [at EXCEPT !["slot"] = step]
      BY <2>1, Zenon DEF SlotLook, ExchangeDone
    <3>3. at'["main"] = at["main"]
      BY <3>2, <1>2
    <3> QED
      BY <3>1, <3>3, <1>1, <1>11
  <2> QED
    BY <1>1, <1>4, <1>7, <2>1 DEF SlotRest
<1>8. CASE CcpEnd
  BY <1>8 DEF CcpEnd
<1>9. CASE Environment
  <2>1. CASE CcpBegin
    BY <2>1 DEF CcpBegin
  <2>2. CASE \E c \in Config : NetChange(c)
    <3>1. ccp' = ccp /\ rx' = rx /\ at' = at
      BY <2>2 DEF NetChange
    <3> QED
      BY <3>1, <1>1, <1>11
  <2>3. CASE \E c \in Config : Commit(c)
    <3>1. ccp' = ccp /\ rx' = rx /\ at["main"] = "idle"
      BY <2>3 DEF Commit
    <3> QED
      BY <3>1, <1>1, <1>11
  <2> QED
    BY <1>9, <2>1, <2>2, <2>3 DEF Environment
<1>10. CASE UNCHANGED vars
  BY <1>1, <1>10 DEF vars, Restarts
<1> QED
  BY <1>1, <1>5, <1>6, <1>7, <1>8, <1>9, <1>10 DEF Next

-----------------------------------------------------------------------------
LEMMA NextIInv == IInv /\ [Next]_vars => IInv'
  BY NextTypeOK, NextPending, NextRestarts DEF IInv

\* The variables keep their types, in every application.
THEOREM ConfigTypeCorrect == Spec => []TypeOK
<1>1. IInv => TypeOK
  BY DEF IInv
<1> QED
  BY <1>1, InitIInv, NextIInv, PTL DEF Spec

\* An update committed while the slot callback applies an earlier one is not
\* forgotten where the flag is cleared first.
THEOREM EveryUpdateAppliedCorrect == Spec => []EveryUpdateApplied
<1>1. IInv => EveryUpdateApplied
  <2> SUFFICES ASSUME IInv, ClearsFirst, ~updated, at["main"] = "idle",
                      at["slot"] \in {"idle", "look", "exchange"}
               PROVE  Active
    BY DEF EveryUpdateApplied, CommitMakesActive, Quiet, At
  <2>1. OnItsWay
    BY DEF IInv, Pending
  <2> QED
    BY <2>1 DEF OnItsWay, Way, Before, Active
<1> QED
  BY <1>1, InitIInv, NextIInv, PTL DEF Spec

\* uc_update leaves no CCP waiting with the receiver off, whenever CCP starts
\* or ends its wait.
THEOREM WaitingHearsCorrect == Spec => []WaitingHears
<1>1. IInv => WaitingHears
  <2> SUFFICES ASSUME IInv, ccp, app # TwrNranges
               PROVE  rx \/ at["main"] \in Steps
    BY DEF WaitingHears
  <2>1. rx \/ at["main"] \in DOMAIN app.main
    BY DEF IInv, Restarts
  <2>2. "idle" \notin DOMAIN app.main /\ "call" \notin DOMAIN app.main
    BY AppFacts DEF IInv, Graphs, Steps
  <2> QED
    BY <2>1, <2>2, AppFacts DEF IInv, Graphs, TypeOK, Task
<1> QED
  BY <1>1, InitIInv, NextIInv, PTL DEF Spec

\* Whatever CommitMakesActive refutes begins with the loss of OnItsWay, and that
\* takes one particular step.
LEMMA OnItsWaySuffices == OnItsWay => CommitMakesActive
<1> SUFFICES ASSUME OnItsWay, ~updated, at["main"] = "idle",
                    at["slot"] \in {"idle", "look", "exchange"}
             PROVE  Active
  BY DEF CommitMakesActive, Quiet, At
<1> QED
  BY DEF OnItsWay, Way, Before, Active

LostAtClear ==
  [][OnItsWay /\ ~OnItsWay' => At("slot", "clear") /\ updated]_vars

\* Where a commit is forgotten (the counterexamples of CommitMakesActive): an update
\* stops being in the radio or on its way there only by the slot callback's clearing
\* of the flag, for an earlier update, after it has programmed the radio.
THEOREM ForgottenCorrect == Spec => LostAtClear
<1>1. IInv /\ [Next]_vars
      => [OnItsWay /\ ~OnItsWay' => At("slot", "clear") /\ updated]_vars
  <2> SUFFICES ASSUME IInv, [Next]_vars, OnItsWay, ~(ClearFlag("slot") /\ updated)
               PROVE  OnItsWay'
    BY DEF ClearFlag
  <2>1. Part' = Part
    BY AppKept DEF Part
  <2>2. \A p \in Part : Way(p)'
    BY WayKept DEF IInv, OnItsWay, Way
  <2> QED
    BY <2>1, <2>2 DEF OnItsWay, Way
<1> QED
  BY <1>1, InitIInv, NextIInv, PTL DEF Spec, LostAtClear

-----------------------------------------------------------------------------
\* Only twr_node_tdma keeps a timeout from slot to slot, and it has looked at
\* CCP before it handles the flag.
OnlyNode == /\ app # TwrNode => timeout = NoTimeout
            /\ app = TwrNode => at["slot"] # "look"

\* A slot callback of twr_node_tdma that handles the flag comes to its end by
\* resetting the timeout.
LEMMA NodePath ==
  /\ TwrNode.slot["start"] \in Steps \ {"look"}
  /\ \A s \in DOMAIN TwrNode.slot :
       TwrNode.slot[s] \in IF s = "reset" THEN {"idle"} ELSE Steps \ {"look"}
BY DEF TwrNode, Steps

\* The other applications never calculate a timeout.
LEMMA NextOnlyNode == TypeOK /\ OnlyNode /\ [Next]_vars => OnlyNode'
<1> SUFFICES ASSUME TypeOK, OnlyNode, [Next]_vars
             PROVE  OnlyNode'
  OBVIOUS
<1> USE AppKept DEF OnlyNode
<1>1. CASE app # TwrNode
  BY <1>1
     DEF Next, vars, MainStep, UpdateNow, UpdateLater, SlotUpdate, SlotExchange,
         Recalculated, SlotRest, SlotLook, ExchangeDone, CcpEnd, Environment,
         CcpBegin, NetChange, Commit, Apply, Program, ReceiverOff, ReceiverOn,
         ClearFlag, ResetTimeout
<1>2. CASE app = TwrNode
  <2> USE DEF Task, At, Goto
  <2>1. /\ at \in [Task -> Steps \cup {"idle", "call", "exchange"}]
        /\ at["slot"] \in {"idle", "exchange"} \cup DOMAIN TwrNode.slot
    BY <1>2 DEF TypeOK
  <2>2. ASSUME NEW t \in Task, Apply(t)
        PROVE  at'["slot"] # "look"
    <3>1. at' = [at EXCEPT ![t] = After(t, at[t])] /\ at[t] \in Steps
      BY <2>2 DEF Apply, Program, ReceiverOff, ReceiverOn, ClearFlag,
                  ResetTimeout, Advance, Part, Steps
    <3>2. CASE t = "main"
      BY <1>2, <2>1, <3>1, <3>2
    <3>3. CASE t = "slot"
      <4>1. at["slot"] \in DOMAIN TwrNode.slot
        BY <2>1, <3>1, <3>3 DEF Steps
      <4> QED
        BY <1>2, <2>1, <3>1, <3>3, <4>1, NodePath DEF After
    <3> QED
      BY <3>2, <3>3
  <2>3. CASE SlotUpdate \/ SlotExchange \/ SlotLook \/ ExchangeDone
    BY <1>2, <2>1, <2>3, NodePath DEF SlotUpdate, SlotExchange, SlotLook, ExchangeDone
  <2>4. CASE UpdateNow \/ UpdateLater \/ CcpEnd \/ Environment \/ UNCHANGED vars
    BY <1>2, <2>1, <2>4
       DEF UpdateNow, UpdateLater, CcpEnd, Environment, CcpBegin, NetChange, Commit, vars
  <2> QED
    BY <1>2, <2>2, <2>3, <2>4 DEF Next, MainStep, SlotRest
<1> QED
  BY <1>1, <1>2

\* No step but the workaround's makes the timeout stale.
LEMMA FreshKept ==
  ASSUME TypeOK, [Next]_vars, OnlyNode, OnlyNode', Fresh, ~(Program("main") /\ At("main", "mac"))
  PROVE  Fresh'
<1> USE DEF Fresh, Task, At, Goto, fixed, ccpVars
<1>1. CASE app # TwrNode
  BY <1>1, AppKept DEF OnlyNode
<1>2. CASE app = TwrNode
  <2>1. /\ at \in [Task -> Steps \cup {"idle", "call", "exchange"}]
        /\ at["slot"] \in {"idle", "look", "exchange"} \cup DOMAIN TwrNode.slot
        /\ radio \in [Part -> Config]
    BY <1>2 DEF TypeOK
  <2>2. ASSUME Apply("slot")
        PROVE  Fresh'
    <3>1. at["slot"] \in Steps \ {"look"} /\ at' = [at EXCEPT !["slot"] = app.slot[at["slot"]]]
      BY <2>2 DEF Apply, Program, ReceiverOff, ReceiverOn, ClearFlag,
                  ResetTimeout, Advance, After, Part, Steps
    <3>2. at["slot"] \in DOMAIN TwrNode.slot
      BY <2>1, <3>1 DEF Steps
    <3>3. CASE at["slot"] = "reset"
      <4>1. ResetTimeout("slot")
        BY <2>2, <3>3 DEF Apply, Program, ReceiverOff, ReceiverOn, ClearFlag, Part
      <4> QED
        BY <4>1 DEF ResetTimeout
    <3>4. CASE at["slot"] # "reset"
      BY <1>2, <2>1, <3>1, <3>2, <3>4, NodePath
    <3> QED
      BY <3>3, <3>4
  <2>3. ASSUME Apply("main")
        PROVE  Fresh'
    <3>1. at' = [at EXCEPT !["main"] = After("main", at["main"])]
      BY <2>3 DEF Apply, Program, ReceiverOff, ReceiverOn, ClearFlag,
                  ResetTimeout, Advance
    <3>2. at'["slot"] = at["slot"]
      BY <2>1, <3>1
    <3>3. CASE Program("main")
      <4>1. radio'["mac"] = radio["mac"] /\ timeout' = timeout
        BY <2>1, <3>3 DEF Program
      <4> QED
        BY <3>2, <4>1
    <3>4. CASE ~Program("main")
      <4>1. radio' = radio /\ timeout' \in {timeout, NoTimeout}
        BY <2>3, <3>4 DEF Apply, ReceiverOff, ReceiverOn, ClearFlag, ResetTimeout
      <4> QED
        BY <3>2, <4>1
    <3> QED
      BY <3>3, <3>4
  <2>4. CASE SlotUpdate
    BY <1>2, <2>1, <2>4, NodePath DEF SlotUpdate
  <2>5. CASE SlotExchange
    BY <2>1, <2>5 DEF SlotExchange, Recalculated, Steps
  <2>6. CASE SlotLook \/ ExchangeDone
    <3>1. at["slot"] # "look"
      BY <1>2 DEF OnlyNode
    <3> QED
      BY <2>1, <2>6, <3>1 DEF SlotLook, ExchangeDone, Steps
  <2>7. CASE UpdateNow \/ UpdateLater
    BY <2>1, <2>7 DEF UpdateNow, UpdateLater
  <2>8. CASE CcpEnd \/ Environment \/ UNCHANGED vars
    BY <2>1, <2>8 DEF CcpEnd, Environment, CcpBegin, NetChange, Commit, vars
  <2> QED
    BY <2>2, <2>3, <2>4, <2>5, <2>6, <2>7, <2>8 DEF Next, MainStep, SlotRest
<1> QED
  BY <1>1, <1>2

\* The timeout of twr_node_tdma goes stale in one way only: the main task's
\* workaround puts new settings in the radio.
THEOREM StaleCorrect == Spec => StaleOnlyByWorkaround
<1>1. Init => OnlyNode
  BY DEF Init, OnlyNode, Task
<1>2. IInv /\ OnlyNode /\ OnlyNode' /\ [Next]_vars
      => [Fresh /\ ~Fresh' => At("main", "mac")]_vars
  BY FreshKept DEF IInv
<1>3. IInv /\ OnlyNode /\ [Next]_vars => OnlyNode'
  BY NextOnlyNode DEF IInv
<1> QED
  BY <1>1, <1>2, <1>3, InitIInv, NextIInv, PTL DEF Spec, StaleOnlyByWorkaround
=============================================================================
