----------------------------- MODULE Streaming -----------------------------
(***************************************************************************)
(* A stream from one node to another, apps/streaming/src/main.c.  A timer  *)
(* of the sender (UWB_TRANSPORT_ROLE = 1) queues a burst of messages with  *)
(* increasing indexes; the slots of the TDMA frame send them; the receiver *)
(* tells from the indexes how many arrived and how many were missed.       *)
(*                                                                         *)
(* A message is its index, a number that tells messages with one index     *)
(* apart (the program has no such number), and whether it is whole.  The   *)
(* payload is the same in every message, so the checksum of a message that *)
(* was cut short and completed by the receiver's earlier copy is right.    *)
(* Settings of the radio that change are the subject of RadioConfig.       *)
(***************************************************************************)
EXTENDS Naturals, Sequences, FiniteSets

CONSTANTS
  IndexMod,     \* 256: the index is a byte
  CountMod,     \* 2^32: the counters are words
  Burst,        \* 18: messages of one timer event
  Blocks        \* memory blocks for messages; a whole one takes two

ASSUME IndexModAssumption == IndexMod \in Nat \ {0, 1, 2}
ASSUME CountModAssumption ==
  CountMod \in Nat /\ CountMod > IndexMod /\ CountMod % IndexMod = 0
ASSUME BurstAssumption == Burst \in Nat \ {0}
ASSUME BlocksAssumption == Blocks \in Nat \ {0}

None == CountMod

VARIABLES
  synced,     \* ccp->frames[0]->short_address # 0
  callout,    \* stream_callout: not armed, ticking, or its event queued
  burst,      \* i of stream_timer; 0 when it does not run
  index,      \* test[1] of the sender
  number,     \* how many indexes the sender has used
  queue,      \* the messages the transport layer has yet to send
  g_idx,      \* the receiver's g_idx
  ok,         \* g_ok_count
  missed,     \* g_missed_count
  short,      \* a message has come in cut short
  last        \* the number of the message received last, if it and the
              \* receiver know of one another

sender == <<synced, callout, burst, index, number>>
receiver == <<g_idx, ok, missed, short, last>>
vars == <<sender, queue, receiver>>

Index == 0 .. IndexMod - 1
Count == 0 .. CountMod - 1
Message == [index : Index, number : Count, whole : BOOLEAN]

TypeOK ==
  /\ synced \in BOOLEAN /\ short \in BOOLEAN
  /\ callout \in {"idle", "ticking", "queued"}
  /\ burst \in 0 .. Burst
  /\ index \in Index /\ number \in Count
  /\ queue \in Seq(Message) /\ Len(queue) <= Blocks
  /\ g_idx \in Index
  /\ ok \in Count /\ missed \in Count
  /\ last \in Count \cup {None}

\* main fills test with 0, 1, 2, ... on both nodes; g_idx starts with 0.
Init ==
  /\ synced = FALSE
  /\ callout = "ticking"
  /\ burst = 0
  /\ index = 1 /\ number = 0
  /\ queue = <<>>
  /\ g_idx = 0 /\ ok = 0 /\ missed = 0
  /\ short = FALSE
  /\ last = None

-----------------------------------------------------------------------------
(***************************************************************************)
(* The sender: the main task and the slot task.                            *)
(***************************************************************************)

\* The clock master has been heard.
Synchronise ==
  /\ ~synced
  /\ synced' = TRUE
  /\ UNCHANGED <<callout, burst, index, number, queue, receiver>>

Expire ==
  /\ callout = "ticking"
  /\ callout' = "queued"
  /\ UNCHANGED <<synced, burst, index, number, queue, receiver>>

\* stream_timer re-arms its callout, whatever happens then.
StreamTimerNoReset ==
  /\ callout = "queued" /\ burst = 0
  /\ callout' = "idle"
  /\ burst' = Burst
  /\ UNCHANGED <<synced, index, number, queue, receiver>>
StreamTimer ==
  /\ callout = "queued" /\ burst = 0
  /\ callout' = "ticking"
  /\ burst' = Burst
  /\ UNCHANGED <<synced, index, number, queue, receiver>>

\* The messages that were given their second block, and the blocks left.
Whole == {i \in DOMAIN queue : queue[i].whole}
Free == Blocks - (Len(queue) + Cardinality(Whole))

\* One round of the loop.  A message takes one block, which may be all there
\* is: what dpl_mbuf_copyinto and uwb_transport_enqueue_tx return is not looked
\* at, so a message can be cut short, and its index used up for nothing.
StreamOne ==
  /\ burst > 0 /\ synced /\ Free > 0
  /\ burst' = burst - 1
  /\ index' = (index + 1) % IndexMod
  /\ number' = (number + 1) % CountMod
  /\ \/ queue' = Append(queue, [index |-> index', number |-> number',
                                whole |-> Free > 1])
     \/ UNCHANGED queue
  /\ UNCHANGED <<synced, callout, receiver>>

\* No destination yet, or no memory: break.
StreamBreak ==
  /\ burst > 0
  /\ ~synced \/ Free = 0
  /\ burst' = 0
  /\ UNCHANGED <<synced, callout, index, number, queue, receiver>>

-----------------------------------------------------------------------------
(***************************************************************************)
(* The receiver.                                                           *)
(***************************************************************************)

\* What uwb_transport_cb expects, and what it takes for missed.
Expected == (g_idx + 1) % IndexMod
Missed(m) == (m.index + IndexMod - Expected) % IndexMod

AcceptedByChecksum(m) == TRUE
Accepted(m) == m.whole

CountWide(m) == ok' = ok + 1
CountMatchOnly(m) == ok' = IF m.index = Expected THEN (ok + 1) % CountMod
                                                    ELSE ok
CountOk(m) == ok' = (ok + 1) % CountMod

\* g_idx is set for a message that is refused, too.
Receive(m) ==
  /\ IF Accepted(m)
       THEN /\ CountOk(m)
            /\ missed' = (missed + Missed(m)) % CountMod
       ELSE UNCHANGED <<ok, missed>>
  /\ g_idx' = m.index
  /\ short' = (short \/ ~m.whole)
  /\ last' = m.number

\* A slot of the sender sends the first message of the queue, and the slot of
\* the receiver, having nothing to send, listens to it,
SlotDeliver ==
  /\ queue # <<>>
  /\ queue' = Tail(queue)
  /\ Receive(Head(queue))
  /\ UNCHANGED sender

\* or misses it: its clock synchronisation is busy, or the air is.
SlotLose ==
  /\ queue # <<>>
  /\ queue' = Tail(queue)
  /\ UNCHANGED <<sender, receiver>>

-----------------------------------------------------------------------------
\* Either node restarts.
RestartSender ==
  /\ synced' = FALSE
  /\ callout' = "ticking" /\ burst' = 0
  /\ index' = 1 /\ number' = 0
  /\ queue' = <<>>
  /\ last' = None
  /\ UNCHANGED <<g_idx, ok, missed, short>>

RestartReceiver ==
  /\ g_idx' = 0 /\ ok' = 0 /\ missed' = 0
  /\ short' = FALSE
  /\ last' = None
  /\ UNCHANGED <<sender, queue>>

Next ==
  \/ Synchronise \/ Expire \/ StreamTimer \/ StreamOne \/ StreamBreak
  \/ SlotDeliver \/ SlotLose \/ RestartSender \/ RestartReceiver

Spec == Init /\ [][Next]_vars

\* Timers expire, both tasks go on, and slots come round.
FairSpec ==
  /\ Spec
  /\ WF_vars(Synchronise)
  /\ WF_vars(Expire)
  /\ WF_vars(StreamTimer)
  /\ WF_vars(StreamOne \/ StreamBreak)
  /\ WF_vars(SlotDeliver \/ SlotLose)

-----------------------------------------------------------------------------
\* As long as no message came in short, the counters and the index of the
\* receiver agree, whatever is lost and however often the sender restarts.
CountsMatchIndex == ~short => (ok + missed) % IndexMod = g_idx

\* Between two messages of one run of the sender, the second of them whole,
\* the receiver takes exactly those messages for missed that it did not get,
\* short ones included in those it got, if they were fewer than IndexMod.  A
\* short message counts for nothing, although its checksum is right.
Between(m) == (m.number + CountMod - last - 1) % CountMod
CountsExactly ==
  [][SlotDeliver /\ last # None =>
       LET m == Head(queue)
       IN IF m.whole
            THEN /\ ok' = (ok + 1) % CountMod
                 /\ Between(m) < IndexMod
                      => missed' = (missed + Between(m)) % CountMod
            ELSE UNCHANGED <<ok, missed>>]_vars

\* A sender with a destination goes on, though its queue fills up and bursts
\* are broken off.
StreamGoesOn ==
  \A i \in Index : (synced /\ index = i) ~> (~synced \/ index # i)
=============================================================================
