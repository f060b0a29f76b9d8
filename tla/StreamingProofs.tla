--------------------------- MODULE StreamingProofs ---------------------------
(***************************************************************************)
(* Proofs about the stream, for any index and any counters whose range is  *)
(* a multiple of the index's, any burst and any memory: the counts agree   *)
(* with the index, what is counted as missed was missed, and the queue     *)
(* stays within the memory.                                                *)
(***************************************************************************)
EXTENDS Streaming, Integers, FiniteSetTheorems, TLAPS

-----------------------------------------------------------------------------
(***************************************************************************)
(* Remainders.  A remainder inside a sum may be left out if a remainder of *)
(* the sum is taken by the same number.                                    *)
(***************************************************************************)

LEMMA Divide ==
  ASSUME NEW n \in Nat \ {0}, NEW a \in Int
  PROVE  \E q \in Int, r \in 0 .. n - 1 : a % n = r /\ a = n * q + r
<1>1. a \div n \in Int /\ a = n * (a \div n) + (a % n) /\ a % n \in 0 .. n - 1
  OBVIOUS
<1> QED
  BY <1>1

LEMMA Remainder ==
  ASSUME NEW n \in Nat \ {0}, NEW q \in Int, NEW r \in 0 .. n - 1
  PROVE  (n * q + r) % n = r
OBVIOUS

\* Numbers that a multiple of n apart have the same remainder.
LEMMA Congruent ==
  ASSUME NEW n \in Nat \ {0}, NEW a \in Int, NEW b \in Int, NEW q \in Int,
         a = b + n * q
  PROVE  a % n = b % n
<1>1. PICK p \in Int, r \in 0 .. n - 1 : b % n = r /\ b = n * p + r
  BY Divide
<1>2. a = n * (p + q) + r /\ p + q \in Int
  BY <1>1
<1> QED
  BY <1>1, <1>2, Remainder

LEMMA NotPositive ==
  ASSUME NEW n \in Nat, NEW q \in Int, ~(q > 0)
  PROVE  ~(n * q > 0)
OBVIOUS

\* The counters turn with the index.
LEMMA Turns ==
  \E k \in Nat \ {0} : CountMod = IndexMod * k
<1>1. PICK q \in Int, r \in 0 .. IndexMod - 1 :
        CountMod % IndexMod = r /\ CountMod = IndexMod * q + r
  BY IndexModAssumption, CountModAssumption, Divide
<1>2. CountMod = IndexMod * q /\ CountMod > 0 /\ IndexMod > 0
  BY <1>1, IndexModAssumption, CountModAssumption
<1>3. q > 0
  BY <1>2, NotPositive, IndexModAssumption
<1>4. q \in Nat \ {0}
  BY <1>3
<1> QED
  BY <1>2, <1>4

\* Modulo IndexMod, no count and no index ever wrapped.
LEMMA Wraps ==
  ASSUME NEW a \in Int
  PROVE  /\ \E q \in Int : a % IndexMod = a + IndexMod * q
         /\ \E q \in Int : a % CountMod = a + IndexMod * q
<1>1. IndexMod \in Nat \ {0} /\ CountMod \in Nat \ {0}
  BY IndexModAssumption, CountModAssumption
<1>2. PICK q \in Int, r \in 0 .. IndexMod - 1 :
        a % IndexMod = r /\ a = IndexMod * q + r
  BY <1>1, Divide
<1>3. a % IndexMod = a + IndexMod * (-q) /\ -q \in Int
  BY <1>1, <1>2
<1>4. PICK p \in Int, s \in 0 .. CountMod - 1 :
        a % CountMod = s /\ a = CountMod * p + s
  BY <1>1, Divide
<1>5. PICK k \in Nat \ {0} : CountMod = IndexMod * k
  BY Turns
<1>6. CountMod * p = IndexMod * (k * p) /\ k * p \in Int
  BY <1>1, <1>5
<1>7. a % CountMod = a + IndexMod * (-(k * p)) /\ -(k * p) \in Int
  BY <1>1, <1>4, <1>6
<1> QED
  BY <1>3, <1>7

\* What is an index, but for a multiple of IndexMod, has it for a remainder.
LEMMA IndexIs ==
  ASSUME NEW i \in Index, NEW q \in Int
  PROVE  (i + IndexMod * q) % IndexMod = i
BY IndexModAssumption, Remainder DEF Index

-----------------------------------------------------------------------------
(***************************************************************************)
(* The invariant.                                                          *)
(***************************************************************************)

Types ==
  /\ index \in Index /\ number \in Count
  /\ queue \in Seq(Message)
  /\ g_idx \in Index
  /\ ok \in Count /\ missed \in Count
  /\ short \in BOOLEAN
  /\ last \in Count \cup {None}

\* Wherever a message is, its index is that of its number.
IndexOf(n) == (n + 1) % IndexMod
Numbered ==
  /\ index = IndexOf(number)
  /\ \A i \in 1 .. Len(queue) : queue[i].index = IndexOf(queue[i].number)
  /\ last # None => g_idx = IndexOf(last)

IInv == Types /\ Numbered /\ CountsMatchIndex

\* Remainders are indexes and counts.
LEMMA Ranges ==
  ASSUME NEW a \in Int
  PROVE  a % IndexMod \in Index /\ a % CountMod \in Count
<1>1. IndexMod \in Nat \ {0} /\ CountMod \in Nat \ {0}
  BY IndexModAssumption, CountModAssumption
<1> QED
  BY <1>1 DEF Index, Count

LEMMA InitIInv == Init => IInv
<1> SUFFICES ASSUME Init PROVE IInv
  OBVIOUS
<1>1. 0 \in Index /\ 1 \in Index /\ 0 \in Count
  BY IndexModAssumption, CountModAssumption DEF Index, Count
<1>2. Types
  <2>1. queue \in Seq(Message)
    BY DEF Init
  <2>2. short \in BOOLEAN /\ last = None
    BY DEF Init
  <2> QED
    BY <1>1, <2>1, <2>2 DEF Init, Types
<1>3. 1 % IndexMod = 1 /\ 0 % IndexMod = 0
  BY IndexModAssumption
<1> QED
  BY <1>2, <1>3 DEF Init, IInv, Numbered, IndexOf, CountsMatchIndex

\* The index of the number after n, which may have wrapped.
LEMMA NextIndex ==
  ASSUME NEW n \in Int
  PROVE  (IndexOf(n) + 1) % IndexMod = IndexOf((n + 1) % CountMod)
<1>1. IndexMod \in Nat \ {0}
  BY IndexModAssumption
<1>2. n + 1 \in Int
  OBVIOUS
<1>3. PICK q \in Int : IndexOf(n) = n + 1 + IndexMod * q
  BY <1>2, Wraps DEF IndexOf
<1>4. PICK p \in Int : (n + 1) % CountMod = n + 1 + IndexMod * p
  BY <1>2, Wraps
<1> DEFINE a == IndexOf(n) + 1
           b == ((n + 1) % CountMod) + 1
<1>5. a \in Int /\ b \in Int /\ q - p \in Int /\ a = b + IndexMod * (q - p)
  BY <1>1, <1>3, <1>4
<1>6. a % IndexMod = b % IndexMod
  <2> DEFINE d == q - p
  <2>1. d \in Int /\ a \in Int /\ b \in Int /\ a = b + IndexMod * d
    BY <1>5
  <2> HIDE DEF a, b, d
  <2> QED
    BY ONLY <1>1, <2>1, Congruent
<1> QED
  BY <1>6 DEF IndexOf

\* What the receiver takes for missed, but for a multiple of IndexMod.
LEMMA MissedIs ==
  ASSUME Types, NEW m \in Message
  PROVE  \E q \in Int : Missed(m) = m.index - g_idx - 1 + IndexMod * q
<1>1. IndexMod \in Nat \ {0} /\ m.index \in Int /\ g_idx \in Int
  BY IndexModAssumption DEF Types, Message, Index
<1>2. PICK p \in Int : Expected = g_idx + 1 + IndexMod * p
  <2>1. g_idx + 1 \in Int
    BY <1>1
  <2> QED
    BY <2>1, Wraps DEF Expected
<1>3. PICK q \in Int :
        Missed(m) = m.index + IndexMod - Expected + IndexMod * q
  <2>1. m.index + IndexMod - Expected \in Int
    BY <1>1, <1>2
  <2> QED
    BY <2>1, Wraps DEF Missed
<1>4. Missed(m) = m.index - g_idx - 1 + IndexMod * (1 + q - p)
  BY <1>1, <1>2, <1>3
<1> QED
  BY <1>4

\* What the counters gain makes up for the step of the index.
LEMMA ReceiveAgrees ==
  ASSUME Types, CountsMatchIndex, NEW m \in Message, Receive(m)
  PROVE  CountsMatchIndex'
<1> SUFFICES ASSUME ~short' PROVE (ok' + missed') % IndexMod = g_idx'
  BY DEF CountsMatchIndex
<1>1. /\ m.whole /\ ~short /\ g_idx' = m.index
      /\ ok' = (ok + 1) % CountMod
      /\ missed' = (missed + Missed(m)) % CountMod
  BY DEF Receive, Accepted, CountOk, Message, Types
<1>2. /\ m.index \in Index /\ m.index \in Int
      /\ g_idx \in Int /\ ok \in Int /\ missed \in Int
      /\ IndexMod \in Nat \ {0}
  BY IndexModAssumption DEF Types, Message, Index, Count
<1>3. PICK q1 \in Int : Missed(m) = m.index - g_idx - 1 + IndexMod * q1
  BY MissedIs
<1>4. PICK q2 \in Int : g_idx = ok + missed + IndexMod * q2
  <2>1. ok + missed \in Int /\ (ok + missed) % IndexMod = g_idx
    BY <1>1, <1>2 DEF CountsMatchIndex
  <2> QED
    BY <2>1, Wraps
<1>5. PICK q3 \in Int : ok' = ok + 1 + IndexMod * q3
  <2>1. ok + 1 \in Int
    BY <1>2
  <2> QED
    BY <1>1, <2>1, Wraps
<1>6. PICK q4 \in Int : missed' = missed + Missed(m) + IndexMod * q4
  <2>1. missed + Missed(m) \in Int
    BY <1>2, <1>3
  <2> QED
    BY <1>1, <2>1, Wraps
<1>7. ok' + missed' = m.index + IndexMod * (q1 - q2 + q3 + q4)
  BY <1>2, <1>3, <1>4, <1>5, <1>6
<1>8. q1 - q2 + q3 + q4 \in Int
  OBVIOUS
<1> QED
  BY <1>1, <1>2, <1>7, <1>8, IndexIs

\* The messages between two that are received are those whose indexes are
\* missing, if these have not come round.
LEMMA MissedIsBetween ==
  ASSUME Types, NEW m \in Message, m.index = IndexOf(m.number),
         last # None, g_idx = IndexOf(last), Between(m) < IndexMod
  PROVE  Missed(m) = Between(m)
<1>1. /\ IndexMod \in Nat \ {0} /\ CountMod \in Nat \ {0}
      /\ m.number \in Int /\ last \in Int
  BY IndexModAssumption, CountModAssumption DEF Types, Message, Count
<1>2. PICK q1 \in Int : Missed(m) = m.index - g_idx - 1 + IndexMod * q1
  BY MissedIs
<1>3. PICK q2 \in Int : m.index = m.number + 1 + IndexMod * q2
  <2>1. m.number + 1 \in Int
    BY <1>1
  <2> QED
    BY <2>1, Wraps DEF IndexOf
<1>4. PICK q3 \in Int : g_idx = last + 1 + IndexMod * q3
  <2>1. last + 1 \in Int
    BY <1>1
  <2> QED
    BY <2>1, Wraps DEF IndexOf
<1>5. PICK k \in Nat \ {0} : CountMod = IndexMod * k
  BY Turns
<1>6. PICK q4 \in Int :
        Between(m) = m.number + CountMod - last - 1 + IndexMod * q4
  <2>1. m.number + CountMod - last - 1 \in Int
    BY <1>1
  <2> QED
    BY <2>1, Wraps DEF Between
<1>7. Missed(m) = Between(m) + IndexMod * (q1 + q2 - q3 - q4 - k)
  BY <1>1, <1>2, <1>3, <1>4, <1>5, <1>6
<1>8. Between(m) \in Index
  <2>1. m.number + CountMod - last - 1 \in Int
    BY <1>1
  <2>2. Between(m) \in Count
    BY <2>1, Ranges DEF Between
  <2> QED
    BY <1>1, <2>2 DEF Index, Count
<1>9. Missed(m) \in Index
  <2>1. Expected \in Int /\ m.index \in Int
    <3>1. g_idx + 1 \in Int /\ m.index \in Int
      BY <1>1 DEF Types, Message, Index
    <3>2. Expected \in Index
      BY <3>1, Ranges DEF Expected
    <3> QED
      BY <1>1, <3>1, <3>2 DEF Index
  <2>2. m.index + IndexMod - Expected \in Int
    BY <1>1, <2>1
  <2> QED
    BY <2>2, Ranges DEF Missed
<1>10. q1 + q2 - q3 - q4 - k \in Int
  OBVIOUS
<1>11. Missed(m) % IndexMod = Between(m)
  BY <1>7, <1>8, <1>10, IndexIs
<1>12. Missed(m) % IndexMod = Missed(m)
  BY <1>1, <1>9 DEF Index
<1> QED
  BY <1>11, <1>12

-----------------------------------------------------------------------------
(***************************************************************************)
(* Every step keeps the invariant.                                         *)
(***************************************************************************)

\* What is received is in the queue.
LEMMA HeadFits ==
  ASSUME IInv, queue # <<>>
  PROVE  /\ Head(queue) \in Message /\ Tail(queue) \in Seq(Message)
         /\ Head(queue).index = IndexOf(Head(queue).number)
         /\ Len(Tail(queue)) = Len(queue) - 1
         /\ \A i \in 1 .. Len(queue) - 1 : Tail(queue)[i] = queue[i + 1]
<1>1. queue \in Seq(Message) /\ Len(queue) \in Nat \ {0} /\ Head(queue) = queue[1]
  BY DEF IInv, Types
<1>2. queue[1].index = IndexOf(queue[1].number)
  BY <1>1 DEF IInv, Numbered
<1> QED
  BY <1>1, <1>2

LEMMA ShorterQueue ==
  ASSUME IInv, queue # <<>>, queue' = Tail(queue)
  PROVE  \A i \in 1 .. Len(queue') : queue'[i].index = IndexOf(queue'[i].number)
<1>1. Len(queue) \in Nat
  BY DEF IInv, Types
<1> QED
  BY <1>1, HeadFits DEF IInv, Numbered

LEMMA NextIInv ==
  ASSUME IInv, [Next]_vars
  PROVE  IInv'
<1> USE DEF IInv
<1>1. CASE StreamOne
  <2>1. index' = (index + 1) % IndexMod /\ number' = (number + 1) % CountMod
        /\ UNCHANGED <<g_idx, ok, missed, short, last>>
    BY <1>1 DEF StreamOne, receiver
  <2>2. index \in Int /\ number \in Int
    BY IndexModAssumption, CountModAssumption DEF Types, Index, Count
  <2>3. index' \in Index /\ number' \in Count
    <3>1. index + 1 \in Int /\ number + 1 \in Int
      BY <2>2
    <3> QED
      BY <2>1, <3>1, Ranges
  <2>4. index' = IndexOf(number')
    BY <2>1, <2>2, NextIndex DEF Numbered
  <2>5. queue' \in Seq(Message)
        /\ \A i \in 1 .. Len(queue') : queue'[i].index = IndexOf(queue'[i].number)
    <3>1. CASE UNCHANGED queue
      BY <3>1 DEF Types, Numbered
    <3>2. CASE queue' = Append(queue, [index |-> index', number |-> number',
                                       whole |-> Free > 1])
      <4> DEFINE m == [index |-> index', number |-> number', whole |-> Free > 1]
      <4>1. m \in Message
        BY <2>3 DEF Message
      <4>2. m.index = IndexOf(m.number)
        BY <2>4
      <4>3. queue' = Append(queue, m) /\ queue \in Seq(Message)
        BY <3>2 DEF Types
      <4> HIDE DEF m
      <4>4. queue' \in Seq(Message) /\ Len(queue) \in Nat
            /\ Len(queue') = Len(queue) + 1
        BY <4>1, <4>3
      <4>5. ASSUME NEW i \in 1 .. Len(queue')
            PROVE  queue'[i].index = IndexOf(queue'[i].number)
        <5>1. CASE i = Len(queue) + 1
          <6>1. queue'[i] = m
            BY <4>1, <4>3, <5>1
          <6> QED
            BY <4>2, <6>1
        <5>2. CASE i \in 1 .. Len(queue)
          <6>1. queue'[i] = queue[i]
            BY <4>1, <4>3, <5>2
          <6> QED
            BY <5>2, <6>1 DEF Numbered
        <5> QED
          BY <4>4, <5>1, <5>2
      <4> QED
        BY <4>4, <4>5
    <3> QED
      BY <1>1, <3>1, <3>2 DEF StreamOne
  <2> QED
    BY <2>1, <2>3, <2>4, <2>5 DEF Types, Numbered, CountsMatchIndex
<1>2. CASE SlotDeliver
  <2> DEFINE m == Head(queue)
  <2>1. /\ queue # <<>> /\ queue' = Tail(queue) /\ Receive(m)
        /\ UNCHANGED <<index, number>>
    BY <1>2 DEF SlotDeliver, sender
  <2>2. m \in Message /\ m.index = IndexOf(m.number) /\ queue' \in Seq(Message)
    BY <2>1, HeadFits
  <2> HIDE DEF m
  <2>3. CountsMatchIndex'
    BY <2>1, <2>2, ReceiveAgrees
  <2>4. /\ g_idx' = m.index /\ g_idx' \in Index
        /\ last' = m.number /\ last' \in Count
        /\ short' \in BOOLEAN
    BY <2>1, <2>2 DEF Receive, Message, Types
  <2>5. ok' \in Count /\ missed' \in Count
    <3>1. CASE m.whole
      <4>1. Missed(m) \in Int
        <5>1. PICK q \in Int : Missed(m) = m.index - g_idx - 1 + IndexMod * q
          BY <2>2, MissedIs
        <5> QED
          BY <2>2, <5>1, IndexModAssumption DEF Types, Message, Index
      <4>2. ok + 1 \in Int /\ missed + Missed(m) \in Int
        BY <4>1 DEF Types, Count
      <4> QED
        BY <2>1, <3>1, <4>2, Ranges DEF Receive, Accepted, CountOk
    <3>2. CASE ~m.whole
      BY <2>1, <3>2 DEF Receive, Accepted, Types
    <3> QED
      BY <3>1, <3>2
  <2>6. \A i \in 1 .. Len(queue') : queue'[i].index = IndexOf(queue'[i].number)
    BY <2>1, ShorterQueue
  <2> QED
    BY <2>1, <2>2, <2>3, <2>4, <2>5, <2>6 DEF Types, Numbered
<1>3. CASE SlotLose
  <2>1. /\ queue # <<>> /\ queue' = Tail(queue)
        /\ UNCHANGED <<index, number, g_idx, ok, missed, short, last>>
    BY <1>3 DEF SlotLose, sender, receiver
  <2>2. queue' \in Seq(Message)
    BY <2>1, HeadFits
  <2> QED
    BY <2>1, <2>2, ShorterQueue DEF Types, Numbered, CountsMatchIndex
<1>4. CASE RestartSender \/ RestartReceiver
  <2>1. 0 \in Index /\ 1 \in Index /\ 0 \in Count /\ 0 % IndexMod = 0
        /\ 1 % IndexMod = 1 /\ 0 + 1 = 1
    BY IndexModAssumption, CountModAssumption DEF Index, Count
  <2>2. CASE RestartSender
    <3>1. queue' \in Seq(Message) /\ Len(queue') = 0
      BY <2>2 DEF RestartSender
    <3>2. Types'
      BY <2>1, <2>2, <3>1 DEF RestartSender, Types
    <3>3. Numbered'
      BY <2>1, <2>2, <3>1 DEF RestartSender, Numbered, IndexOf
    <3>4. CountsMatchIndex'
      BY <2>2 DEF RestartSender, CountsMatchIndex
    <3> QED
      BY <3>2, <3>3, <3>4
  <2>3. CASE RestartReceiver
    <3>1. Types'
      BY <2>1, <2>3 DEF RestartReceiver, sender, Types
    <3>2. Numbered'
      BY <2>3 DEF RestartReceiver, sender, Numbered
    <3>3. CountsMatchIndex'
      BY <2>1, <2>3 DEF RestartReceiver, CountsMatchIndex
    <3> QED
      BY <3>1, <3>2, <3>3
  <2> QED
    BY <1>4, <2>2, <2>3
<1>5. CASE Synchronise \/ Expire \/ StreamTimer \/ StreamBreak \/ UNCHANGED vars
  <2>1. UNCHANGED <<index, number, queue, g_idx, ok, missed, short, last>>
    BY <1>5 DEF Synchronise, Expire, StreamTimer, StreamBreak, vars, sender, receiver
  <2> QED
    BY <2>1 DEF Types, Numbered, CountsMatchIndex
<1> QED
  BY <1>1, <1>2, <1>3, <1>4, <1>5 DEF Next

-----------------------------------------------------------------------------
\* As long as every message was whole, the index the receiver expects next is
\* that of its two counters, whatever was lost before and after restarts of
\* either node (uwb_transport_cb).
THEOREM CountsMatchIndexCorrect == Spec => []CountsMatchIndex
<1>1. IInv /\ [Next]_vars => IInv'
  BY NextIInv
<1>2. IInv => CountsMatchIndex
  BY DEF IInv
<1> QED
  BY InitIInv, <1>1, <1>2, PTL DEF Spec

\* uwb_transport_cb counts a whole message once and takes exactly those for
\* missed that lie between it and the one before, if they are fewer than there
\* are indexes; a short message changes neither counter.
THEOREM CountsExactlyCorrect == Spec => CountsExactly
<1> DEFINE m == Head(queue)
           Exact == SlotDeliver /\ last # None =>
                      IF m.whole
                        THEN /\ ok' = (ok + 1) % CountMod
                             /\ Between(m) < IndexMod
                                  => missed' = (missed + Between(m)) % CountMod
                        ELSE UNCHANGED <<ok, missed>>
<1>1. IInv /\ [Next]_vars => IInv'
  BY NextIInv
<1>2. IInv /\ [Next]_vars => Exact
  <2> SUFFICES ASSUME IInv, SlotDeliver, last # None PROVE Exact
    OBVIOUS
  <2>1. queue # <<>> /\ Receive(m)
    BY DEF SlotDeliver
  <2>2. m \in Message /\ m.index = IndexOf(m.number)
    BY <2>1, HeadFits
  <2>3. Types /\ g_idx = IndexOf(last)
    BY DEF IInv, Numbered
  <2>4. Between(m) < IndexMod => Missed(m) = Between(m)
    <3> HIDE DEF m
    <3> QED
      BY <2>2, <2>3, MissedIsBetween
  <2> QED
    BY <2>1, <2>4 DEF Receive, Accepted, CountOk
<1>3. Spec => [][Exact]_vars
  BY InitIInv, <1>1, <1>2, PTL DEF Spec
<1> QED
  BY <1>3 DEF CountsExactly

-----------------------------------------------------------------------------
(***************************************************************************)
(* The memory.                                                             *)
(***************************************************************************)

\* The blocks in use are no more than there are.
Fits == /\ IsFiniteSet(Whole)
        /\ Len(queue) + Cardinality(Whole) <= Blocks

\* A message leaves, and with it its blocks.
LEMMA FitsTail ==
  ASSUME queue \in Seq(Message), queue # <<>>, queue' = Tail(queue), Fits
  PROVE  Fits'
<1> DEFINE f == [i \in Whole' |-> i + 1]
<1>1. /\ Len(queue) \in Nat \ {0} /\ DOMAIN queue = 1 .. Len(queue)
      /\ Len(queue') = Len(queue) - 1
      /\ DOMAIN queue' = 1 .. Len(queue) - 1
      /\ \A i \in 1 .. Len(queue) - 1 : queue'[i] = queue[i + 1]
  OBVIOUS
<1>2. \A i \in Whole' : i \in Nat /\ i + 1 \in Whole
  BY <1>1 DEF Whole
<1>3. f \in Injection(Whole', Whole)
  <2>1. f \in [Whole' -> Whole]
    BY <1>2
  <2>2. \A i, j \in Whole' : f[i] = f[j] => i = j
    BY <1>2
  <2> HIDE DEF f
  <2> QED
    BY <2>1, <2>2 DEF Injection, IsInjective
<1> HIDE DEF f
<1>4. IsFiniteSet(Whole') /\ Cardinality(Whole') <= Cardinality(Whole)
  BY <1>3, FS_Injection DEF Fits
<1>5. Cardinality(Whole') \in Nat /\ Cardinality(Whole) \in Nat
  BY <1>4, FS_CardinalityType DEF Fits
<1> QED
  BY <1>1, <1>4, <1>5, BlocksAssumption DEF Fits

\* A message takes one block, and the second one only if there is one.
LEMMA FitsAppend ==
  ASSUME queue \in Seq(Message), NEW m \in Message, queue' = Append(queue, m),
         Free > 0, m.whole => Free > 1, Fits
  PROVE  Fits'
<1> DEFINE n == Len(queue) + 1
<1>1. /\ Len(queue) \in Nat /\ DOMAIN queue = 1 .. Len(queue)
      /\ Len(queue') = n /\ DOMAIN queue' = 1 .. n /\ queue'[n] = m
      /\ \A i \in 1 .. Len(queue) : queue'[i] = queue[i]
  OBVIOUS
<1>2. Whole' = IF m.whole THEN Whole \cup {n} ELSE Whole
  BY <1>1 DEF Whole
<1>3. Cardinality(Whole) \in Nat /\ Blocks \in Nat /\ IsFiniteSet(Whole)
  BY FS_CardinalityType, BlocksAssumption DEF Fits
<1>4. /\ IsFiniteSet(Whole \cup {n})
      /\ Cardinality(Whole \cup {n}) \in {Cardinality(Whole), Cardinality(Whole) + 1}
  BY <1>3, FS_AddElement
<1>5. CASE m.whole
  BY <1>1, <1>2, <1>3, <1>4, <1>5 DEF Free, Fits
<1>6. CASE ~m.whole
  BY <1>1, <1>2, <1>3, <1>6 DEF Free, Fits
<1> QED
  BY <1>5, <1>6

\* What TypeOK says besides Types and the length of the queue.
SenderTypes == /\ synced \in BOOLEAN
               /\ callout \in {"idle", "ticking", "queued"}
               /\ burst \in 0 .. Burst

LEMMA NextFits ==
  ASSUME IInv, IInv', Fits, SenderTypes, [Next]_vars
  PROVE  Fits' /\ SenderTypes'
<1>0. queue \in Seq(Message) /\ queue' \in Seq(Message) /\ Burst \in Nat
  BY BurstAssumption DEF IInv, Types
<1>1. SenderTypes'
  <2>1. CASE StreamOne
    <3>1. synced' = synced /\ callout' = callout
      BY <2>1 DEF StreamOne
    <3>2. burst \in 0 .. Burst /\ burst > 0 /\ burst' = burst - 1
      BY <2>1 DEF StreamOne, SenderTypes
    <3>3. burst' \in 0 .. Burst
      BY <1>0, <3>2
    <3> QED
      BY <3>1, <3>3, Zenon DEF SenderTypes
  <2>2. CASE ~StreamOne
    <3>1. /\ synced' = synced \/ synced' = TRUE \/ synced' = FALSE
          /\ callout' = callout \/ callout' \in {"ticking", "queued"}
          /\ burst' \in {burst, 0, Burst}
      BY <2>2
         DEF Next, vars, sender, Synchronise, Expire, StreamTimer, StreamBreak,
             SlotDeliver, SlotLose, RestartSender, RestartReceiver
    <3>2. burst' \in 0 .. Burst
      BY <1>0, <3>1 DEF SenderTypes
    <3>3. callout' \in {"idle", "ticking", "queued"}
      BY <3>1 DEF SenderTypes
    <3> QED
      BY <3>1, <3>2, <3>3, Zenon DEF SenderTypes
  <2> QED
    BY <2>1, <2>2
<1>2. ASSUME UNCHANGED queue PROVE Fits'
  BY <1>2 DEF Fits, Whole
<1>3. CASE StreamOne
  <2> DEFINE m == [index |-> index', number |-> number', whole |-> Free > 1]
  <2>1. m \in Message
    BY <1>3 DEF IInv, Types, Message
  <2>3. (m.whole => Free > 1) /\ Free > 0
    BY <1>3 DEF StreamOne
  <2>2. queue' = Append(queue, m) \/ UNCHANGED queue
    BY <1>3 DEF StreamOne
  <2> HIDE DEF m
  <2> QED
    BY <1>0, <1>1, <1>2, <2>1, <2>2, <2>3, FitsAppend
<1>4. CASE SlotDeliver \/ SlotLose
  <2>1. queue # <<>> /\ queue' = Tail(queue)
    BY <1>4 DEF SlotDeliver, SlotLose
  <2> QED
    BY <1>0, <1>1, <2>1, FitsTail
<1>5. CASE RestartSender
  <2>1. Whole' = {} /\ queue' = <<>>
    BY <1>5 DEF RestartSender, Whole
  <2> QED
    BY <1>1, <2>1, FS_EmptySet, BlocksAssumption DEF Fits
<1> QED
  <2>1. \/ UNCHANGED queue
        \/ StreamOne \/ SlotDeliver \/ SlotLose \/ RestartSender
    BY DEF Next, vars, Synchronise, Expire, StreamTimer, StreamBreak, RestartReceiver
  <2> QED
    BY <1>1, <1>2, <1>3, <1>4, <1>5, <2>1

LEMMA InitFits == Init => Fits /\ SenderTypes
<1> SUFFICES ASSUME Init PROVE Fits /\ SenderTypes
  OBVIOUS
<1>1. Whole = {} /\ queue = <<>>
  BY DEF Init, Whole
<1> QED
  <2>1. Fits
    BY <1>1, FS_EmptySet, BlocksAssumption DEF Fits
  <2>2. synced = FALSE /\ callout = "ticking" /\ burst = 0 /\ Burst \in Nat
    BY BurstAssumption DEF Init
  <2>3. burst \in 0 .. Burst
    BY <2>2
  <2>4. SenderTypes
    BY <2>2, <2>3, Zenon DEF SenderTypes
  <2> QED
    BY <2>1, <2>4

\* Whatever fails for want of memory, the messages waiting to be sent fit the
\* blocks there are, and every variable keeps its type (stream_timer).
THEOREM StreamTypeCorrect == Spec => []TypeOK
<1>1. IInv /\ [Next]_vars => IInv'
  BY NextIInv
<1>2. IInv /\ IInv' /\ Fits /\ SenderTypes /\ [Next]_vars => Fits' /\ SenderTypes'
  BY NextFits
<1>3. IInv /\ Fits /\ SenderTypes => TypeOK
  <2> SUFFICES ASSUME IInv, Fits, SenderTypes PROVE TypeOK
    OBVIOUS
  <2>1. Len(queue) \in Nat /\ Cardinality(Whole) \in Nat
          /\ Len(queue) + Cardinality(Whole) <= Blocks
    BY FS_CardinalityType DEF IInv, Types, Fits
  <2>2. Len(queue) <= Blocks
    BY <2>1, BlocksAssumption
  <2> QED
    BY <2>2 DEF TypeOK, IInv, Types, SenderTypes
<1> QED
  BY InitIInv, InitFits, <1>1, <1>2, <1>3, PTL DEF Spec
=============================================================================
