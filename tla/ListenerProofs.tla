--------------------------- MODULE ListenerProofs ---------------------------
(***************************************************************************)
(* Proofs about the sniffer, for any number of receivers, any lengths and  *)
(* any pool: a line shows the frame its packet was received with and, if   *)
(* they were asked for, its accumulator data; nothing that is copied into  *)
(* the chain later reaches into the frame; and no block of the pool is     *)
(* lost.                                                                   *)
(***************************************************************************)
EXTENDS Listener, FiniteSetTheorems, TLAPS

\* The cells of a packet.
Cell == {"data", "diag", "cir"} \X Frame \X Receiver \X Nat

\* The first cells of the chain are those of the frame.
HoldsFrame(cells, f, n) ==
  /\ cells \in Seq(Cell)
  /\ Len(cells) >= n
  /\ \A i \in 1 .. n : cells[i] = <<"data", f, 0, i>>

\* Behind the frame are the accumulator data of all receivers.
HoldsCir(cells, f, n) ==
  \A r \in Receiver, j \in 1 .. CirLen :
    /\ n + (r * CirLen + j) <= Len(cells)
    /\ cells[n + (r * CirLen + j)] = <<"cir", f, r, j>>

Sniffed == {p \in Packet : /\ HoldsFrame(p.cells, p.frame, p.dlen)
                           /\ p.acc => HoldsCir(p.cells, p.frame, p.dlen)}

IInv ==
  /\ queue \in Seq(Sniffed)
  /\ pc = "print" => om \in Sniffed
  /\ PrintsTheFrame

LEMMA InitIInv == Init => IInv
BY DEF Init, IInv, PrintsTheFrame

-----------------------------------------------------------------------------
(***************************************************************************)
(* Places in a row of pieces of one size.                                  *)
(***************************************************************************)

LEMMA DivMod ==
  ASSUME NEW a \in Int, NEW n \in Nat \ {0}
  PROVE  /\ a \div n \in Int /\ a % n \in 0 .. n - 1
         /\ a = n * (a \div n) + (a % n)
OBVIOUS

LEMMA Multiple ==
  ASSUME NEW n \in Nat \ {0}, NEW z \in Int
  PROVE  /\ n * z \in Int
         /\ z >= 1 => n * z >= n
         /\ z <= -1 => n * z <= -n
OBVIOUS

\* A multiple is as large as what it is a multiple of is.
LEMMA Quotient ==
  ASSUME NEW a \in Int, NEW n \in Nat \ {0}, NEW q \in Int
  PROVE  n * q <= a <=> q <= a \div n
<1> DEFINE z == (a \div n) - q
<1>1. a \div n \in Int /\ a % n \in 0 .. n - 1 /\ a = n * (a \div n) + (a % n)
  BY DivMod
<1>2. n * z = n * (a \div n) - n * q /\ z \in Int /\ n * q \in Int
  BY <1>1
<1>3. a - n * q = n * z + (a % n) /\ n * z \in Int
  BY <1>1, <1>2
<1>4. (z >= 1 => n * z >= n) /\ (z <= -1 => n * z <= -n) /\ (z = 0 => n * z = 0)
  BY <1>2, Multiple
<1>5. (z >= 0 <=> q <= a \div n) /\ (z >= 1 \/ z = 0 \/ z <= -1)
  BY <1>1
<1> HIDE DEF z
<1> QED
  BY <1>1, <1>2, <1>3, <1>4, <1>5

LEMMA DivUnique ==
  ASSUME NEW n \in Nat \ {0}, NEW q \in Int, NEW r \in 0 .. n - 1
  PROVE  (n * q + r) \div n = q /\ (n * q + r) % n = r
OBVIOUS

\* Every place is one of a receiver's piece,
LEMMA PlaceIn ==
  ASSUME NEW size \in Nat \ {0}, NEW i \in 1 .. Receivers * size
  PROVE  (i - 1) \div size \in Receiver /\ ((i - 1) % size) + 1 \in Nat
<1>1. Receivers \in Nat \ {0} /\ Receivers * size \in Nat /\ i - 1 \in Nat
  BY ListenerAssumption
<1>2. /\ (i - 1) \div size \in Int /\ (i - 1) % size \in 0 .. size - 1
      /\ size * 0 <= i - 1 <=> 0 <= (i - 1) \div size
      /\ size * Receivers <= i - 1 <=> Receivers <= (i - 1) \div size
  <2> DEFINE a == i - 1
  <2>1. a \in Int /\ Receivers \in Int /\ 0 \in Int
    BY <1>1
  <2> HIDE DEF a
  <2>2. a \div size \in Int /\ a % size \in 0 .. size - 1
    BY <2>1, DivMod
  <2>3. size * 0 <= a <=> 0 <= a \div size
    BY ONLY size \in Nat \ {0}, <2>1, Quotient
  <2>4. size * Receivers <= a <=> Receivers <= a \div size
    BY ONLY size \in Nat \ {0}, <2>1, Quotient
  <2> QED
    BY <2>2, <2>3, <2>4 DEF a
<1>3. size * 0 = 0 /\ size * Receivers = Receivers * size
  BY <1>1
<1> QED
  BY <1>1, <1>2, <1>3 DEF Receiver

\* and the j-th of the r-th is where one looks for it.
LEMMA PlaceOf ==
  ASSUME NEW size \in Nat \ {0}, NEW r \in Receiver, NEW j \in 1 .. size
  PROVE  /\ r * size + j \in 1 .. Receivers * size
         /\ ((r * size + j) - 1) \div size = r
         /\ (((r * size + j) - 1) % size) + 1 = j
<1>1. /\ Receivers \in Nat \ {0} /\ Receivers * size \in Nat
      /\ r \in 0 .. Receivers - 1 /\ r * size \in Nat
  BY ListenerAssumption DEF Receiver
<1>2. size * r \in Nat /\ size * r = r * size /\ (r * size + j) - 1 = size * r + (j - 1)
  BY <1>1
<1>3. (Receivers - r) * size = Receivers * size - r * size
      /\ (Receivers - r) * size >= size
  <2>1. Receivers - r \in Int /\ Receivers - r >= 1
    BY <1>1
  <2>2. size * (Receivers - r) >= size /\ size * (Receivers - r) = (Receivers - r) * size
    BY <2>1, Multiple
  <2> QED
    BY <1>1, <2>2
<1>4. (size * r + (j - 1)) \div size = r /\ (size * r + (j - 1)) % size = j - 1
  <2>1. j - 1 \in 0 .. size - 1 /\ r \in Int
    BY <1>1
  <2> QED
    BY <2>1, DivUnique
<1> QED
  BY <1>1, <1>2, <1>3, <1>4

-----------------------------------------------------------------------------
LEMMA FunctionIsSequence ==
  ASSUME NEW S, NEW n \in Nat, NEW F \in [1 .. n -> S]
  PROVE  F \in Seq(S) /\ Len(F) = n
OBVIOUS

\* os_mbuf_copyinto leaves alone what lies before the offset, and puts the piece
\* there.
LEMMA CopyIntoKeeps ==
  ASSUME NEW S, NEW cells \in Seq(S), NEW piece \in Seq(S),
         NEW offset \in 0 .. Len(cells)
  PROVE  /\ CopyInto(cells, offset, piece) \in Seq(S)
         /\ Len(CopyInto(cells, offset, piece)) >= Len(cells)
         /\ \A i \in 1 .. offset :
              CopyInto(cells, offset, piece)[i] = cells[i]
         /\ \A i \in 1 .. Len(piece) :
              /\ offset + i <= Len(CopyInto(cells, offset, piece))
              /\ CopyInto(cells, offset, piece)[offset + i] = piece[i]
<1> DEFINE end == offset + Len(piece)
           len == IF end > Len(cells) THEN end ELSE Len(cells)
           copy == [i \in 1 .. len |->
                      IF i \in offset + 1 .. end THEN piece[i - offset]
                                                 ELSE cells[i]]
<1>1. end \in Nat /\ len \in Nat /\ len >= Len(cells) /\ len >= offset
      /\ (\A i \in 1 .. len : i <= end \/ i <= Len(cells))
  OBVIOUS
<1>2. \A i \in 1 .. len :
        (IF i \in offset + 1 .. end THEN piece[i - offset] ELSE cells[i]) \in S
  BY <1>1
<1>3. copy \in Seq(S) /\ Len(copy) = len
  <2> HIDE DEF len, end
  <2>1. copy \in [1 .. len -> S]
    BY <1>2
  <2> HIDE DEF copy
  <2> QED
    BY <1>1, <2>1, FunctionIsSequence
<1>4. \A i \in 1 .. offset : copy[i] = cells[i]
  BY <1>1
<1>5. CopyInto(cells, offset, piece) = copy
  BY DEF CopyInto
<1>6. \A i \in 1 .. Len(piece) : offset + i <= len /\ copy[offset + i] = piece[i]
  BY <1>1
<1> HIDE DEF copy, len, end
<1> QED
  BY <1>1, <1>3, <1>4, <1>5, <1>6

\* The frame stays where it is when what belongs to the receivers is copied to
\* a place behind it.
LEMMA CopyPiecesKeeps ==
  ASSUME NEW f \in Frame, NEW n \in Nat, NEW cells, HoldsFrame(cells, f, n),
         NEW kind \in {"diag", "cir"}, NEW size \in Nat \ {0}
  PROVE  /\ HoldsFrame(CopyPieces(cells, n, kind, f, size), f, n)
         /\ \A r \in Receiver, j \in 1 .. size :
              /\ n + (r * size + j) <= Len(CopyPieces(cells, n, kind, f, size))
              /\ CopyPieces(cells, n, kind, f, size)[n + (r * size + j)]
                   = <<kind, f, r, j>>
<1> DEFINE piece == [i \in 1 .. Receivers * size |->
                       <<kind, f, (i - 1) \div size, ((i - 1) % size) + 1>>]
<1>1. Receivers * size \in Nat
  BY ListenerAssumption
<1>2. ASSUME NEW i \in 1 .. Receivers * size
      PROVE  <<kind, f, (i - 1) \div size, ((i - 1) % size) + 1>> \in Cell
  BY PlaceIn DEF Cell
<1>3. piece \in Seq(Cell)
  <2>1. piece \in [1 .. Receivers * size -> Cell]
    BY <1>2
  <2> HIDE DEF piece
  <2> QED
    BY <1>1, <2>1, FunctionIsSequence
<1>4. CopyPieces(cells, n, kind, f, size) = CopyInto(cells, n, piece)
  BY DEF CopyPieces
<1>5. cells \in Seq(Cell) /\ n \in 0 .. Len(cells)
  BY DEF HoldsFrame
<1>6. ASSUME NEW r \in Receiver, NEW j \in 1 .. size
      PROVE  /\ r * size + j \in 1 .. Len(piece)
             /\ piece[r * size + j] = <<kind, f, r, j>>
  <2>1. Len(piece) = Receivers * size
    BY <1>1, <1>2
  <2> QED
    BY <1>1, <2>1, PlaceOf
<1> HIDE DEF piece
<1>7. /\ CopyInto(cells, n, piece) \in Seq(Cell)
      /\ Len(CopyInto(cells, n, piece)) >= Len(cells)
      /\ \A i \in 1 .. n : CopyInto(cells, n, piece)[i] = cells[i]
      /\ \A i \in 1 .. Len(piece) :
           /\ n + i <= Len(CopyInto(cells, n, piece))
           /\ CopyInto(cells, n, piece)[n + i] = piece[i]
  BY ONLY <1>3, <1>5, CopyIntoKeeps
<1>8. HoldsFrame(CopyInto(cells, n, piece), f, n)
  BY <1>5, <1>7 DEF HoldsFrame
<1>9. ASSUME NEW r \in Receiver, NEW j \in 1 .. size
      PROVE  /\ n + (r * size + j) <= Len(CopyInto(cells, n, piece))
             /\ CopyInto(cells, n, piece)[n + (r * size + j)] = <<kind, f, r, j>>
  BY <1>6, <1>7
<1> QED
  BY <1>4, <1>8, <1>9

\* What rx_complete_cb queues begins with the frame, and goes on with the
\* accumulator data if samples are asked for.
LEMMA WithCirHoldsFrame ==
  ASSUME NEW f \in Frame, NEW n \in DataLens
  PROVE  /\ HoldsFrame(WithCir(f, n), f, n)
         /\ Cir /\ samples => HoldsCir(WithCir(f, n), f, n)
<1>1. n \in Nat /\ DiagLen \in Nat \ {0} /\ CirLen \in Nat \ {0}
  BY ListenerAssumption
<1>2. HoldsFrame(Data(f, n), f, n)
  <2>1. Data(f, n) = [i \in 1 .. n |-> <<"data", f, 0, i>>]
    BY DEF Data, Piece
  <2>2. Data(f, n) \in Seq(Cell) /\ Len(Data(f, n)) = n
    <3>1. 0 \in Receiver
      BY ListenerAssumption DEF Receiver
    <3>2. Data(f, n) \in [1 .. n -> Cell]
      BY <1>1, <2>1, <3>1 DEF Cell
    <3> QED
      BY <1>1, <3>2, FunctionIsSequence
  <2> QED
    BY <1>1, <2>1, <2>2 DEF HoldsFrame
<1>3. HoldsFrame(Filled(f, n), f, n)
  BY <1>1, <1>2, CopyPiecesKeeps DEF Filled
<1>4. CASE Cir /\ samples
  <2>1. WithCir(f, n) = CopyPieces(Filled(f, n), n, "cir", f, CirLen)
    BY <1>4 DEF WithCir, CirOffset
  <2> QED
    BY <1>1, <1>3, <2>1, CopyPiecesKeeps DEF HoldsCir
<1>5. CASE ~(Cir /\ samples)
  BY <1>3, <1>5 DEF WithCir
<1> QED
  BY <1>4, <1>5

LEMMA QueuedIsSniffed ==
  ASSUME NEW f \in Frame, NEW n \in DataLens
  PROVE  [frame |-> f, dlen |-> n, diagOffset |-> n, acc |-> Cir /\ samples,
          cells |-> WithCir(f, n)] \in Sniffed
<1> DEFINE p == [frame |-> f, dlen |-> n, diagOffset |-> n,
                 acc |-> Cir /\ samples, cells |-> WithCir(f, n)]
<1>1. WithCir(f, n) \in Seq(Cell) /\ n \in Nat /\ (Cir /\ samples) \in BOOLEAN
  BY WithCirHoldsFrame, ListenerAssumption DEF HoldsFrame
<1>2. p \in Packet
  BY <1>1 DEF Packet, Cell
<1> QED
  BY <1>2, WithCirHoldsFrame DEF Sniffed

-----------------------------------------------------------------------------
LEMMA NextIInv ==
  ASSUME IInv, [Next]_vars
  PROVE  IInv'
<1> USE DEF IInv
<1>1. ASSUME NEW f \in Frame, NEW n \in DataLens, RxQueued(f, n)
      PROVE  IInv'
  <2> DEFINE p == [frame |-> f, dlen |-> n, diagOffset |-> n,
                   acc |-> Cir /\ samples, cells |-> WithCir(f, n)]
  <2>1. queue' = Append(queue, p) /\ UNCHANGED <<om, pc, out>>
    BY <1>1 DEF RxQueued, Put
  <2>2. p \in Sniffed
    BY QueuedIsSniffed
  <2> HIDE DEF p
  <2> QED
    BY <2>1, <2>2 DEF PrintsTheFrame
<1>2. CASE MqueueGet
  <2>1. Head(queue) \in Sniffed /\ Tail(queue) \in Seq(Sniffed)
    BY <1>2 DEF MqueueGet
  <2> QED
    BY <1>2, <2>1 DEF MqueueGet, PrintsTheFrame
<1>3. CASE PrintLine
  <2>1. om \in Sniffed /\ UNCHANGED queue /\ pc' = "drain"
    BY <1>3 DEF PrintLine, EndMsg
  <2>2. out'.of = om /\ out'.data = SubSeq(om.cells, 1, om.dlen)
    BY <1>3 DEF PrintLine
  <2>3. /\ om.cells \in Seq(Cell) /\ om.dlen \in Nat /\ om.dlen <= Len(om.cells)
        /\ \A i \in 1 .. om.dlen : om.cells[i] = <<"data", om.frame, 0, i>>
    BY <2>1, ListenerAssumption DEF Sniffed, Packet, HoldsFrame
  <2>4. SubSeq(om.cells, 1, om.dlen) = [i \in 1 .. om.dlen |-> om.cells[i]]
    BY <2>3
  <2>5. SubSeq(om.cells, 1, om.dlen) = Data(om.frame, om.dlen)
    BY <2>3, <2>4 DEF Data, Piece
  <2> QED
    BY <2>1, <2>2, <2>5 DEF PrintsTheFrame
<1>4. CASE DispatchRx \/ DrainEnd \/ PrintSkipped \/ PrintAsserts
  BY <1>4 DEF DispatchRx, DrainEnd, PrintSkipped, PrintAsserts, EndMsg,
              PrintsTheFrame
<1>5. ASSUME NEW f \in Frame, NEW n \in DataLens,
             RxDropped(f, n) \/ RxAsserts(f, n)
      PROVE  IInv'
  BY <1>5 DEF RxDropped, RxAsserts, PrintsTheFrame
<1>6. ASSUME NEW s \in BOOLEAN, NEW v \in SUBSET {"diag", "cir"},
             LstnrCommit(s, v)
      PROVE  IInv'
  BY <1>6 DEF LstnrCommit, PrintsTheFrame
<1>7. CASE UNCHANGED vars
  BY <1>7 DEF vars, PrintsTheFrame
<1> QED
  BY <1>1, <1>2, <1>3, <1>4, <1>5, <1>6, <1>7
     DEF Next, RxComplete, ProcessRxDataQueue

\* The line of a packet shows the frame its packet was received with: what
\* rx_complete_cb copies into the chain behind it never reaches into it.
THEOREM PrintsTheFrameCorrect == Spec => []PrintsTheFrame
<1>1. IInv /\ [Next]_vars => IInv'
  BY NextIInv
<1>2. IInv => PrintsTheFrame
  BY DEF IInv
<1> QED
  BY InitIInv, <1>1, <1>2, PTL DEF Spec

-----------------------------------------------------------------------------
(***************************************************************************)
(* The accumulator data.                                                   *)
(***************************************************************************)

\* The definition of ReadEach has a meaning: what is read for a receiver is
\* what os_mbuf_copydata makes of what was read for the one before.  Where the
\* chain is too short for a receiver, the last one before it that got a cell
\* counts.
LEMMA ReadEachIs ==
  ASSUME NEW offset \in Nat, NEW size \in Nat \ {0}, NEW old,
         om.cells \in Seq(Cell)
  PROVE  \A r \in Receiver :
           ReadEach(offset, size, old)[r] =
             CopyData(om.cells, offset + r * size, size,
                      IF r = 0 THEN old ELSE ReadEach(offset, size, old)[r - 1])
<1> DEFINE L == Len(om.cells)
           q(i) == (L - (offset + i)) \div size
           m(r, i) == IF q(i) < r THEN q(i) ELSE r
           cell(r, i) == IF offset + i > L THEN old[i]
                         ELSE om.cells[(offset + m(r, i) * size) + i]
           w == [r \in Receiver |-> [i \in 1 .. size |-> cell(r, i)]]
           body(f) == [r \in Receiver |->
                         CopyData(om.cells, offset + r * size, size,
                                  IF r = 0 THEN old ELSE f[r - 1])]
<1>1. L \in Nat /\ Receiver = 0 .. Receivers - 1 /\ Receivers \in Nat \ {0}
  BY ListenerAssumption DEF Receiver
<1>2. ASSUME NEW r \in Receiver, NEW i \in 1 .. size
      PROVE  w[r][i] = IF (offset + r * size) + i <= L
                       THEN om.cells[(offset + r * size) + i]
                       ELSE (IF r = 0 THEN old ELSE w[r - 1])[i]
  <2>1. r \in Nat /\ r * size \in Nat /\ size * r = r * size
    BY <1>1
  <2>2. q(i) \in Int /\ (size * r <= L - (offset + i) <=> r <= q(i))
    <3> DEFINE a == L - (offset + i)
    <3>1. a \in Int /\ r \in Int
      BY <1>1, <2>1
    <3> HIDE DEF a
    <3>2. a \div size \in Int /\ (size * r <= a <=> r <= a \div size)
      BY ONLY size \in Nat \ {0}, <3>1, Quotient, DivMod
    <3> QED
      BY <3>2 DEF a
  <2>3. size * r <= L - (offset + i) <=> (offset + r * size) + i <= L
    BY <1>1, <2>1
  <2>4. w[r][i] = cell(r, i)
    OBVIOUS
  <2> HIDE DEF q
  <2>5. CASE (offset + r * size) + i <= L
    <3>1. m(r, i) = r /\ ~(offset + i > L)
      BY <1>1, <2>1, <2>2, <2>3, <2>5
    <3> QED
      BY <2>4, <2>5, <3>1
  <2>6. CASE ~((offset + r * size) + i <= L)
    <3>1. q(i) < r
      BY <2>2, <2>3, <2>6, <2>1
    <3>2. CASE r = 0
      <4>1. r * size = 0
        BY <3>2
      <4>2. offset + i > L
        BY <1>1, <2>6, <4>1
      <4> QED
        BY <2>4, <2>6, <3>2, <4>2
    <3>3. CASE r # 0
      <4>1. r - 1 \in Receiver
        BY <1>1, <3>3
      <4>2. m(r, i) = m(r - 1, i)
        BY <2>1, <2>2, <3>1, <3>3
      <4>3. w[r - 1][i] = cell(r - 1, i)
        BY <4>1
      <4> HIDE DEF m, w
      <4> QED
        BY <2>4, <2>6, <3>3, <4>2, <4>3
    <3> QED
      BY <3>2, <3>3
  <2> QED
    BY <2>5, <2>6
<1>3. w = body(w)
  <2>1. ASSUME NEW r \in Receiver
        PROVE  w[r] = CopyData(om.cells, offset + r * size, size,
                               IF r = 0 THEN old ELSE w[r - 1])
    <3>1. w[r] = [i \in 1 .. size |-> w[r][i]]
      OBVIOUS
    <3> HIDE DEF w
    <3> QED
      BY <1>2, <3>1 DEF CopyData
  <2>2. w = [r \in Receiver |-> w[r]]
    OBVIOUS
  <2> HIDE DEF w
  <2> QED
    BY <2>1, <2>2
<1>4. ReadEach(offset, size, old) = CHOOSE f : f = body(f)
  BY DEF ReadEach
<1>5. \E f : f = body(f)
  BY <1>3
<1>6. ReadEach(offset, size, old) = body(ReadEach(offset, size, old))
  <2> HIDE DEF body, w
  <2> QED
    BY <1>4, <1>5
<1> DEFINE read == ReadEach(offset, size, old)
<1>7. read = body(read)
  BY <1>6
<1> HIDE DEF read
<1>8. \A r \in Receiver :
        read[r] = CopyData(om.cells, offset + r * size, size,
                           IF r = 0 THEN old ELSE read[r - 1])
  BY <1>7
<1> QED
  BY <1>8 DEF read

\* A line is printed of accumulator data that are all there.
LEMMA CirPrinted ==
  ASSUME om \in Sniffed, om.acc, NEW old, NEW r \in Receiver
  PROVE  ReadEach(CirReadOffset(om), CirLen, old)[r] =
           Piece("cir", om.frame, r, CirLen)
<1>1. /\ om.dlen \in Nat /\ CirLen \in Nat \ {0}
      /\ om.cells \in Seq(Cell) /\ HoldsCir(om.cells, om.frame, om.dlen)
  BY ListenerAssumption DEF Sniffed, Packet, HoldsFrame
<1>2. ReadEach(CirReadOffset(om), CirLen, old)[r] =
        CopyData(om.cells, om.dlen + r * CirLen, CirLen,
                 IF r = 0 THEN old
                 ELSE ReadEach(CirReadOffset(om), CirLen, old)[r - 1])
  <2>1. CirReadOffset(om) = om.dlen
    BY DEF CirReadOffset
  <2> DEFINE offset == om.dlen
             read == ReadEach(offset, CirLen, old)
  <2>2. offset \in Nat /\ CirLen \in Nat \ {0} /\ om.cells \in Seq(Cell)
    BY <1>1
  <2> HIDE DEF offset
  <2>3. \A k \in Receiver :
          read[k] = CopyData(om.cells, offset + k * CirLen, CirLen,
                             IF k = 0 THEN old ELSE read[k - 1])
    <3>1. ASSUME NEW o \in Nat, NEW size \in Nat \ {0}, om.cells \in Seq(Cell)
          PROVE  \A k \in Receiver :
                   ReadEach(o, size, old)[k] =
                     CopyData(om.cells, o + k * size, size,
                              IF k = 0 THEN old ELSE ReadEach(o, size, old)[k - 1])
      BY ONLY <3>1, ReadEachIs
    <3> QED
      BY ONLY <2>2, <3>1
  <2> HIDE DEF read
  <2>4. read[r] = CopyData(om.cells, offset + r * CirLen, CirLen,
                           IF r = 0 THEN old ELSE read[r - 1])
    BY <2>3
  <2> QED
    BY <2>1, <2>4 DEF read, offset
<1>3. ASSUME NEW i \in 1 .. CirLen
      PROVE  /\ (om.dlen + r * CirLen) + i <= Len(om.cells)
             /\ om.cells[(om.dlen + r * CirLen) + i] = <<"cir", om.frame, r, i>>
  <2>1. r * CirLen \in Nat
    BY <1>1 DEF Receiver
  <2>2. (om.dlen + r * CirLen) + i = om.dlen + (r * CirLen + i)
    BY <1>1, <2>1
  <2> QED
    BY <1>1, <2>2 DEF HoldsCir
<1> QED
  BY <1>2, <1>3 DEF CopyData, Piece

LEMMA NextCir ==
  ASSUME IInv, CirIsOwn, [Next]_vars
  PROVE  CirIsOwn'
<1>1. CASE PrintLine
  <2>1. om \in Sniffed /\ out'.of = om
    BY <1>1 DEF PrintLine, IInv
  <2>2. out'.cir = IF Cir /\ "cir" \in verbose
                   THEN ReadEach(CirReadOffset(om), CirLen, tmpCir) ELSE <<>>
    BY <1>1 DEF PrintLine
  <2>3. ASSUME om.acc, NEW r \in Receiver
        PROVE  ReadEach(CirReadOffset(om), CirLen, tmpCir)[r] =
                 Piece("cir", om.frame, r, CirLen)
    BY <2>1, <2>3, CirPrinted
  <2> QED
    BY <2>1, <2>2, <2>3 DEF CirIsOwn
<1>2. CASE UNCHANGED out
  BY <1>2 DEF CirIsOwn
<1>3. PrintLine \/ UNCHANGED out
  BY DEF Next, vars, RxComplete, ProcessRxDataQueue, RxQueued, RxDropped, RxAsserts,
         DispatchRx, MqueueGet, DrainEnd, PrintSkipped, PrintAsserts, LstnrCommit
<1> QED
  BY <1>1, <1>2, <1>3

\* The line of a packet received while samples were asked for shows the
\* accumulator data of that packet for every receiver, although they are read
\* at an offset the packet does not carry.
THEOREM CirIsOwnCorrect == Spec => []CirIsOwn
<1>1. IInv /\ [Next]_vars => IInv'
  BY NextIInv
<1>2. IInv /\ CirIsOwn /\ [Next]_vars => CirIsOwn'
  BY NextCir
<1>3. Init => CirIsOwn
  BY DEF Init, CirIsOwn, NoLine, NoPacket
<1> QED
  BY InitIInv, <1>1, <1>2, <1>3, PTL DEF Spec

-----------------------------------------------------------------------------
(***************************************************************************)
(* The blocks of the pool, counted without induction: the blocks of the    *)
(* packets on rxpkt_q are columns side by side; a column is added behind   *)
(* the last, and the first one taken away.                                 *)
(***************************************************************************)

\* What is held of a row of columns: h[i] of the i-th.
Column(i, m) == {i} \X (1 .. m)
Held(h) == UNION {Column(i, h[i]) : i \in DOMAIN h}

LEMMA ColumnSize ==
  ASSUME NEW i, NEW m \in Nat
  PROVE  IsFiniteSet(Column(i, m)) /\ Cardinality(Column(i, m)) = m
<1>1. IsFiniteSet({i}) /\ Cardinality({i}) = 1
  BY FS_Singleton
<1>2. IsFiniteSet(1 .. m) /\ Cardinality(1 .. m) = m
  BY FS_Interval
<1>3. /\ IsFiniteSet({i} \X (1 .. m))
      /\ Cardinality({i} \X (1 .. m)) = Cardinality({i}) * Cardinality(1 .. m)
  BY <1>1, <1>2, FS_Product
<1> QED
  BY <1>1, <1>2, <1>3 DEF Column

LEMMA HeldIs ==
  ASSUME NEW h, NEW b
  PROVE  b \in Held(h) <=>
           \E i \in DOMAIN h : \E k \in 1 .. h[i] : b = <<i, k>>
BY DEF Held, Column

\* One more column.
LEMMA HeldLast ==
  ASSUME NEW n \in Nat, NEW h \in [1 .. n + 1 -> Nat], NEW g \in [1 .. n -> Nat],
         \A i \in 1 .. n : g[i] = h[i], IsFiniteSet(Held(g))
  PROVE  /\ IsFiniteSet(Held(h))
         /\ Cardinality(Held(h)) = Cardinality(Held(g)) + h[n + 1]
<1> DEFINE c == Column(n + 1, h[n + 1])
<1>1. IsFiniteSet(c) /\ Cardinality(c) = h[n + 1] /\ h[n + 1] \in Nat
  BY ColumnSize
<1>2. Held(h) = Held(g) \cup c
  <2>1. ASSUME NEW b PROVE b \in Held(h) <=> b \in Held(g) \/ b \in c
    <3>1. b \in c <=> \E k \in 1 .. h[n + 1] : b = <<n + 1, k>>
      BY DEF Column
    <3>2. b \in Held(g) <=> \E i \in 1 .. n : \E k \in 1 .. h[i] : b = <<i, k>>
      <4>1. DOMAIN g = 1 .. n /\ \A i \in 1 .. n : g[i] = h[i]
        BY Zenon
      <4>2. b \in Held(g) <=> \E i \in DOMAIN g : \E k \in 1 .. g[i] : b = <<i, k>>
        BY ONLY DEF Held, Column
      <4> QED
        BY ONLY <4>1, <4>2, Zenon
    <3>3. b \in Held(h) <=> \E i \in 1 .. n + 1 : \E k \in 1 .. h[i] : b = <<i, k>>
      <4>1. DOMAIN h = 1 .. n + 1
        BY Zenon
      <4>2. b \in Held(h) <=> \E i \in DOMAIN h : \E k \in 1 .. h[i] : b = <<i, k>>
        BY ONLY DEF Held, Column
      <4> QED
        BY ONLY <4>1, <4>2, Zenon
    <3>4. \A i : i \in 1 .. n + 1 <=> i \in 1 .. n \/ i = n + 1
      OBVIOUS
    <3> HIDE DEF c
    <3> QED
      BY <3>1, <3>2, <3>3, <3>4
  <2> HIDE DEF c
  <2> QED
    BY <2>1
<1>3. Held(g) \cap c = {}
  <2>1. ASSUME NEW b, b \in Held(g), b \in c PROVE FALSE
    <3>1. b[1] \in 1 .. n
      BY <2>1, HeldIs
    <3>2. b[1] = n + 1
      BY <2>1 DEF Column
    <3> QED
      BY <3>1, <3>2
  <2> HIDE DEF c
  <2> QED
    BY <2>1
<1> HIDE DEF c
<1>4. Cardinality(Held(g)) \in Nat
  BY FS_CardinalityType
<1>5. Cardinality(Held(g) \cap c) = 0
  BY <1>3, FS_EmptySet
<1>6. /\ IsFiniteSet(Held(g) \cup c)
      /\ Cardinality(Held(g) \cup c) =
           Cardinality(Held(g)) + Cardinality(c) - Cardinality(Held(g) \cap c)
  BY <1>1, FS_Union
<1> QED
  BY <1>1, <1>2, <1>4, <1>5, <1>6

\* The first column is taken away.
LEMMA HeldFirst ==
  ASSUME NEW n \in Nat, NEW h \in [1 .. n + 1 -> Nat], NEW g \in [1 .. n -> Nat],
         \A i \in 1 .. n : g[i] = h[i + 1], IsFiniteSet(Held(h))
  PROVE  /\ IsFiniteSet(Held(g))
         /\ Cardinality(Held(h)) = Cardinality(Held(g)) + h[1]
<1> DEFINE c == Column(1, h[1])
           rest == Held(h) \ c
           f == [b \in rest |-> <<b[1] - 1, b[2]>>]
<1>1. IsFiniteSet(c) /\ Cardinality(c) = h[1] /\ h[1] \in Nat
  BY ColumnSize
<1>2. \A b : b \in rest <=>
               \E i \in 2 .. n + 1 : \E k \in 1 .. h[i] : b = <<i, k>>
  <2> SUFFICES ASSUME NEW b
               PROVE  b \in rest <=>
                        \E i \in 2 .. n + 1 : \E k \in 1 .. h[i] : b = <<i, k>>
    OBVIOUS
  <2>1. b \in c <=> \E k \in 1 .. h[1] : b = <<1, k>>
    BY DEF Column
  <2>2. b \in Held(h) <=> \E i \in 1 .. n + 1 : \E k \in 1 .. h[i] : b = <<i, k>>
    <3>1. DOMAIN h = 1 .. n + 1
      OBVIOUS
    <3>2. b \in Held(h) <=> \E i \in DOMAIN h : \E k \in 1 .. h[i] : b = <<i, k>>
      BY ONLY DEF Held, Column
    <3> QED
      BY ONLY <3>1, <3>2
  <2>3. \A i : i \in 1 .. n + 1 <=> i \in 2 .. n + 1 \/ i = 1
    OBVIOUS
  <2>4. \A i \in 2 .. n + 1 : i # 1
    OBVIOUS
  <2>5. b \in rest <=> b \in Held(h) /\ b \notin c
    OBVIOUS
  <2> HIDE DEF c, rest
  <2>6. ASSUME NEW i \in 2 .. n + 1, NEW k \in 1 .. h[i], b = <<i, k>>
        PROVE  b \in Held(h) /\ b \notin c
    <3>1. b[1] # 1
      BY <2>4, <2>6
    <3> QED
      BY ONLY <2>1, <2>2, <2>3, <2>6, <3>1
  <2> QED
    BY ONLY <2>1, <2>2, <2>3, <2>5, <2>6
<1>3. Held(h) \cap c = c
  <2>1. ASSUME NEW b, b \in c PROVE b \in Held(h)
    <3>1. PICK k \in 1 .. h[1] : b = <<1, k>>
      BY <2>1 DEF Column
    <3>2. 1 \in DOMAIN h
      OBVIOUS
    <3> QED
      BY <3>1, <3>2, HeldIs, Zenon
  <2> HIDE DEF c
  <2> QED
    BY <2>1
<1>4. /\ IsFiniteSet(rest)
      /\ Cardinality(rest) = Cardinality(Held(h)) - Cardinality(c)
  <2> HIDE DEF c
  <2> QED
    BY <1>3, FS_Difference
<1>5. f \in Bijection(rest, Held(g))
  <2> HIDE DEF rest
  <2>0. \A b \in rest : b[1] \in 2 .. n + 1 /\ b[2] \in 1 .. h[b[1]] /\ b = <<b[1], b[2]>>
    BY <1>2
  <2>1. \A b \in rest : <<b[1] - 1, b[2]>> \in Held(g)
    <3> SUFFICES ASSUME NEW b \in rest PROVE <<b[1] - 1, b[2]>> \in Held(g)
      OBVIOUS
    <3>1. b[1] - 1 \in 1 .. n /\ b[2] \in 1 .. g[b[1] - 1]
      BY <2>0
    <3> QED
      BY <3>1, HeldIs
  <2>2. f \in [rest -> Held(g)]
    BY <2>1
  <2>3. \A b, d \in rest : f[b] = f[d] => b = d
    <3> SUFFICES ASSUME NEW b \in rest, NEW d \in rest, f[b] = f[d] PROVE b = d
      OBVIOUS
    <3>1. b[1] - 1 = d[1] - 1 /\ b[2] = d[2]
      OBVIOUS
    <3>2. b[1] = d[1]
      BY <2>0, <3>1
    <3> QED
      BY <2>0, <3>1, <3>2
  <2>4. \A e \in Held(g) : \E b \in rest : f[b] = e
    <3> SUFFICES ASSUME NEW e \in Held(g) PROVE \E b \in rest : f[b] = e
      OBVIOUS
    <3>1. PICK i \in 1 .. n : \E k \in 1 .. g[i] : e = <<i, k>>
      BY HeldIs
    <3>5. PICK k \in 1 .. g[i] : e = <<i, k>>
      BY <3>1
    <3>2. i + 1 \in 2 .. n + 1 /\ k \in 1 .. h[i + 1] /\ (i + 1) - 1 = i
      OBVIOUS
    <3>3. <<i + 1, k>> \in rest
      BY <1>2, <3>2
    <3>4. f[<<i + 1, k>>] = <<(i + 1) - 1, k>>
      BY <3>3
    <3> HIDE DEF f
    <3> QED
      BY <3>5, <3>2, <3>3, <3>4
  <2> HIDE DEF f
  <2> QED
    BY <2>2, <2>3, <2>4 DEF Bijection, Injection, IsInjective, Surjection
<1> HIDE DEF c, rest, f
<1>6. IsFiniteSet(Held(g)) /\ Cardinality(Held(g)) = Cardinality(rest)
  <2>1. ExistsBijection(rest, Held(g))
    BY <1>5 DEF ExistsBijection
  <2> QED
    BY <1>4, <2>1, FS_Bijection
<1>7. Cardinality(Held(h)) \in Nat
  BY FS_CardinalityType
<1> QED
  BY <1>1, <1>4, <1>6, <1>7

-----------------------------------------------------------------------------
\* The blocks of each packet on rxpkt_q.
Sizes == [i \in DOMAIN queue |-> Blocks(queue[i])]

LEMMA BlocksForNat ==
  ASSUME NEW n \in Nat
  PROVE  BlocksFor(n) \in Nat
<1> DEFINE a == (n + BlockLen) - 1
<1>1. BlockLen \in Nat \ {0}
  BY ListenerAssumption
<1>2. a \in Int /\ 0 \in Int /\ BlockLen * 0 <= a /\ (n + BlockLen - 1) = a
  BY <1>1
<1> HIDE DEF a
<1>3. a \div BlockLen \in Int /\ (BlockLen * 0 <= a <=> 0 <= a \div BlockLen)
  BY ONLY <1>1, <1>2, Quotient, DivMod
<1> QED
  BY <1>2, <1>3 DEF BlocksFor

LEMMA BlocksNat ==
  ASSUME NEW p \in Sniffed
  PROVE  Blocks(p) \in Nat /\ p # NoPacket
<1>1. Len(p.cells) \in Nat /\ p.dlen \in DataLens
  BY DEF Sniffed, Packet
<1>2. p.dlen # NoPacket.dlen
  BY <1>1, ListenerAssumption DEF NoPacket
<1> QED
  BY <1>1, <1>2, BlocksForNat DEF Blocks

\* Blocks are free, in the queue, or those of the packet at hand, if there is
\* one.
PoolInv ==
  /\ free \in Nat
  /\ IsFiniteSet(BlocksQueued)
  /\ NoBlockLost
  /\ pc \in {"idle", "drain", "print"}
  /\ pc # "print" => om = NoPacket

\* os_mqueue_put adds the blocks of the packet,
LEMMA PutBlocks ==
  ASSUME queue \in Seq(Sniffed), NEW p \in Sniffed, queue' = Append(queue, p),
         IsFiniteSet(BlocksQueued)
  PROVE  /\ IsFiniteSet(BlocksQueued')
         /\ Cardinality(BlocksQueued') = Cardinality(BlocksQueued) + Blocks(p)
<1> DEFINE n == Len(queue)
<1>1. /\ n \in Nat /\ DOMAIN queue = 1 .. n /\ DOMAIN queue' = 1 .. n + 1
      /\ \A i \in 1 .. n : queue'[i] = queue[i] /\ queue[i] \in Sniffed
      /\ queue'[n + 1] = p
      /\ \A i \in 1 .. n + 1 : i \in 1 .. n \/ i = n + 1
  OBVIOUS
<1> HIDE DEF n
<1>2. \A i \in 1 .. n + 1 : queue'[i] \in Sniffed
  BY <1>1
<1>3. /\ Sizes \in [1 .. n -> Nat] /\ Sizes' \in [1 .. n + 1 -> Nat]
      /\ \A i \in 1 .. n : Sizes[i] = Sizes'[i]
      /\ Sizes'[n + 1] = Blocks(p)
  BY <1>1, <1>2, BlocksNat DEF Sizes
<1>4. BlocksQueued = Held(Sizes) /\ BlocksQueued' = Held(Sizes')
  BY DEF BlocksQueued, Held, Sizes, Column
<1>5. /\ IsFiniteSet(Held(Sizes'))
      /\ Cardinality(Held(Sizes')) = Cardinality(Held(Sizes)) + Sizes'[n + 1]
  BY <1>1, <1>3, <1>4, HeldLast
<1> QED
  BY <1>3, <1>5, <1>4

\* and os_mqueue_get takes them away.
LEMMA GetBlocks ==
  ASSUME queue \in Seq(Sniffed), queue # <<>>, queue' = Tail(queue),
         IsFiniteSet(BlocksQueued)
  PROVE  /\ IsFiniteSet(BlocksQueued')
         /\ Cardinality(BlocksQueued) =
              Cardinality(BlocksQueued') + Blocks(Head(queue))
<1> DEFINE n == Len(queue) - 1
<1>1. /\ n \in Nat /\ DOMAIN queue = 1 .. n + 1 /\ DOMAIN queue' = 1 .. n
      /\ \A i \in 1 .. n + 1 : queue[i] \in Sniffed
      /\ \A i \in 1 .. n : queue'[i] = queue[i + 1] /\ i + 1 \in 1 .. n + 1
      /\ queue[1] = Head(queue) /\ 1 \in 1 .. n + 1
  OBVIOUS
<1> HIDE DEF n
<1>2. /\ Sizes \in [1 .. n + 1 -> Nat] /\ Sizes' \in [1 .. n -> Nat]
      /\ \A i \in 1 .. n : Sizes'[i] = Sizes[i + 1]
      /\ Sizes[1] = Blocks(Head(queue))
  BY <1>1, BlocksNat DEF Sizes
<1>3. BlocksQueued = Held(Sizes) /\ BlocksQueued' = Held(Sizes')
  BY DEF BlocksQueued, Held, Sizes, Column
<1>4. /\ IsFiniteSet(Held(Sizes'))
      /\ Cardinality(Held(Sizes)) = Cardinality(Held(Sizes')) + Sizes[1]
  BY <1>1, <1>2, <1>3, HeldFirst
<1> QED
  BY <1>2, <1>4, <1>3

LEMMA NextPool ==
  ASSUME IInv, PoolInv, [Next]_vars
  PROVE  PoolInv'
<1>0. /\ free \in Nat /\ queue \in Seq(Sniffed) /\ IsFiniteSet(BlocksQueued)
      /\ Cardinality(BlocksQueued) \in Nat
  BY FS_CardinalityType DEF PoolInv, IInv
<1>1. ASSUME NEW f \in Frame, NEW n \in DataLens, RxQueued(f, n)
      PROVE  PoolInv'
  <2> DEFINE p == [frame |-> f, dlen |-> n, diagOffset |-> n,
                   acc |-> Cir /\ samples, cells |-> WithCir(f, n)]
  <2>1. /\ queue' = Append(queue, p) /\ UNCHANGED <<om, pc>>
        /\ Blocks(p) <= free /\ free' = free - Blocks(p)
    BY <1>1 DEF RxQueued, Put, Blocks
  <2>2. p \in Sniffed
    BY QueuedIsSniffed
  <2> HIDE DEF p
  <2>3. /\ IsFiniteSet(BlocksQueued')
        /\ Cardinality(BlocksQueued') = Cardinality(BlocksQueued) + Blocks(p)
    BY <1>0, <2>1, <2>2, PutBlocks
  <2>4. free' \in Nat /\ Blocks(p) \in Nat
          /\ free' + Cardinality(BlocksQueued') = free + Cardinality(BlocksQueued)
    BY <1>0, <2>1, <2>2, <2>3, BlocksNat
  <2> QED
    BY <2>1, <2>3, <2>4 DEF PoolInv, NoBlockLost, Blocks
<1>2. CASE MqueueGet
  <2>1. /\ queue # <<>> /\ queue' = Tail(queue) /\ om' = Head(queue)
        /\ pc = "drain" /\ pc' = "print" /\ free' = free /\ om = NoPacket
    BY <1>2 DEF MqueueGet, PoolInv
  <2>2. om' \in Sniffed
    BY <1>0, <2>1
  <2>3. /\ IsFiniteSet(BlocksQueued')
        /\ Cardinality(BlocksQueued) = Cardinality(BlocksQueued') + Blocks(om')
    BY <1>0, <2>1, GetBlocks
  <2>4. Cardinality(BlocksQueued') \in Nat /\ Blocks(om') \in Nat /\ om' # NoPacket
    BY <2>2, <2>3, FS_CardinalityType, BlocksNat
  <2>5. free + Cardinality(BlocksQueued) + 0 = NumBlocks
    BY <2>1 DEF PoolInv, NoBlockLost
  <2>6. free' + Cardinality(BlocksQueued') + Blocks(om') = NumBlocks
    BY <1>0, <2>1, <2>3, <2>4, <2>5
  <2>7. NoBlockLost'
    BY <2>4, <2>6 DEF NoBlockLost, Blocks
  <2> QED
    BY <1>0, <2>1, <2>3, <2>7 DEF PoolInv
<1>3. CASE PrintLine \/ PrintSkipped
  <2>1. /\ UNCHANGED queue /\ om' = NoPacket /\ pc = "print" /\ pc' = "drain"
        /\ free' = free + Blocks(om)
    BY <1>3 DEF PrintLine, PrintSkipped, EndMsg
  <2>2. om # NoPacket /\ Blocks(om) \in Nat
    BY <2>1, BlocksNat DEF IInv
  <2>3. free + Cardinality(BlocksQueued) + Blocks(om) = NumBlocks
    BY <2>2 DEF PoolInv, NoBlockLost
  <2>4. BlocksQueued' = BlocksQueued
    BY <2>1 DEF BlocksQueued, Blocks
  <2>5. free' + Cardinality(BlocksQueued') + 0 = NumBlocks
    BY <1>0, <2>1, <2>2, <2>3, <2>4
  <2> QED
    BY <1>0, <2>1, <2>2, <2>4, <2>5 DEF PoolInv, NoBlockLost
<1>4. ASSUME UNCHANGED <<free, queue, om>>, pc' \in {"idle", "drain", "print"},
             pc' # "print" => om = NoPacket
      PROVE  PoolInv'
  <2>1. BlocksQueued' = BlocksQueued
    BY <1>4 DEF BlocksQueued, Blocks
  <2> QED
    BY <1>0, <1>4, <2>1 DEF PoolInv, NoBlockLost, Blocks
<1>5. CASE DispatchRx \/ DrainEnd \/ PrintAsserts
  BY <1>4, <1>5 DEF DispatchRx, DrainEnd, PrintAsserts, PoolInv
<1>6. ASSUME NEW f \in Frame, NEW n \in DataLens,
             RxDropped(f, n) \/ RxAsserts(f, n)
      PROVE  PoolInv'
  BY <1>4, <1>6 DEF RxDropped, RxAsserts, GivenBack, PoolInv
<1>7. ASSUME NEW s \in BOOLEAN, NEW v \in SUBSET {"diag", "cir"},
             LstnrCommit(s, v)
      PROVE  PoolInv'
  BY <1>4, <1>7 DEF LstnrCommit, PoolInv
<1>8. CASE UNCHANGED vars
  BY <1>4, <1>8 DEF vars, PoolInv
<1> QED
  BY <1>1, <1>2, <1>3, <1>5, <1>6, <1>7, <1>8
     DEF Next, RxComplete, ProcessRxDataQueue

LEMMA InitPool == Init => PoolInv
<1> SUFFICES ASSUME Init PROVE PoolInv
  OBVIOUS
<1>1. /\ queue = <<>> /\ om = NoPacket /\ free = NumBlocks /\ pc = "idle"
      /\ NumBlocks \in Nat
  BY ListenerAssumption DEF Init
<1>2. BlocksQueued = {}
  BY <1>1 DEF BlocksQueued
<1> QED
  BY <1>1, <1>2, FS_EmptySet DEF PoolInv, NoBlockLost

\* However many frames come in while lines are printed, every block of the pool
\* is free, in a chain on rxpkt_q, or in the chain process_rx_data_queue holds.
THEOREM NoBlockLostCorrect == Spec => []NoBlockLost
<1>1. IInv /\ [Next]_vars => IInv'
  BY NextIInv
<1>2. IInv /\ PoolInv /\ [Next]_vars => PoolInv'
  BY NextPool
<1>3. PoolInv => NoBlockLost
  BY DEF PoolInv
<1> QED
  BY InitIInv, InitPool, <1>1, <1>2, <1>3, PTL DEF Spec

-----------------------------------------------------------------------------
\* Packets share events: one that comes while process_rx_data_queue runs posts an
\* event that is pending already, or that finds the queue empty.  Still no packet
\* is on rxpkt_q without an event that will have it printed, or a
\* process_rx_data_queue that has yet to look at the queue again.
PacketHasEvent == queue # <<>> => event \/ pc # "idle"

\* Whatever order frames, events and lines come in, for any pool, no packet is on
\* rxpkt_q that no event and no process_rx_data_queue will get to.
THEOREM PacketHasEventCorrect == Spec => []PacketHasEvent
<1> USE DEF PacketHasEvent
<1>1. Init => PacketHasEvent
  BY DEF Init
<1>2. PacketHasEvent /\ [Next]_vars => PacketHasEvent'
  <2> SUFFICES ASSUME PacketHasEvent, [Next]_vars PROVE PacketHasEvent'
    OBVIOUS
  <2>1. ASSUME NEW f \in Frame, NEW n \in DataLens, RxQueued(f, n)
        PROVE  PacketHasEvent'
    BY <2>1 DEF RxQueued, Put
  <2>2. ASSUME NEW f \in Frame, NEW n \in DataLens, RxDropped(f, n) \/ RxAsserts(f, n)
        PROVE  PacketHasEvent'
    BY <2>2 DEF RxDropped, RxAsserts
  <2>3. CASE DispatchRx \/ MqueueGet \/ PrintLine \/ PrintSkipped
    BY <2>3 DEF DispatchRx, MqueueGet, PrintLine, PrintSkipped, EndMsg
  <2>4. CASE DrainEnd
    BY <2>4 DEF DrainEnd
  <2>5. CASE PrintAsserts
    BY <2>5 DEF PrintAsserts
  <2>6. ASSUME NEW s \in BOOLEAN, NEW v \in SUBSET {"diag", "cir"}, LstnrCommit(s, v)
        PROVE  PacketHasEvent'
    BY <2>6 DEF LstnrCommit
  <2>7. CASE UNCHANGED vars
    BY <2>7 DEF vars
  <2> QED
    BY <2>1, <2>2, <2>3, <2>4, <2>5, <2>6, <2>7
       DEF Next, RxComplete, ProcessRxDataQueue
<1> QED
  BY <1>1, <1>2, PTL DEF Spec

-----------------------------------------------------------------------------
(***************************************************************************)
(* Types.                                                                  *)
(***************************************************************************)

\* The flags and the settings, and the static buffers, which keep their length.
Flags ==
  /\ event \in BOOLEAN
  /\ samples \in BOOLEAN
  /\ verbose \subseteq {"diag", "cir"}
  /\ halted \in BOOLEAN
Buffers ==
  /\ Len(diagBuffer) = DiagLen
  /\ Len(tmpCir) = CirLen
  /\ out.of \in Packet \cup {NoPacket}

LEMMA InitFlags == Init => Flags /\ Buffers
<1> SUFFICES ASSUME Init PROVE Flags /\ Buffers
  OBVIOUS
<1>1. Flags
  BY DEF Init, Flags
<1>2. DiagLen \in Nat /\ CirLen \in Nat
  BY ListenerAssumption
<1>3. /\ diagBuffer = [i \in 1 .. DiagLen |-> Erased]
      /\ tmpCir = [i \in 1 .. CirLen |-> Erased]
      /\ out.of = NoPacket
  BY DEF Init, NoLine
<1>4. diagBuffer \in [1 .. DiagLen -> {Erased}] /\ tmpCir \in [1 .. CirLen -> {Erased}]
  BY <1>3
<1>5. Len(diagBuffer) = DiagLen /\ Len(tmpCir) = CirLen
  BY <1>2, <1>4, FunctionIsSequence
<1> QED
  BY <1>1, <1>3, <1>5 DEF Buffers

\* os_mbuf_copydata fills the buffer it is given and no more.
LEMMA CopyDataLen ==
  ASSUME NEW cells, NEW offset, NEW size \in Nat, NEW old
  PROVE  Len(CopyData(cells, offset, size, old)) = size
<1> DEFINE c == CopyData(cells, offset, size, old)
<1>1. c \in [1 .. size -> {c[i] : i \in 1 .. size}]
  BY DEF CopyData
<1> HIDE DEF c
<1>2. Len(c) = size
  BY <1>1, FunctionIsSequence
<1> QED
  BY <1>2 DEF c

LEMMA ReadEachLen ==
  ASSUME NEW offset \in Nat, NEW size \in Nat \ {0}, NEW old,
         om.cells \in Seq(Cell)
  PROVE  Len(ReadEach(offset, size, old)[Receivers - 1]) = size
<1>1. Receivers - 1 \in Receiver
  BY ListenerAssumption DEF Receiver
<1> DEFINE read == ReadEach(offset, size, old)
           r == Receivers - 1
<1>2. \A k \in Receiver :
        read[k] = CopyData(om.cells, offset + k * size, size,
                           IF k = 0 THEN old ELSE read[k - 1])
  BY ReadEachIs
<1> HIDE DEF read, r
<1>3. read[r] = CopyData(om.cells, offset + r * size, size,
                         IF r = 0 THEN old ELSE read[r - 1])
  BY <1>1, <1>2 DEF r
<1>4. Len(read[r]) = size
  BY <1>3, CopyDataLen
<1> QED
  BY <1>4 DEF read, r

LEMMA NextFlags ==
  ASSUME IInv, Flags, Buffers, [Next]_vars
  PROVE  Flags' /\ Buffers'
<1>1. Flags'
  <2>1. /\ event' = event \/ event' = TRUE \/ event' = FALSE
        /\ halted' = halted \/ halted' = TRUE
        /\ \/ UNCHANGED conf
           \/ samples' \in BOOLEAN /\ verbose' \in SUBSET {"diag", "cir"}
    BY DEF Next, vars, conf, RxComplete, ProcessRxDataQueue, RxQueued, Put, RxDropped,
           RxAsserts, DispatchRx, MqueueGet, DrainEnd, PrintLine, PrintSkipped,
           PrintAsserts, LstnrCommit
  <2> QED
    BY <2>1, Zenon DEF Flags, conf
<1>2. CASE PrintLine
  <2> DEFINE diag == ReadEach(om.dlen + om.diagOffset, DiagLen, diagBuffer)
             cir == ReadEach(CirReadOffset(om), CirLen, tmpCir)
  <2>1. /\ diagBuffer' \in {diag[Receivers - 1], diagBuffer}
        /\ tmpCir' \in {cir[Receivers - 1], tmpCir}
        /\ out'.of = om
    BY <1>2 DEF PrintLine
  <2>2. om \in Sniffed
    BY <1>2 DEF PrintLine, IInv
  <2>3. /\ om \in Packet /\ om.cells \in Seq(Cell) /\ om.dlen + om.diagOffset \in Nat
        /\ CirReadOffset(om) \in Nat
        /\ DiagLen \in Nat \ {0} /\ CirLen \in Nat \ {0}
    <3>1. om \in Packet /\ om.cells \in Seq(Cell)
      BY <2>2 DEF Sniffed, HoldsFrame
    <3>2. om.dlen \in DataLens /\ om.diagOffset \in Nat
      BY <3>1 DEF Packet
    <3>3. om.dlen \in Nat /\ DiagLen \in Nat \ {0} /\ CirLen \in Nat \ {0}
      BY <3>2, ListenerAssumption
    <3> QED
      BY <3>1, <3>2, <3>3 DEF CirReadOffset
  <2>4. Len(diag[Receivers - 1]) = DiagLen /\ Len(cir[Receivers - 1]) = CirLen
    BY <2>3, ReadEachLen
  <2> HIDE DEF diag, cir
  <2>5. Buffers'
    BY <2>1, <2>3, <2>4 DEF Buffers
  <2> QED
    BY <1>1, <2>5
<1>3. CASE UNCHANGED <<diagBuffer, tmpCir, out>>
  BY <1>1, <1>3 DEF Buffers
<1>4. PrintLine \/ UNCHANGED <<diagBuffer, tmpCir, out>>
  BY DEF Next, vars, buffers, RxComplete, ProcessRxDataQueue, RxQueued, RxDropped,
         RxAsserts, DispatchRx, MqueueGet, DrainEnd, PrintSkipped, PrintAsserts,
         LstnrCommit
<1> QED
  BY <1>2, <1>3, <1>4

LEMMA TypesFollow ==
  ASSUME IInv, PoolInv, Flags, Buffers
  PROVE  TypeOK
<1>1. queue \in Seq(Packet)
  <2>1. queue \in Seq(Sniffed) /\ Len(queue) \in Nat
    BY DEF IInv
  <2>2. \A i \in 1 .. Len(queue) : queue[i] \in Sniffed
    BY <2>1
  <2>3. \A i \in 1 .. Len(queue) : queue[i] \in Packet
    BY <2>2 DEF Sniffed
  <2>4. queue \in [1 .. Len(queue) -> Packet]
    BY <2>1, <2>3
  <2> QED
    BY <2>1, <2>4, FunctionIsSequence
<1>2. om \in Packet \cup {NoPacket}
  BY DEF IInv, PoolInv, Sniffed
<1>3. free \in 0 .. NumBlocks
  <2>1. IF om = NoPacket THEN TRUE ELSE Blocks(om) \in Nat
    BY BlocksNat DEF IInv, PoolInv
  <2>2. /\ free \in Nat /\ Cardinality(BlocksQueued) \in Nat /\ NumBlocks \in Nat
        /\ free + Cardinality(BlocksQueued) + (IF om = NoPacket THEN 0 ELSE Blocks(om))
             = NumBlocks
    BY ListenerAssumption, FS_CardinalityType DEF PoolInv, NoBlockLost
  <2> QED
    BY <2>1, <2>2
<1>4. pc \in {"idle", "drain", "print"}
  BY DEF PoolInv
<1> QED
  BY <1>1, <1>2, <1>3, <1>4 DEF TypeOK, Flags, Buffers

\* The pool never holds more blocks than it has, packets on rxpkt_q are made of
\* cells of receivers there are, and process_rx_data_queue has a packet or none.
THEOREM SnifferTypeCorrect == Spec => []TypeOK
<1>1. IInv /\ [Next]_vars => IInv'
  BY NextIInv
<1>2. IInv /\ PoolInv /\ [Next]_vars => PoolInv'
  BY NextPool
<1>3. IInv /\ Flags /\ Buffers /\ [Next]_vars => Flags' /\ Buffers'
  BY NextFlags
<1>4. IInv /\ PoolInv /\ Flags /\ Buffers => TypeOK
  BY TypesFollow
<1> QED
  BY InitIInv, InitPool, InitFlags, <1>1, <1>2, <1>3, <1>4, PTL DEF Spec
=============================================================================
