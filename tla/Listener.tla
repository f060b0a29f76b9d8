------------------------------ MODULE Listener ------------------------------
(***************************************************************************)
(* The sniffer, apps/listener/src/main.c: what it receives against what it *)
(* prints.  rx_complete_cb copies a frame, the diagnostics of every        *)
(* receiver and, in builds with CIR_ENABLED, their accumulator samples     *)
(* into a chain of blocks of g_mbuf_pool; process_rx_data_queue, in the    *)
(* default event queue, reads them back at offsets of its own.             *)
(*                                                                         *)
(* The contents of a chain are cells, each with its origin.  Lengths are   *)
(* numbers of cells.  The comparison of two receivers' buffers, time       *)
(* stamps and the JSON text are left out; the restart of the receivers is  *)
(* the subject of ListenerReceivers.                                       *)
(*                                                                         *)
(* A definition that stands right before the one it imitates, and that no  *)
(* action uses, is a faulty variant of it.                                 *)
(***************************************************************************)
EXTENDS Integers, Sequences, FiniteSets

CONSTANTS
  Frame,      \* what can be received
  DataLens,   \* lengths of frames
  Receivers,  \* N_DW_INSTANCES
  Cir,        \* CIR_ENABLED
  DiagLen,    \* rxd_len
  CirLen,     \* size of one receiver's accumulator data
  BlockLen,   \* room for cells in a block
  NumBlocks   \* UWB_NUM_MBUFS

ASSUME ListenerAssumption ==
  /\ {Receivers, DiagLen, CirLen, BlockLen, NumBlocks} \subseteq Nat \ {0}
  /\ DataLens \subseteq Nat \ {0}
  /\ Cir \in BOOLEAN

VARIABLES
  free,       \* free blocks of g_mbuf_mempool
  queue,      \* rxpkt_q
  event,      \* the queue's event is in the default event queue
  om,         \* the packet process_rx_data_queue works on
  pc,         \* where process_rx_data_queue is
  samples,    \* local_conf.acc_samples_to_load is not 0
  verbose,    \* bits of local_conf.verbose
  diagBuffer, \* diag_buffer
  tmpCir,     \* tmp_cir
  out,        \* the line printed last, and what it was printed for
  halted      \* an assertion has failed

conf == <<samples, verbose>>
buffers == <<diagBuffer, tmpCir>>
vars == <<free, queue, event, om, pc, conf, buffers, out, halted>>

Receiver == 0 .. Receivers - 1
NoFrame == "none"
Erased == <<"erased", NoFrame, 0, 0>>

\* One piece of a packet: what kind, of which frame, from which receiver.
Piece(kind, f, r, size) == [i \in 1 .. size |-> <<kind, f, r, i>>]
Data(f, n) == Piece("data", f, 0, n)

Packet == [frame : Frame, dlen : DataLens, diagOffset : Nat, acc : BOOLEAN,
           cells : Seq({"data", "diag", "cir"} \X Frame \X Receiver \X Nat)]
NoPacket == [frame |-> NoFrame, dlen |-> 0, diagOffset |-> 0, acc |-> FALSE,
             cells |-> <<>>]
NoLine == [of |-> NoPacket, data |-> <<>>, diag |-> <<>>, cir |-> <<>>]

TypeOK ==
  /\ free \in 0 .. NumBlocks
  /\ queue \in Seq(Packet)
  /\ event \in BOOLEAN
  /\ om \in Packet \cup {NoPacket}
  /\ pc \in {"idle", "drain", "print"}
  /\ samples \in BOOLEAN
  /\ verbose \subseteq {"diag", "cir"}
  /\ Len(diagBuffer) = DiagLen
  /\ Len(tmpCir) = CirLen
  /\ out.of \in Packet \cup {NoPacket}
  /\ halted \in BOOLEAN

Init ==
  /\ free = NumBlocks
  /\ queue = <<>>
  /\ event = FALSE
  /\ om = NoPacket
  /\ pc = "idle"
  /\ samples = FALSE
  /\ verbose = {}
  /\ diagBuffer = [i \in 1 .. DiagLen |-> Erased]
  /\ tmpCir = [i \in 1 .. CirLen |-> Erased]
  /\ out = NoLine
  /\ halted = FALSE

-----------------------------------------------------------------------------
(***************************************************************************)
(* The buffer chains of the kernel.                                        *)
(***************************************************************************)

\* os_mbuf_copyinto, when there are blocks enough: overwrite, then extend.
CopyInto(cells, offset, piece) ==
  LET end == offset + Len(piece) IN
  [i \in 1 .. (IF end > Len(cells) THEN end ELSE Len(cells)) |->
     IF i \in offset + 1 .. end THEN piece[i - offset] ELSE cells[i]]

\* The same for the pieces of all receivers, one behind the other.
CopyPieces(cells, offset, kind, f, size) ==
  CopyInto(cells, offset,
           [i \in 1 .. Receivers * size |->
              <<kind, f, (i - 1) \div size, ((i - 1) % size) + 1>>])

\* os_mbuf_copydata: what lies beyond the end of the chain stays as it was in
\* the destination.  The code looks at no result of it but the first.
CopyData(cells, offset, size, old) ==
  [i \in 1 .. size |-> IF offset + i <= Len(cells) THEN cells[offset + i]
                                                   ELSE old[i]]

\* Blocks in the chain that holds n cells; the header needs the first.
BlocksFor(n) == IF n = 0 THEN 1 ELSE (n + BlockLen - 1) \div BlockLen
Blocks(p) == BlocksFor(Len(p.cells))

-----------------------------------------------------------------------------
(***************************************************************************)
(* rx_complete_cb, which the main task cannot interrupt.                   *)
(***************************************************************************)

\* Frame, then diagnostics.
Filled(f, n) == CopyPieces(Data(f, n), n, "diag", f, DiagLen)

\* Where the accumulator data go: right behind the frame, over the diagnostics,
\* although cir_offset is behind these.
CirOffsetInFrame(n) == n - 1
CirOffset(n) == n

WithCir(f, n) ==
  IF Cir /\ samples
  THEN CopyPieces(Filled(f, n), CirOffset(n), "cir", f, CirLen)
  ELSE Filled(f, n)

\* os_mqueue_put
Put(p) == queue' = Append(queue, p) /\ event' = TRUE

RxQueued(f, n) ==
  LET cells == WithCir(f, n) IN
  /\ BlocksFor(Len(cells)) <= free
  /\ free' = free - BlocksFor(Len(cells))
  /\ Put([frame |-> f, dlen |-> n, diagOffset |-> n, acc |-> Cir /\ samples,
          cells |-> cells])
  /\ UNCHANGED <<om, pc, conf, buffers, out, halted>>

\* There is no block for the header, for the frame or for the diagnostics:
\* what was taken is given back.
GivenBackAllButHeader == free' = IF free > 0 THEN free - 1 ELSE free
GivenBack == free' = free
RxDropped(f, n) ==
  /\ BlocksFor(Len(Filled(f, n))) > free
  /\ GivenBack
  /\ UNCHANGED <<queue, event, om, pc, conf, buffers, out, halted>>

\* The copy of the accumulator data is asserted to succeed.
RxAsserts(f, n) ==
  /\ BlocksFor(Len(Filled(f, n))) <= free
  /\ BlocksFor(Len(WithCir(f, n))) > free
  /\ halted' = TRUE
  /\ UNCHANGED <<free, queue, event, om, pc, conf, buffers, out>>

-----------------------------------------------------------------------------
(***************************************************************************)
(* process_rx_data_queue, and the commit of settings by the same task.     *)
(***************************************************************************)

DispatchRx ==
  /\ pc = "idle"
  /\ event
  /\ event' = FALSE
  /\ pc' = "drain"
  /\ UNCHANGED <<free, queue, om, conf, buffers, out, halted>>

MqueueGet ==
  /\ pc = "drain"
  /\ queue # <<>>
  /\ om' = Head(queue)
  /\ queue' = Tail(queue)
  /\ pc' = "print"
  /\ UNCHANGED <<free, event, conf, buffers, out, halted>>

DrainEnd ==
  /\ pc = "drain"
  /\ queue = <<>>
  /\ pc' = "idle"
  /\ UNCHANGED <<free, queue, event, om, conf, buffers, out, halted>>

\* end_msg: the chain is freed, and the next packet looked for.
EndMsgReturning ==
  /\ free' = free + Blocks(om)
  /\ om' = NoPacket
  /\ pc' = "idle"
EndMsgFreesTwice ==
  /\ free' = free + 2 * Blocks(om)
  /\ om' = NoPacket
  /\ pc' = "drain"
EndMsg ==
  /\ free' = free + Blocks(om)
  /\ om' = NoPacket
  /\ pc' = "drain"

\* What ends up in a static buffer that is filled for one receiver after the
\* other: what was read for each of them, the last one on top.
ReadEach(offset, size, old) ==
  LET read[r \in Receiver] ==
        CopyData(om.cells, offset + r * size, size,
                 IF r = 0 THEN old ELSE read[r - 1])
  IN  read

\* Where the accumulator data are read.
CirReadOffsetBehindDiag(p) == p.dlen + Receivers * DiagLen
CirReadOffset(p) == p.dlen

\* The line of a packet.  The frame comes from print_buffer, which holds the
\* head of the chain; the length of the diagnostics is taken to be read right.
PrintLine ==
  /\ pc = "print"
  /\ LET diag == ReadEach(om.dlen + om.diagOffset, DiagLen, diagBuffer)
         cir == ReadEach(CirReadOffset(om), CirLen, tmpCir)
         showDiag == "diag" \in verbose
         showCir == Cir /\ "cir" \in verbose
     IN  /\ diagBuffer' = IF showDiag THEN diag[Receivers - 1] ELSE diagBuffer
         /\ tmpCir' = IF showCir THEN cir[Receivers - 1] ELSE tmpCir
         /\ out' = [of |-> om,
                    data |-> SubSeq(om.cells, 1, om.dlen),
                    diag |-> IF showDiag THEN diag ELSE <<>>,
                    cir |-> IF showCir THEN cir ELSE <<>>]
  /\ EndMsg
  /\ UNCHANGED <<queue, event, conf, halted>>

\* os_msys has no block for the line: the packet is skipped.
PrintSkipped ==
  /\ pc = "print"
  /\ EndMsg
  /\ UNCHANGED <<queue, event, conf, buffers, out, halted>>

\* os_msys runs out of blocks while mprintf appends to the line.
PrintAsserts ==
  /\ pc = "print"
  /\ halted' = TRUE
  /\ UNCHANGED <<free, queue, event, om, pc, conf, buffers, out>>

\* lstnr_commit
LstnrCommit(s, v) ==
  /\ pc = "idle"
  /\ samples' = s
  /\ verbose' = v
  /\ UNCHANGED <<free, queue, event, om, pc, buffers, out, halted>>

RxComplete ==
  \E f \in Frame, n \in DataLens :
    RxQueued(f, n) \/ RxDropped(f, n) \/ RxAsserts(f, n)

ProcessRxDataQueue ==
  DispatchRx \/ MqueueGet \/ DrainEnd \/ PrintLine \/ PrintSkipped \/ PrintAsserts

Next ==
  /\ ~halted
  /\ \/ RxComplete
     \/ ProcessRxDataQueue
     \/ \E s \in BOOLEAN, v \in SUBSET {"diag", "cir"} : LstnrCommit(s, v)

Spec == Init /\ [][Next]_vars

\* The main task runs until an assertion stops the firmware.
FairSpec == Spec /\ WF_vars(ProcessRxDataQueue /\ ~halted)

-----------------------------------------------------------------------------
(***************************************************************************)
(* Properties.                                                             *)
(***************************************************************************)

\* The blocks on rxpkt_q: which packet's, and which of its chain.
BlocksQueued == UNION {{i} \X (1 .. Blocks(queue[i])) : i \in DOMAIN queue}

\* Every block is in the pool, on rxpkt_q or with process_rx_data_queue,
\* however far rx_complete_cb got with a frame the pool cannot hold and
\* whatever becomes of the line.
NoBlockLost ==
  free + Cardinality(BlocksQueued)
       + (IF om = NoPacket THEN 0 ELSE Blocks(om)) = NumBlocks

\* "d: data in hexadecimal": the line of a packet shows the frame received,
\* which neither diagnostics nor accumulator data overwrite in the chain.
PrintsTheFrame ==
  out # NoLine => out.data = Data(out.of.frame, out.of.dlen)

\* "cir0: accumulator data for receiver 0": the line of a packet received while
\* samples were asked for shows its own accumulator data, although they have
\* overwritten the diagnostics, and although samples and verbosity may have been
\* set differently since.  The line of any other packet shows what the chain and
\* tmp_cir happen to hold.
CirIsOwn ==
  out.of.acc /\ out.cir # <<>> =>
    \A r \in Receiver :
      out.cir[r] = Piece("cir", out.of.frame, r, CirLen)

\* "rssi: estimated received signal strength in dBm": the diagnostics behind
\* rssi and fppl are those received with the packet on the line.
DiagnosticsReadBack ==
  out.diag # <<>> =>
    \A r \in Receiver :
      out.diag[r] = Piece("diag", out.of.frame, r, DiagLen)

\* A packet on rxpkt_q is not left there: process_rx_data_queue gets to a
\* packet however rx_complete_cb's posts fall between its steps.
GetsToPackets == queue # <<>> ~> (pc = "print" \/ halted)
=============================================================================
