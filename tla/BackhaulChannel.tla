-------------------------- MODULE BackhaulChannel --------------------------
(***************************************************************************)
(* What the backhaul library promises the reader of its output: a bounded, *)
(* lossy, first-in first-out channel of result packages that filters out a *)
(* package heard twice in a row.                                           *)
(*                                                                         *)
(* A package is the pair (source, sequence number).  Remote packages are   *)
(* heard over the radio; local ones are posted by the node itself.         *)
(***************************************************************************)
EXTENDS Integers, Sequences

CONSTANTS
  Remote,     \* sources heard over the radio
  Local,      \* sources on the node
  Nobody,     \* stands for the source heard last before any was heard
  Number,     \* sequence numbers
  First,      \* the sequence number that goes with Nobody
  Capacity    \* the most packages the channel holds

VARIABLES
  chan,       \* packages on their way to the reader
  heard       \* the remote package heard last

vars == <<chan, heard>>

Init ==
  /\ chan = <<>>
  /\ heard = <<Nobody, First>>

Accept(m) ==
  /\ Len(chan) < Capacity
  /\ chan' = Append(chan, m)

\* A remote package is accepted or lost, and remembered in both cases.
Hear(m) ==
  /\ m # heard
  /\ heard' = m
  /\ \/ Accept(m)
     \/ UNCHANGED chan

PostLocal(m) ==
  /\ Accept(m)
  /\ UNCHANGED heard

\* The oldest package leaves the channel.
Deliver ==
  /\ chan # <<>>
  /\ chan' = Tail(chan)
  /\ UNCHANGED heard

Next ==
  \/ \E m \in Remote \X Number : Hear(m)
  \/ \E m \in Local \X Number : PostLocal(m)
  \/ Deliver

Spec == Init /\ [][Next]_vars

\* Nothing accepted stays in the channel for ever.
FairSpec == Spec /\ WF_vars(Deliver)
=============================================================================
