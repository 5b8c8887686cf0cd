----------------------------- MODULE FramePipe -----------------------------
(***************************************************************************)
(* What trait Tunnel promises (feature/tunnel/api/src/lib.rs): a pair of   *)
(* pipes of frames.  A live side may hand a frame to its pipe; a live side *)
(* may be handed the next frame of its peer, in order, once, unchanged;    *)
(* either side may drop its end, after which it neither sends nor gets     *)
(* anything.  Frames that were in the pipe when an end is dropped may be   *)
(* lost: nothing obliges a receiver to get all that was sent.              *)
(***************************************************************************)
EXTENDS Naturals, Sequences, Sides

CONSTANT Data          \* the frames, told apart by what the sender put in

VARIABLES
  sent,                \* sent[s]: the frames side s has sent, oldest first
  delivered,           \* delivered[s]: the frames side s has been handed
  live                 \* the sides that have not dropped their end

pipeVars == <<sent, delivered, live>>

PipeTypeOK ==
  /\ sent \in [Side -> Seq(Data)]
  /\ delivered \in [Side -> Seq(Data)]
  /\ live \subseteq Side

Init ==
  /\ sent = [s \in Side |-> <<>>]
  /\ delivered = [s \in Side |-> <<>>]
  /\ live = Side

Send(s, d) ==
  /\ s \in live
  /\ sent' = [sent EXCEPT ![s] = Append(@, d)]
  /\ UNCHANGED <<delivered, live>>

Recv(s) ==
  /\ s \in live
  /\ Len(delivered[s]) < Len(sent[Peer(s)])
  /\ delivered' =
       [delivered EXCEPT ![s] = Append(@, sent[Peer(s)][Len(delivered[s]) + 1])]
  /\ UNCHANGED <<sent, live>>

Drop(s) ==
  /\ s \in live
  /\ live' = live \ {s}
  /\ UNCHANGED <<sent, delivered>>

Next == \E s \in Side : Recv(s) \/ Drop(s) \/ (\E d \in Data : Send(s, d))

Spec == Init /\ [][Next]_pipeVars

-----------------------------------------------------------------------------
\* Trait Tunnel: what a side has been handed is a prefix of what the other
\* side sent -- nothing reordered, repeated, skipped or invented.
DeliveredInOrder ==
  \A s \in Side :
    /\ Len(delivered[s]) <= Len(sent[Peer(s)])
    /\ \A i \in 1..Len(delivered[s]) : delivered[s][i] = sent[Peer(s)][i]
=============================================================================
