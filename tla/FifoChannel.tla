---------------------------- MODULE FifoChannel ----------------------------
(***************************************************************************)
(* What every queue and every stream of this system promises: the items    *)
(* that come out are the items that went in, each once, in the order they  *)
(* went in.  `sent' and `received' are the whole histories of the two      *)
(* ends; what is in transit is the part of `sent' not yet in `received'.   *)
(*                                                                         *)
(* TsQueue.tla (the queue between two threads) is shown to implement it.   *)
(***************************************************************************)
EXTENDS Naturals, Sequences

CONSTANT Item          \* what may be sent

VARIABLES sent,        \* everything handed to the channel so far
          received     \* everything the channel has handed out so far

vars == <<sent, received>>

TypeOK ==
  /\ sent \in Seq(Item)
  /\ received \in Seq(Item)

Init ==
  /\ sent = <<>>
  /\ received = <<>>

Send(x) ==
  /\ sent' = Append(sent, x)
  /\ UNCHANGED received

Receive ==
  /\ Len(received) < Len(sent)
  /\ received' = Append(received, sent[Len(received) + 1])
  /\ UNCHANGED sent

Next ==
  \/ \E x \in Item : Send(x)
  \/ Receive

\* Nothing is lost, duplicated or reordered.
Spec == Init /\ [][Next]_vars

\* ... and what was sent is eventually handed out.
LiveSpec == Spec /\ WF_vars(Receive)
=============================================================================
