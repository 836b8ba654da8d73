------------------------------ MODULE Delivery ------------------------------
(***************************************************************************)
(* What a consumer group promises about the messages of a topic: a message *)
(* is delivered at most once, whoever consumes.  A message may be dropped, *)
(* and then it is never delivered.  Nothing is promised about the order    *)
(* in which different consumers deliver.                                   *)
(***************************************************************************)
EXTENDS Naturals, Sequences, SequencesExt

VARIABLES
  published,  \* number of messages in the topic
  delivered,  \* positions that were handled, in the order of handling
  dropped     \* positions that will never be handled

vars == <<published, delivered, dropped>>

Waiting == (1..published) \ (Range(delivered) \cup dropped)

Init == published = 0 /\ delivered = <<>> /\ dropped = {}

Publish == published' \in {published + 1, published + 2} /\ UNCHANGED <<delivered, dropped>>

\* Handling a message, with success or not, may publish another one to the
\* same topic.
Drop(S) ==
  /\ dropped' = dropped \cup S
  /\ published' \in published..(published + 2)
  /\ UNCHANGED delivered

Deliver(i) ==
  /\ delivered' = Append(delivered, i)
  /\ published' \in published..(published + 2)
  /\ UNCHANGED dropped

Next ==
  \/ Publish
  \/ \E S \in (SUBSET Waiting) \ {{}} : Drop(S)
  \/ \E i \in Waiting : Deliver(i)

Spec == Init /\ [][Next]_vars
=============================================================================
