------------------------- MODULE DocumentLifecycle -------------------------
(***************************************************************************)
(* What the system promises about one document, whoever asks for what: it  *)
(* is created either as the working document of a draft or as a published  *)
(* version of a module; a working document is published or discarded; a    *)
(* published one stays.                                                    *)
(***************************************************************************)
EXTENDS Naturals

CONSTANT Document  \* identities of documents

VARIABLE status    \* where in its life each document is

Status == {"unused", "working", "published", "discarded"}

Init == status = [d \in Document |-> "unused"]

Move(d, from, to) ==
    /\ status[d] = from
    /\ status' = [status EXCEPT ![d] = to]

Begin(d) == Move(d, "unused", "working")
CreatePublished(d) == Move(d, "unused", "published")
Publish(d) == Move(d, "working", "published")
Discard(d) == Move(d, "working", "discarded")

Next == \E d \in Document :
            Begin(d) \/ CreatePublished(d) \/ Publish(d) \/ Discard(d)

Spec == Init /\ [][Next]_status
=============================================================================
