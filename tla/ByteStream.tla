----------------------------- MODULE ByteStream -----------------------------
(***************************************************************************)
(* What a pseudo-TCP connection promises to the applications at its ends:  *)
(* what one end reads is what the other end wrote, in the same order, once *)
(* and without gaps.  How far reading lags behind writing is left open.    *)
(***************************************************************************)
EXTENDS SequencesExt

CONSTANT Ends

VARIABLES sent,        \* what each end has written
          received     \* what each end has read

Other(e) == CHOOSE f \in Ends : f # e

Init ==
    /\ sent = [e \in Ends |-> <<>>]
    /\ received = [e \in Ends |-> <<>>]

Write(e) ==
    /\ IsPrefix(sent[e], sent'[e])
    /\ \A f \in Ends \ {e} : sent'[f] = sent[f]
    /\ UNCHANGED received

Read(e) ==
    /\ IsPrefix(received[e], received'[e])
    /\ IsPrefix(received'[e], sent[Other(e)])
    /\ \A f \in Ends \ {e} : received'[f] = received[f]
    /\ UNCHANGED sent

Next == \E e \in Ends : Write(e) \/ Read(e)

Spec == Init /\ [][Next]_<<sent, received>>
=============================================================================
