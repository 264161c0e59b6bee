-------------------------- MODULE SequenceNumbers --------------------------
(***************************************************************************)
(* Serial-number arithmetic of RTP: sequence numbers are uint16_t and      *)
(* timestamps uint32_t, and both wrap.  The moduli are constants so that   *)
(* a small instance wraps within a few packets.                            *)
(***************************************************************************)
EXTENDS Integers

CONSTANTS SeqMod,   \* 2^16 in the code
          TsMod     \* 2^32 in the code

ASSUME ModAssumption ==
    /\ SeqMod \in Nat /\ SeqMod > 1
    /\ TsMod \in Nat /\ TsMod > 1

SeqNum == 0 .. (SeqMod - 1)
Timestamp == 0 .. (TsMod - 1)

\* The value of the int fields that hold "no sequence number yet".
NoSeq == -1

\* The distance travelled from b up to a on a ring of m values.
Ahead(a, b, m) == (a - b) % m

IsNewerSequenceNumber(a, b) ==
    a # b /\ Ahead(a, b, SeqMod) < SeqMod \div 2

IsNewerTimestamp(a, b) ==
    a # b /\ Ahead(a, b, TsMod) < TsMod \div 2

LatestSequenceNumber(a, b) == IF IsNewerSequenceNumber(a, b) THEN a ELSE b

\* The successor and predecessor of a uint16_t.
SeqInc(s) == (s + 1) % SeqMod
SeqDec(s) == (s - 1) % SeqMod

\* Mutants of SeqBetween: an int that does not wrap, and a loop one too long.
SeqBetweenNoWrap(a, b) == {a + k : k \in 1 .. (Ahead(b, a, SeqMod) - 1)}
SeqUpTo(a, b) == {(a + k) % SeqMod : k \in 1 .. Ahead(b, a, SeqMod)}

\* The sequence numbers strictly between a and a newer b.
SeqBetween(a, b) == {(a + k) % SeqMod : k \in 1 .. (Ahead(b, a, SeqMod) - 1)}
=============================================================================
