-------------------------- MODULE MCVideoReceiver --------------------------
(***************************************************************************)
(* Small streams for VideoReceiver.  Sequence numbers and timestamps wrap  *)
(* inside each of them.                                                    *)
(***************************************************************************)
EXTENDS VideoReceiver

Pkt(seq, ts, type, first, marker) ==
    [seq |-> seq, ts |-> ts, type |-> type, first |-> first, marker |-> marker]

\* A key frame of two packets, delta frames of one and three packets, another
\* key frame.
NackStream ==
    {Pkt(13, 14, "key", TRUE, FALSE), Pkt(14, 14, "key", FALSE, TRUE),
     Pkt(15, 15, "delta", TRUE, TRUE),
     Pkt(0, 0, "delta", TRUE, FALSE), Pkt(1, 0, "delta", FALSE, FALSE),
     Pkt(2, 0, "delta", FALSE, TRUE),
     Pkt(3, 1, "key", TRUE, TRUE)}

\* Padding between two frames, with a key frame at the end to recycle up to.
MixedStream ==
    {Pkt(14, 14, "key", TRUE, TRUE),
     Pkt(15, 15, "delta", TRUE, TRUE),
     Pkt(0, 0, "empty", FALSE, FALSE), Pkt(1, 1, "empty", FALSE, FALSE),
     Pkt(2, 2, "delta", TRUE, TRUE),
     Pkt(3, 3, "key", TRUE, TRUE)}

\* Two key frames, the first of two packets, and a delta frame between them.
ShortStream ==
    {Pkt(15, 15, "key", TRUE, FALSE), Pkt(0, 15, "key", FALSE, TRUE),
     Pkt(1, 0, "delta", TRUE, TRUE), Pkt(2, 1, "key", TRUE, TRUE)}

\* Three key frames, two of them with delta frames after them.
ThreeKeyStream ==
    {Pkt(13, 12, "key", TRUE, TRUE), Pkt(14, 13, "delta", TRUE, TRUE),
     Pkt(15, 14, "key", TRUE, TRUE),
     Pkt(0, 15, "delta", TRUE, FALSE), Pkt(1, 15, "delta", FALSE, TRUE),
     Pkt(2, 0, "key", TRUE, FALSE), Pkt(3, 0, "key", FALSE, TRUE),
     Pkt(4, 1, "delta", TRUE, TRUE)}
=============================================================================
