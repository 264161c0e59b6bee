---------------------------- MODULE FrameBuffer ----------------------------
(***************************************************************************)
(* One frame being assembled from packets (VCMSessionInfo inside a         *)
(* VCMFrameBuffer), and the decoder's position in the stream               *)
(* (VCMDecodingState).  Pure operators on records.                         *)
(*                                                                         *)
(* The codec is H.264 (or unknown), the one the repository's receive path  *)
(* is written for: there are no picture ids or temporal layers, so         *)
(* continuity is decided by sequence numbers.                              *)
(***************************************************************************)
EXTENDS SequenceNumbers, FiniteSets

CONSTANTS DecodeErrorMode,       \* decode_error_mode_
          kMaxPacketsInSession

ASSUME FrameBufferAssumption ==
    /\ DecodeErrorMode \in {"kNoErrors", "kWithErrors"}
    /\ kMaxPacketsInSession \in Nat

(***************************************************************************)
(* A packet as VCMPacket carries it: type "empty" is kFrameEmpty, a packet *)
(* without payload (padding, FEC); first and marker are isFirstPacket and  *)
(* markerBit.                                                              *)
(***************************************************************************)
Packet == [seq : SeqNum, ts : Timestamp, type : {"key", "delta", "empty"},
           first : BOOLEAN, marker : BOOLEAN]

FrameState == {"Empty", "Incomplete", "Complete", "Decodable"}

(***************************************************************************)
(* pkts holds the sequence numbers of packets_, front and back the ends of *)
(* that list; elow and ehigh are empty_seq_num_low_ and _high_, first and  *)
(* last first_packet_seq_num_ and last_packet_seq_num_.  The timestamp of  *)
(* a frame is its key in the list that holds it.                           *)
(***************************************************************************)
Frame == [state : FrameState, type : {"key", "delta"},
          pkts : SUBSET SeqNum, front : SeqNum, back : SeqNum,
          elow : SeqNum \cup {NoSeq}, ehigh : SeqNum \cup {NoSeq},
          first : SeqNum \cup {NoSeq}, last : SeqNum \cup {NoSeq}]

\* A frame that has received a packet (assert in VCMDecodingState::SetState).
HasSeqNum(f) == f.pkts # {} \/ (f.elow # NoSeq /\ f.ehigh # NoSeq)

\* A frame after VCMFrameBuffer::Reset.
EmptyFrame == [state |-> "Empty", type |-> "delta",
               pkts |-> {}, front |-> 0, back |-> 0,
               elow |-> NoSeq, ehigh |-> NoSeq,
               first |-> NoSeq, last |-> NoSeq]

LowSequenceNumber(f) == IF f.pkts = {} THEN f.elow ELSE f.front

HighSequenceNumber(f) ==
    IF f.pkts = {} THEN f.ehigh
    ELSE IF f.ehigh = NoSeq THEN f.back
    ELSE LatestSequenceNumber(f.back, f.ehigh)

HaveFirstPacket(f) == f.pkts # {} /\ f.first # NoSeq
HaveLastPacket(f) == f.pkts # {} /\ f.last # NoSeq

\* A mutant of SessionComplete: the packets in between are not looked at.
SessionHasEnds(f) == HaveFirstPacket(f) /\ HaveLastPacket(f)

\* complete_: both ends are known and no packet is missing between them.
SessionComplete(f) ==
    /\ HaveFirstPacket(f)
    /\ HaveLastPacket(f)
    /\ \A s \in f.pkts : s = f.back \/ SeqInc(s) \in f.pkts

\* decodable_: with errors allowed, any media packet makes a frame decodable.
SessionDecodable(f) == DecodeErrorMode = "kWithErrors" /\ f.pkts # {}

InformOfEmptyPacket(f, seq) ==
    [f EXCEPT !.ehigh = IF @ = NoSeq THEN seq ELSE LatestSequenceNumber(seq, @),
              !.elow = IF @ = NoSeq \/ IsNewerSequenceNumber(@, seq)
                       THEN seq ELSE @]

\* VCMSessionInfo::InsertPacket for a media packet that is not a duplicate.
InsertMediaPacket(f, p) ==
    [f EXCEPT !.type = p.type,
              !.pkts = @ \cup {p.seq},
              !.front = IF \A s \in f.pkts : LatestSequenceNumber(p.seq, s) # p.seq
                        THEN p.seq ELSE @,
              !.back = IF f.pkts = {} THEN p.seq
                       ELSE LatestSequenceNumber(p.seq, @),
              !.first = IF p.first /\ (@ = NoSeq \/ IsNewerSequenceNumber(@, p.seq))
                        THEN p.seq ELSE @,
              !.last = IF p.marker /\ (@ = NoSeq \/ IsNewerSequenceNumber(p.seq, @))
                       THEN p.seq ELSE @]

(***************************************************************************)
(* VCMFrameBuffer::InsertPacket: the frame afterwards and the result.  The *)
(* limit on the number of packets is tested before the duplicate test.     *)
(***************************************************************************)
FrameInsertPacket(f, p) ==
    LET f0 == [f EXCEPT !.state = IF @ = "Empty" /\ p.type # "empty"
                                  THEN "Incomplete" ELSE @]
        f1 == IF p.type = "empty" THEN InformOfEmptyPacket(f0, p.seq)
                                  ELSE InsertMediaPacket(f0, p)
    IN  IF p.type # "empty" /\ Cardinality(f.pkts) = kMaxPacketsInSession
        THEN [frame |-> f0, ret |-> "kSizeError"]
        ELSE IF p.type # "empty" /\ p.seq \in f.pkts
        THEN [frame |-> f0, ret |-> "kDuplicatePacket"]
        ELSE IF SessionComplete(f1)
        THEN [frame |-> [f1 EXCEPT !.state = "Complete"],
              ret |-> "kCompleteSession"]
        ELSE IF SessionDecodable(f1)
        THEN [frame |-> [f1 EXCEPT !.state = "Decodable"],
              ret |-> "kDecodableSession"]
        ELSE [frame |-> f1, ret |-> "kIncomplete"]

-----------------------------------------------------------------------------
(***************************************************************************)
(* VCMDecodingState.                                                       *)
(***************************************************************************)
DecodingState == [initial : BOOLEAN, seq : SeqNum, ts : Timestamp]

InitialDecodingState == [initial |-> TRUE, seq |-> 0, ts |-> 0]

\* IsOldFrame and IsOldPacket: both compare a timestamp with the last decoded.
IsOldTimestamp(st, ts) == ~st.initial /\ ~IsNewerTimestamp(ts, st.ts)

SetState(f, ts) == [initial |-> FALSE, seq |-> HighSequenceNumber(f), ts |-> ts]

ContinuousSeqNum(st, seq) == seq = SeqInc(st.seq)

ContinuousFrame(st, f) ==
    \/ f.type = "key"
    \/ ~st.initial /\ ContinuousSeqNum(st, LowSequenceNumber(f))

\* A late packet of the last decoded frame moves the position past it.
UpdateOldPacket(st, p) ==
    IF p.ts = st.ts THEN [st EXCEPT !.seq = LatestSequenceNumber(p.seq, @)]
                    ELSE st

\* A mutant of CanSkipEmptyFrame: padding is skipped wherever it is.
AlwaysSkipEmptyFrame(st, f) == TRUE

\* UpdateEmptyFrame: whether a frame without media can be skipped ...
CanSkipEmptyFrame(st, f) ==
    LET single == HighSequenceNumber(f) = LowSequenceNumber(f)
    IN  \/ st.initial /\ single
        \/ single /\ ContinuousSeqNum(st, HighSequenceNumber(f))
        \/ ContinuousFrame(st, f)

\* ... and the position after skipping it.
SkipEmptyFrame(st, f, ts) ==
    IF st.initial /\ HighSequenceNumber(f) = LowSequenceNumber(f) THEN st
    ELSE [st EXCEPT !.seq = HighSequenceNumber(f), !.ts = ts]
=============================================================================
