------------------------ MODULE VideoReceiverProofs -------------------------
(***************************************************************************)
(* The invariants of VideoReceiver that hold for every stream of packets,  *)
(* every size of the frame pool and of the NACK list, and any number of    *)
(* restarts. First, what the operations of the jitter buffer do to its     *)
(* type, to the number of frames in its lists and its pool, and to the     *)
(* length of the NACK list.                                                *)
(***************************************************************************)
EXTENDS VideoReceiver, FiniteSetTheorems, TLAPS

\* The types as sets of records, which the provers handle better.
FilledFrame == {f \in Frame : HasSeqNum(f)}

FrameList == UNION {[S -> FilledFrame] : S \in SUBSET Timestamp}

JB == [decodable : FrameList, incomplete : FrameList, free : Nat,
       allocated : Nat, last : DecodingState, missing : SUBSET SeqNum,
       latest : SeqNum, fresh : BOOLEAN, old : Nat, running : BOOLEAN,
       event : BOOLEAN]

\* IsFrameList describes a set: the maps from timestamps to filled frames.
LEMMA FrameListDef ==
    ASSUME NEW L
    PROVE  L \in FrameList <=> IsFrameList(L)
BY DEF FrameList, IsFrameList, FilledFrame

\* ... and so does IsJitterBuffer: the records of JB.
LEMMA JBDef ==
    ASSUME NEW j
    PROVE  j \in JB <=> IsJitterBuffer(j)
BY FrameListDef DEF JB, IsJitterBuffer

-----------------------------------------------------------------------------
\* Arithmetic on the ring of sequence numbers stays on the ring.
LEMMA RingTypes ==
    /\ IsFiniteSet(SeqNum) /\ IsFiniteSet(Timestamp)
    /\ NoSeq \notin SeqNum
    /\ InitialDecodingState \in DecodingState
    /\ \A a, b \in SeqNum : LatestSequenceNumber(a, b) \in SeqNum
    /\ \A a \in SeqNum : SeqInc(a) \in SeqNum /\ SeqDec(a) \in SeqNum
    /\ \A a, b \in SeqNum : SeqBetween(a, b) \subseteq SeqNum
<1>1. IsFiniteSet(SeqNum) /\ IsFiniteSet(Timestamp)
  BY ModAssumption, FS_Interval DEF SeqNum, Timestamp
<1>2. NoSeq \notin SeqNum
  BY DEF NoSeq, SeqNum
<1>3. InitialDecodingState \in DecodingState
  BY ModAssumption DEF InitialDecodingState, DecodingState, SeqNum, Timestamp
<1>4. \A a, b \in SeqNum : LatestSequenceNumber(a, b) \in SeqNum
  BY DEF LatestSequenceNumber
<1>5. \A a \in SeqNum : SeqInc(a) \in SeqNum /\ SeqDec(a) \in SeqNum
  BY ModAssumption DEF SeqInc, SeqDec, SeqNum
<1>6. \A a, b \in SeqNum : SeqBetween(a, b) \subseteq SeqNum
  BY ModAssumption DEF SeqBetween, SeqNum, Ahead
<1> QED
  BY <1>1, <1>2, <1>3, <1>4, <1>5, <1>6

\* The ends of a frame that has received a packet are sequence numbers.
LEMMA FilledFrameTypes ==
    ASSUME NEW f \in FilledFrame
    PROVE  /\ HighSequenceNumber(f) \in SeqNum
           /\ LowSequenceNumber(f) \in SeqNum
           /\ EstimatedLowSequenceNumber(f) \in SeqNum
           /\ \A t \in Timestamp : SetState(f, t) \in DecodingState
<1>1. HighSequenceNumber(f) \in SeqNum /\ LowSequenceNumber(f) \in SeqNum
  BY RingTypes DEF FilledFrame, Frame, HasSeqNum, HighSequenceNumber,
     LowSequenceNumber
<1> QED
  BY <1>1, RingTypes DEF EstimatedLowSequenceNumber, SetState, DecodingState

\* An empty packet gives a frame its ends.
LEMMA InformOfEmptyPacketType ==
    ASSUME NEW f \in Frame, NEW seq \in SeqNum
    PROVE  InformOfEmptyPacket(f, seq) \in FilledFrame
<1> DEFINE high == IF f.ehigh = NoSeq THEN seq
                   ELSE LatestSequenceNumber(seq, f.ehigh)
           low == IF f.elow = NoSeq \/ IsNewerSequenceNumber(f.elow, seq)
                  THEN seq ELSE f.elow
<1>1. high \in SeqNum /\ low \in SeqNum
  BY RingTypes DEF Frame
<1>2. InformOfEmptyPacket(f, seq) = [f EXCEPT !.ehigh = high, !.elow = low]
  BY DEF InformOfEmptyPacket, Frame
<1> HIDE DEF high, low
<1>3. InformOfEmptyPacket(f, seq) \in Frame
  BY <1>1, <1>2 DEF Frame
<1>4. /\ InformOfEmptyPacket(f, seq).elow = low
      /\ InformOfEmptyPacket(f, seq).ehigh = high
  BY <1>2 DEF Frame
<1> QED
  BY <1>1, <1>3, <1>4, RingTypes DEF FilledFrame, HasSeqNum

\* A media packet gives a frame its ends.
LEMMA InsertMediaPacketType ==
    ASSUME NEW f \in Frame, NEW p \in Packet, p.type # "empty"
    PROVE  InsertMediaPacket(f, p) \in FilledFrame
<1> DEFINE front == IF \A s \in f.pkts : LatestSequenceNumber(p.seq, s) # p.seq
                    THEN p.seq ELSE f.front
           back == IF f.pkts = {} THEN p.seq ELSE LatestSequenceNumber(p.seq, f.back)
           first == IF p.first /\ (f.first = NoSeq
                                   \/ IsNewerSequenceNumber(f.first, p.seq))
                    THEN p.seq ELSE f.first
           last == IF p.marker /\ (f.last = NoSeq
                                   \/ IsNewerSequenceNumber(p.seq, f.last))
                   THEN p.seq ELSE f.last
           pkts == f.pkts \cup {p.seq}
<1>1. p.seq \in SeqNum /\ p.type \in {"key", "delta"}
  BY DEF Packet
<1>2. /\ front \in SeqNum /\ back \in SeqNum /\ pkts \in SUBSET SeqNum
      /\ first \in SeqNum \cup {NoSeq} /\ last \in SeqNum \cup {NoSeq}
  BY <1>1, RingTypes DEF Frame
<1>3. InsertMediaPacket(f, p) =
        [f EXCEPT !.type = p.type, !.pkts = pkts, !.front = front,
                  !.back = back, !.first = first, !.last = last]
  BY DEF InsertMediaPacket, Frame
<1>4. pkts # {}
  OBVIOUS
<1> HIDE DEF front, back, first, last, pkts
<1>5. InsertMediaPacket(f, p) \in Frame
  BY <1>1, <1>2, <1>3 DEF Frame
<1>6. InsertMediaPacket(f, p).pkts = pkts
  BY <1>3 DEF Frame
<1> QED
  BY <1>4, <1>5, <1>6 DEF FilledFrame, HasSeqNum

\* VCMFrameBuffer::InsertPacket fills a frame unless it reports kSizeError.
LEMMA FrameInsertPacketType ==
    ASSUME NEW f \in Frame, NEW p \in Packet
    PROVE  LET r == FrameInsertPacket(f, p)
           IN  /\ r.frame \in Frame
               /\ r.ret \in {"kSizeError", "kDuplicatePacket",
                             "kCompleteSession", "kDecodableSession",
                             "kIncomplete"}
               /\ r.ret # "kSizeError" => r.frame \in FilledFrame
<1> DEFINE f0 == [f EXCEPT !.state = IF @ = "Empty" /\ p.type # "empty"
                                     THEN "Incomplete" ELSE @]
           f1 == IF p.type = "empty" THEN InformOfEmptyPacket(f0, p.seq)
                                     ELSE InsertMediaPacket(f0, p)
<1>1. f0 \in Frame /\ f0.pkts = f.pkts
  BY DEF Frame, FrameState
<1> HIDE DEF f0
<1>2. f1 \in FilledFrame
  BY <1>1, InformOfEmptyPacketType, InsertMediaPacketType DEF Packet
<1> HIDE DEF f1
<1>3. p.seq \in f.pkts => f0 \in FilledFrame
  BY <1>1 DEF HasSeqNum, FilledFrame
<1>4. /\ [f1 EXCEPT !.state = "Complete"] \in FilledFrame
      /\ [f1 EXCEPT !.state = "Decodable"] \in FilledFrame
  BY <1>2 DEF Frame, FilledFrame, HasSeqNum, FrameState
<1>5. FrameInsertPacket(f, p) \in
        {[frame |-> f0, ret |-> "kSizeError"],
         [frame |-> [f1 EXCEPT !.state = "Complete"], ret |-> "kCompleteSession"],
         [frame |-> [f1 EXCEPT !.state = "Decodable"],
          ret |-> "kDecodableSession"],
         [frame |-> f1, ret |-> "kIncomplete"]}
        \cup (IF p.seq \in f.pkts
              THEN {[frame |-> f0, ret |-> "kDuplicatePacket"]} ELSE {})
  BY DEF FrameInsertPacket, f0, f1
<1> QED
  BY <1>1, <1>2, <1>3, <1>4, <1>5 DEF FilledFrame

-----------------------------------------------------------------------------
\* A list has finitely many frames, each of them filled.
LEMMA FrameListTypes ==
    ASSUME NEW L \in FrameList
    PROVE  /\ DOMAIN L \subseteq Timestamp
           /\ IsFiniteSet(DOMAIN L)
           /\ Cardinality(DOMAIN L) \in Nat
           /\ \A t \in DOMAIN L : L[t] \in FilledFrame
<1>1. DOMAIN L \subseteq Timestamp /\ \A t \in DOMAIN L : L[t] \in FilledFrame
  BY DEF FrameList
<1>2. IsFiniteSet(DOMAIN L)
  BY <1>1, RingTypes, FS_Subset
<1> QED
  BY <1>1, <1>2, FS_CardinalityType

\* The empty list is a list, of no frames.
LEMMA EmptyListType ==
    EmptyList \in FrameList /\ DOMAIN EmptyList = {} /\ Cardinality({}) = 0
<1>1. EmptyList \in [{} -> FilledFrame] /\ DOMAIN EmptyList = {}
  BY DEF EmptyList
<1> QED
  BY <1>1, FS_EmptySet DEF FrameList

\* Keeping some frames of a list: the others are the frames dropped.
LEMMA RestrictType ==
    ASSUME NEW L \in FrameList, NEW S, S \subseteq DOMAIN L
    PROVE  /\ Restrict(L, S) \in FrameList
           /\ DOMAIN Restrict(L, S) = S
           /\ \A t \in S : Restrict(L, S)[t] = L[t]
           /\ Dropped(L, Restrict(L, S)) \in Nat
<1>1. /\ Restrict(L, S) = [t \in S |-> L[t]]
      /\ DOMAIN Restrict(L, S) = S
  BY DEF Restrict
<1>2. Restrict(L, S) \in [S -> FilledFrame]
  BY <1>1, FrameListTypes
<1>3. Restrict(L, S) \in FrameList
  BY <1>2, FrameListTypes DEF FrameList
<1>4. /\ Cardinality(S) \in Nat /\ Cardinality(DOMAIN L) \in Nat
      /\ Cardinality(S) <= Cardinality(DOMAIN L)
  BY FrameListTypes, FS_Subset, FS_CardinalityType
<1> QED
  BY <1>1, <1>3, <1>4 DEF Dropped

\* Taking a set of frames out of a list.
LEMMA RemoveType ==
    ASSUME NEW L \in FrameList, NEW S
    PROVE  /\ Remove(L, S) \in FrameList
           /\ DOMAIN Remove(L, S) = DOMAIN L \ S
           /\ \A t \in DOMAIN L \ S : Remove(L, S)[t] = L[t]
           /\ Dropped(L, Remove(L, S)) \in Nat
BY RestrictType, DOMAIN L \ S \subseteq DOMAIN L DEF Remove

\* Keeping the frames from a timestamp on.
LEMMA FromType ==
    ASSUME NEW L \in FrameList, NEW t
    PROVE  /\ From(L, t) \in FrameList
           /\ DOMAIN From(L, t) \subseteq DOMAIN L
           /\ \A u \in DOMAIN From(L, t) : From(L, t)[u] = L[u]
           /\ Dropped(L, From(L, t)) \in Nat
<1> DEFINE S == {u \in DOMAIN L : ~IsNewerTimestamp(t, u)}
<1>1. S \subseteq DOMAIN L
  OBVIOUS
<1> QED
  BY <1>1, RestrictType DEF From

\* map::insert of a frame.
LEMMA InsertFrameType ==
    ASSUME NEW L \in FrameList, NEW t \in Timestamp, NEW f \in FilledFrame
    PROVE  /\ InsertFrame(L, t, f) \in FrameList
           /\ DOMAIN InsertFrame(L, t, f) = DOMAIN L \cup {t}
<1>1. InsertFrame(L, t, f) \in [DOMAIN L \cup {t} -> FilledFrame]
  BY FrameListTypes DEF InsertFrame
<1>2. DOMAIN L \cup {t} \in SUBSET Timestamp
  BY FrameListTypes
<1>3. DOMAIN InsertFrame(L, t, f) = DOMAIN L \cup {t}
  BY DEF InsertFrame
<1> QED
  BY <1>1, <1>2, <1>3 DEF FrameList

\* Both ways of shortening the NACK list leave a part of it.
LEMMA DropTypes ==
    ASSUME NEW M \in SUBSET SeqNum, NEW s, NEW L, NEW K
    PROVE  /\ DropPackets(M, s) \in SUBSET SeqNum
           /\ DropPackets(M, s) \subseteq M
           /\ DropBelowKeys(L, M, K) \in SUBSET SeqNum
           /\ DropBelowKeys(L, M, K) \subseteq M
BY DEF DropPackets, DropBelowKeys

-----------------------------------------------------------------------------
\* Start keeps the type of the buffer.
LEMMA StartType ==
    ASSUME NEW j \in JB
    PROVE  Start(j) \in JB
BY RingTypes DEF Start, JB

\* FreeAllFrames keeps the type of the buffer.
LEMMA FreeAllFramesType ==
    ASSUME NEW j \in JB
    PROVE  FreeAllFrames(j) \in JB
<1>1. j.decodable \in FrameList /\ j.incomplete \in FrameList
  BY DEF JB
<1>2. /\ Cardinality(DOMAIN j.decodable) \in Nat
      /\ Cardinality(DOMAIN j.incomplete) \in Nat
  BY <1>1, FrameListTypes
<1>3. j.free + Cardinality(DOMAIN j.decodable)
             + Cardinality(DOMAIN j.incomplete) \in Nat
  BY <1>2 DEF JB
<1> QED
  BY <1>3, EmptyListType, RingTypes DEF FreeAllFrames, JB

\* Stop and Flush keep the type of the buffer.
LEMMA StopFlushTypes ==
    ASSUME NEW j \in JB
    PROVE  Stop(j) \in JB /\ Flush(j) \in JB
BY FreeAllFramesType DEF Stop, Flush, JB

-----------------------------------------------------------------------------
(***************************************************************************)
(* What any number of rounds of RecycleFramesUntilKeyFrame may do: keep a  *)
(* part of each list, give the rest back to the pool, shorten the NACK     *)
(* list and reset the decoding state.                                      *)
(***************************************************************************)
Sublist(K, L) ==
    /\ K \in FrameList
    /\ DOMAIN K \subseteq DOMAIN L
    /\ \A t \in DOMAIN K : K[t] = L[t]

Recycled(j, i, d, M, st) ==
    [j EXCEPT !.incomplete = i, !.decodable = d,
              !.free = j.free + Dropped(j.incomplete, i)
                              + Dropped(j.decodable, d),
              !.missing = M, !.last = st]

IsRecycled(j, k) ==
    \E i, d \in FrameList : \E M \in SUBSET j.missing : \E st \in DecodingState :
        /\ Sublist(i, j.incomplete)
        /\ Sublist(d, j.decodable)
        /\ st \in {j.last, InitialDecodingState}
        /\ k = Recycled(j, i, d, M, st)

\* What a part of a list lacks of it is a number of frames.
LEMMA SublistDropped ==
    ASSUME NEW L \in FrameList, NEW K, Sublist(K, L)
    PROVE  Dropped(L, K) \in Nat
<1>1. /\ Cardinality(DOMAIN K) \in Nat /\ Cardinality(DOMAIN L) \in Nat
      /\ Cardinality(DOMAIN K) <= Cardinality(DOMAIN L)
  BY FrameListTypes, FS_Subset DEF Sublist
<1> QED
  BY <1>1 DEF Dropped

\* The parts of a list that the operations keep.
LEMMA SublistFacts ==
    ASSUME NEW L \in FrameList
    PROVE  /\ Sublist(L, L) /\ Sublist(EmptyList, L)
           /\ \A t : Sublist(From(L, t), L)
           /\ \A S : Sublist(Remove(L, S), L)
           /\ Dropped(L, L) = 0
<1>1. Sublist(L, L) /\ Sublist(EmptyList, L)
  BY EmptyListType DEF Sublist
<1>2. \A t : Sublist(From(L, t), L)
  BY FromType DEF Sublist
<1>3. \A S : Sublist(Remove(L, S), L)
  BY RemoveType DEF Sublist
<1>4. Dropped(L, L) = 0
  BY FrameListTypes DEF Dropped
<1> QED
  BY <1>1, <1>2, <1>3, <1>4

\* A recycled buffer is a buffer, with shorter lists and a fuller pool.
LEMMA RecycledType ==
    ASSUME NEW j \in JB, NEW k, IsRecycled(j, k)
    PROVE  /\ k \in JB
           /\ k.missing \subseteq j.missing
           /\ Sublist(k.incomplete, j.incomplete)
           /\ Sublist(k.decodable, j.decodable)
           /\ k.allocated = j.allocated
           /\ k.free = j.free + Dropped(j.incomplete, k.incomplete)
                              + Dropped(j.decodable, k.decodable)
<1>1. PICK i \in FrameList, d \in FrameList, M \in SUBSET j.missing,
           st \in DecodingState :
        /\ Sublist(i, j.incomplete)
        /\ Sublist(d, j.decodable)
        /\ k = Recycled(j, i, d, M, st)
  BY DEF IsRecycled
<1>2. j.incomplete \in FrameList /\ j.decodable \in FrameList /\ j.free \in Nat
  BY DEF JB
<1>3. j.free + Dropped(j.incomplete, i) + Dropped(j.decodable, d) \in Nat
  BY <1>1, <1>2, SublistDropped
<1>4. M \in SUBSET SeqNum
  BY DEF JB
<1> QED
  BY <1>1, <1>3, <1>4 DEF Recycled, JB

\* Stopping at a later key frame throws at least the front of the list.
LEMMA FromDrops ==
    ASSUME NEW L \in FrameList, NEW t \in LaterKeys(L)
    PROVE  Dropped(L, From(L, t)) > 0
<1>1. PICK u \in DOMAIN L : IsNewerTimestamp(t, u)
  BY DEF LaterKeys, IsFront
<1>2. DOMAIN From(L, t) \subseteq DOMAIN L \ {u}
  BY <1>1, RestrictType,
     {v \in DOMAIN L : ~IsNewerTimestamp(t, v)} \subseteq DOMAIN L DEF From
<1>3. IsFiniteSet(DOMAIN L) /\ Cardinality(DOMAIN L) \in Nat
  BY FrameListTypes
<1>4. /\ IsFiniteSet(DOMAIN L \ {u})
      /\ Cardinality(DOMAIN L \ {u}) = Cardinality(DOMAIN L) - 1
  BY <1>3, FS_RemoveElement
<1>5. /\ Cardinality(DOMAIN From(L, t)) <= Cardinality(DOMAIN L) - 1
      /\ Cardinality(DOMAIN From(L, t)) \in Nat
  BY <1>2, <1>4, FS_Subset, FS_CardinalityType
<1> QED
  BY <1>3, <1>5 DEF Dropped

\* Emptying a list that is not empty throws a frame.
LEMMA EmptyListDrops ==
    ASSUME NEW L \in FrameList, ~IsEmpty(L)
    PROVE  Dropped(L, EmptyList) > 0
<1>1. IsFiniteSet(DOMAIN L) /\ Cardinality(DOMAIN L) \in Nat
  BY FrameListTypes
<1>2. Cardinality(DOMAIN L) # 0
  BY <1>1, FS_EmptySet DEF IsEmpty
<1> QED
  BY <1>1, <1>2, EmptyListType DEF Dropped

\* RecycleFramesUntilKeyFrame recycles, and frees a frame if there is one.
LEMMA RecycleRecycles ==
    ASSUME NEW j \in JB
    PROVE  LET r == RecycleFramesUntilKeyFrame(j)
           IN  /\ IsRecycled(j, r.jb)
               /\ r.key \in BOOLEAN
               /\ ~IsEmpty(j.incomplete) \/ ~IsEmpty(j.decodable)
                     => r.jb.free > 0
<1> DEFINE Enough(M) == TRUE
           inc == j.incomplete
           dcd == j.decodable
           inStop == StopKey(inc, j.missing, Enough)
           M == DropBelowKeys(inc, j.missing, LaterKeys(inc))
           decStop == StopKey(dcd, M, Enough)
           ti == CHOOSE t \in inStop : TRUE
           td == CHOOSE t \in decStop : TRUE
           Mi == DropBelowKeys(inc, j.missing, UpTo(inc, ti))
           Md == DropBelowKeys(dcd, M, UpTo(dcd, td))
           r == RecycleFramesUntilKeyFrame(j)
<1>1. /\ inStop # {} => ti \in LaterKeys(inc)
      /\ decStop # {} => td \in LaterKeys(dcd)
  <2>1. inStop \subseteq LaterKeys(inc) /\ decStop \subseteq LaterKeys(dcd)
    BY DEF StopKey
  <2> HIDE DEF inStop, decStop
  <2> QED
    BY <2>1
<1>2. \/ /\ r.jb = Recycled(j, From(inc, ti), dcd, Mi, InitialDecodingState)
         /\ r.key = TRUE /\ inStop # {}
      \/ /\ r.jb = Recycled(j, EmptyList, dcd, M, j.last)
         /\ r.key = FALSE /\ ~IsEmpty(inc)
      \/ /\ r.jb = Recycled(j, EmptyList, From(dcd, td), Md, InitialDecodingState)
         /\ r.key = TRUE /\ decStop # {}
      \/ /\ r.jb = Recycled(j, EmptyList, EmptyList, {}, InitialDecodingState)
         /\ r.key = FALSE
  BY DEF RecycleFramesUntilKeyFrame, RecycleUntil, Recycled, JB
<1>3. /\ inc \in FrameList /\ dcd \in FrameList /\ EmptyList \in FrameList
      /\ j.last \in DecodingState /\ InitialDecodingState \in DecodingState
  BY EmptyListType, RingTypes DEF JB
<1>4. /\ From(inc, ti) \in FrameList /\ From(dcd, td) \in FrameList
      /\ Sublist(From(inc, ti), inc) /\ Sublist(From(dcd, td), dcd)
      /\ Sublist(EmptyList, inc) /\ Sublist(EmptyList, dcd) /\ Sublist(dcd, dcd)
  BY <1>3, SublistFacts, FromType
<1>5. /\ M \in SUBSET j.missing /\ Mi \in SUBSET j.missing
      /\ Md \in SUBSET j.missing /\ {} \in SUBSET j.missing
  BY DEF DropBelowKeys
<1> HIDE DEF Enough, inStop, M, decStop, ti, td, Mi, Md, r
<1>6. r.key \in BOOLEAN
  BY <1>2
<1>7. IsRecycled(j, r.jb)
  BY <1>2, <1>3, <1>4, <1>5 DEF IsRecycled
<1>8. \A i, d, N, st : Recycled(j, i, d, N, st).free =
         j.free + Dropped(inc, i) + Dropped(dcd, d)
  BY DEF Recycled, JB
<1>9. ASSUME ~IsEmpty(inc) \/ ~IsEmpty(dcd)
      PROVE  r.jb.free > 0
  <2>1. /\ Dropped(inc, EmptyList) \in Nat /\ Dropped(dcd, EmptyList) \in Nat
        /\ Dropped(inc, From(inc, ti)) \in Nat
        /\ Dropped(dcd, From(dcd, td)) \in Nat
        /\ Dropped(dcd, dcd) = 0 /\ j.free \in Nat
    BY <1>3, <1>4, SublistDropped, SublistFacts DEF JB
  <2>2. /\ ~IsEmpty(inc) => Dropped(inc, EmptyList) > 0
        /\ ~IsEmpty(dcd) => Dropped(dcd, EmptyList) > 0
        /\ inStop # {} => Dropped(inc, From(inc, ti)) > 0
        /\ decStop # {} => Dropped(dcd, From(dcd, td)) > 0
    BY <1>1, <1>3, EmptyListDrops, FromDrops
  <2>3. CASE /\ r.jb = Recycled(j, From(inc, ti), dcd, Mi, InitialDecodingState)
             /\ inStop # {}
    BY <2>1, <2>2, <2>3, <1>8
  <2>4. CASE /\ r.jb = Recycled(j, EmptyList, dcd, M, j.last)
             /\ ~IsEmpty(inc)
    BY <2>1, <2>2, <2>4, <1>8
  <2>5. CASE /\ r.jb = Recycled(j, EmptyList, From(dcd, td), Md, InitialDecodingState)
             /\ decStop # {}
    BY <2>1, <2>2, <2>5, <1>8
  <2>6. CASE r.jb = Recycled(j, EmptyList, EmptyList, {}, InitialDecodingState)
    BY <2>1, <2>2, <2>6, <1>8, <1>9
  <2> QED
    BY <1>2, <2>3, <2>4, <2>5, <2>6
<1> QED
  BY <1>6, <1>7, <1>9 DEF r

\* HandleTooOldPackets recycles.
LEMMA TooOldRecycles ==
    ASSUME NEW j \in JB, NEW seq
    PROVE  LET r == HandleTooOldPackets(j, seq)
           IN  /\ IsRecycled(j, r.jb)
               /\ r.key \in BOOLEAN
<1> DEFINE Enough(M) == YoungEnough(M, seq)
           inc == j.incomplete
           dcd == j.decodable
           inStop == StopKey(inc, j.missing, Enough)
           M == DropBelowKeys(inc, j.missing, LaterKeys(inc))
           decStop == StopKey(dcd, M, Enough)
           ti == CHOOSE t \in inStop : TRUE
           td == CHOOSE t \in decStop : TRUE
           Mi == DropBelowKeys(inc, j.missing, UpTo(inc, ti))
           Md == DropBelowKeys(dcd, M, UpTo(dcd, td))
           r == HandleTooOldPackets(j, seq)
<1>2. \/ /\ r.jb = Recycled(j, From(inc, ti), dcd, Mi, InitialDecodingState)
         /\ r.key = TRUE
      \/ /\ r.jb = Recycled(j, EmptyList, dcd, M, j.last)
         /\ r.key = FALSE
      \/ /\ r.jb = Recycled(j, EmptyList, From(dcd, td), Md, InitialDecodingState)
         /\ r.key = TRUE
      \/ /\ r.jb = Recycled(j, EmptyList, EmptyList, {}, InitialDecodingState)
         /\ r.key = FALSE
  BY ZenonT(60) DEF HandleTooOldPackets, RecycleUntil, Recycled, JB
<1>3. /\ inc \in FrameList /\ dcd \in FrameList /\ EmptyList \in FrameList
      /\ j.last \in DecodingState /\ InitialDecodingState \in DecodingState
  BY EmptyListType, RingTypes DEF JB
<1>4. /\ From(inc, ti) \in FrameList /\ From(dcd, td) \in FrameList
      /\ Sublist(From(inc, ti), inc) /\ Sublist(From(dcd, td), dcd)
      /\ Sublist(EmptyList, inc) /\ Sublist(EmptyList, dcd) /\ Sublist(dcd, dcd)
  BY <1>3, SublistFacts, FromType
<1>5. /\ M \in SUBSET j.missing /\ Mi \in SUBSET j.missing
      /\ Md \in SUBSET j.missing /\ {} \in SUBSET j.missing
  BY DEF DropBelowKeys
<1> HIDE DEF Enough, inStop, M, decStop, ti, td, Mi, Md, r
<1>6. r.key \in BOOLEAN
  BY <1>2
<1>7. IsRecycled(j, r.jb)
  BY <1>2, <1>3, <1>4, <1>5 DEF IsRecycled
<1> QED
  BY <1>6, <1>7 DEF r

\* HandleTooLargeNackList recycles until the NACK list is small enough.
LEMMA TooLargeRecycles ==
    ASSUME NEW j \in JB
    PROVE  LET r == HandleTooLargeNackList(j)
           IN  /\ IsRecycled(j, r.jb)
               /\ r.key \in BOOLEAN
               /\ SmallEnough(r.jb.missing)
<1> DEFINE inc == j.incomplete
           dcd == j.decodable
           inStop == StopKey(inc, j.missing, SmallEnough)
           M == DropBelowKeys(inc, j.missing, LaterKeys(inc))
           decStop == StopKey(dcd, M, SmallEnough)
           ti == CHOOSE t \in inStop : TRUE
           td == CHOOSE t \in decStop : TRUE
           Mi == DropBelowKeys(inc, j.missing, UpTo(inc, ti))
           Md == DropBelowKeys(dcd, M, UpTo(dcd, td))
           r == HandleTooLargeNackList(j)
<1>1. /\ inStop # {} => SmallEnough(Mi)
      /\ decStop # {} => SmallEnough(Md)
  BY DEF StopKey
<1>2. \/ /\ r.jb = Recycled(j, From(inc, ti), dcd, Mi, InitialDecodingState)
         /\ r.key = TRUE /\ inStop # {}
      \/ /\ r.jb = Recycled(j, EmptyList, dcd, M, j.last)
         /\ r.key = FALSE /\ SmallEnough(M)
      \/ /\ r.jb = Recycled(j, EmptyList, From(dcd, td), Md, InitialDecodingState)
         /\ r.key = TRUE /\ decStop # {}
      \/ /\ r.jb = Recycled(j, EmptyList, EmptyList, {}, InitialDecodingState)
         /\ r.key = FALSE
  BY DEF HandleTooLargeNackList, RecycleUntil, Recycled, JB
<1>3. /\ inc \in FrameList /\ dcd \in FrameList /\ EmptyList \in FrameList
      /\ j.last \in DecodingState /\ InitialDecodingState \in DecodingState
  BY EmptyListType, RingTypes DEF JB
<1>4. /\ From(inc, ti) \in FrameList /\ From(dcd, td) \in FrameList
      /\ Sublist(From(inc, ti), inc) /\ Sublist(From(dcd, td), dcd)
      /\ Sublist(EmptyList, inc) /\ Sublist(EmptyList, dcd) /\ Sublist(dcd, dcd)
  BY <1>3, SublistFacts, FromType
<1>5. /\ M \in SUBSET j.missing /\ Mi \in SUBSET j.missing
      /\ Md \in SUBSET j.missing /\ {} \in SUBSET j.missing
  BY DEF DropBelowKeys
<1>6. \A i, d, N, st : Recycled(j, i, d, N, st).missing = N
  BY DEF Recycled, JB
<1>7. SmallEnough({})
  BY FS_EmptySet, JitterBufferAssumption DEF SmallEnough
<1> HIDE DEF inc, dcd, inStop, M, decStop, ti, td, Mi, Md, r
<1>8. r.jb.missing = {} \/ (r.jb.missing = M /\ SmallEnough(M))
      \/ (r.jb.missing = Mi /\ SmallEnough(Mi))
      \/ (r.jb.missing = Md /\ SmallEnough(Md))
  <2>1. CASE r.jb = Recycled(j, From(inc, ti), dcd, Mi, InitialDecodingState)
             /\ inStop # {}
    BY <2>1, <1>1, <1>6
  <2>2. CASE r.jb = Recycled(j, EmptyList, dcd, M, j.last) /\ SmallEnough(M)
    BY <2>2, <1>6
  <2>3. CASE r.jb = Recycled(j, EmptyList, From(dcd, td), Md, InitialDecodingState)
             /\ decStop # {}
    BY <2>3, <1>1, <1>6
  <2>4. CASE r.jb = Recycled(j, EmptyList, EmptyList, {}, InitialDecodingState)
    BY <2>4, <1>6
  <2> QED
    BY <1>2, <2>1, <2>2, <2>3, <2>4
<1>10. SmallEnough(r.jb.missing)
  BY <1>7, <1>8, Zenon
<1>11. r.key \in BOOLEAN
  BY <1>2
<1>9. IsRecycled(j, r.jb)
  BY <1>2, <1>3, <1>4, <1>5 DEF IsRecycled, inc, dcd
<1> QED
  BY <1>9, <1>10, <1>11 DEF r

-----------------------------------------------------------------------------
(***************************************************************************)
(* Most operations only take frames out of the two lists and give them     *)
(* back to the pool.                                                       *)
(***************************************************************************)
Count(j) == j.free + Cardinality(DOMAIN j.decodable)
                   + Cardinality(DOMAIN j.incomplete)

Shrinks(j, k) ==
    /\ k \in JB
    /\ Sublist(k.incomplete, j.incomplete)
    /\ Sublist(k.decodable, j.decodable)
    /\ k.allocated = j.allocated
    /\ Count(k) = Count(j)

\* The numbers of frames are numbers.
LEMMA CountType ==
    ASSUME NEW j \in JB
    PROVE  /\ j.decodable \in FrameList /\ j.incomplete \in FrameList
           /\ Cardinality(DOMAIN j.decodable) \in Nat
           /\ Cardinality(DOMAIN j.incomplete) \in Nat
           /\ j.free \in Nat /\ j.allocated \in Nat
           /\ Count(j) \in Nat
<1>1. /\ j.decodable \in FrameList /\ j.incomplete \in FrameList
      /\ j.free \in Nat /\ j.allocated \in Nat
  BY DEF JB
<1> QED
  BY <1>1, FrameListTypes DEF Count

\* Doing nothing shrinks.
LEMMA ShrinksReflexive ==
    ASSUME NEW j \in JB
    PROVE  Shrinks(j, j)
BY CountType, SublistFacts DEF Shrinks

\* Shrinking twice shrinks.
LEMMA ShrinksTransitive ==
    ASSUME NEW j, NEW k, NEW l, Shrinks(j, k), Shrinks(k, l)
    PROVE  Shrinks(j, l)
BY DEF Shrinks, Sublist

\* Only the two lists and the number of free frames matter to Shrinks.
LEMMA ShrinksSame ==
    ASSUME NEW j, NEW k, NEW l \in JB, Shrinks(j, k),
           l.incomplete = k.incomplete, l.decodable = k.decodable,
           l.free = k.free, l.allocated = k.allocated
    PROVE  Shrinks(j, l)
BY DEF Shrinks, Count

\* What was dropped from the lists is in the pool.
LEMMA DroppedIsFreed ==
    ASSUME NEW j \in JB, NEW k \in JB,
           Sublist(k.incomplete, j.incomplete),
           Sublist(k.decodable, j.decodable),
           k.allocated = j.allocated,
           k.free = j.free + Dropped(j.incomplete, k.incomplete)
                           + Dropped(j.decodable, k.decodable)
    PROVE  Shrinks(j, k)
<1>1. Count(k) = Count(j)
  BY CountType DEF Count, Dropped
<1> QED
  BY <1>1 DEF Shrinks

\* Recycling shrinks.
LEMMA RecycledShrinks ==
    ASSUME NEW j \in JB, NEW k, IsRecycled(j, k)
    PROVE  Shrinks(j, k) /\ k.missing \subseteq j.missing
BY RecycledType, DroppedIsFreed

\* Start leaves the lists, the pool and the NACK list alone.
LEMMA StartShrinks ==
    ASSUME NEW j \in JB
    PROVE  Shrinks(j, Start(j)) /\ Start(j).missing = j.missing
<1>1. /\ Start(j).incomplete = j.incomplete
      /\ Start(j).decodable = j.decodable
      /\ Start(j).free = j.free /\ Start(j).allocated = j.allocated
      /\ Start(j).missing = j.missing
  BY DEF Start, JB
<1> QED
  BY <1>1, StartType, ShrinksReflexive, ShrinksSame

\* FreeAllFrames gives every frame of the lists back.
LEMMA FreeAllFramesShrinks ==
    ASSUME NEW j \in JB
    PROVE  /\ Shrinks(j, FreeAllFrames(j))
           /\ FreeAllFrames(j).missing = j.missing
<1> DEFINE k == FreeAllFrames(j)
<1>1. /\ k.incomplete = EmptyList
      /\ k.decodable = EmptyList
      /\ k.free = j.free + Cardinality(DOMAIN j.decodable)
                         + Cardinality(DOMAIN j.incomplete)
      /\ k.allocated = j.allocated
      /\ k.missing = j.missing
  BY DEF FreeAllFrames, JB
<1>2. k \in JB
  BY FreeAllFramesType
<1> HIDE DEF k
<1>3. Sublist(k.incomplete, j.incomplete) /\ Sublist(k.decodable, j.decodable)
  BY <1>1, CountType, SublistFacts
<1>4. Count(k) = Count(j)
  BY <1>1, EmptyListType, CountType DEF Count
<1>5. Shrinks(j, k)
  BY <1>1, <1>2, <1>3, <1>4 DEF Shrinks
<1> QED
  BY <1>1, <1>5 DEF k

\* Stop and Flush give every frame back; only Flush clears the NACK list.
LEMMA StopFlushShrink ==
    ASSUME NEW j \in JB
    PROVE  /\ Shrinks(j, Stop(j)) /\ Stop(j).missing = j.missing
           /\ Shrinks(j, Flush(j)) /\ Flush(j).missing = {}
<1> DEFINE k == FreeAllFrames(j)
<1>1. k \in JB /\ Shrinks(j, k) /\ k.missing = j.missing
  BY FreeAllFramesShrinks DEF Shrinks
<1> HIDE DEF k
<1>2. /\ Stop(j) = [k EXCEPT !.running = FALSE, !.event = TRUE]
      /\ Flush(j) = [k EXCEPT !.old = 0, !.fresh = TRUE, !.missing = {}]
  BY DEF Stop, Flush, k
<1>3. /\ Stop(j).incomplete = k.incomplete /\ Stop(j).decodable = k.decodable
      /\ Stop(j).free = k.free /\ Stop(j).allocated = k.allocated
      /\ Stop(j).missing = k.missing
  BY <1>1, <1>2 DEF JB
<1>4. /\ Flush(j).incomplete = k.incomplete /\ Flush(j).decodable = k.decodable
      /\ Flush(j).free = k.free /\ Flush(j).allocated = k.allocated
      /\ Flush(j).missing = {}
  BY <1>1, <1>2 DEF JB
<1> QED
  BY <1>1, <1>3, <1>4, StopFlushTypes, ShrinksSame

-----------------------------------------------------------------------------
\* A part of a NACK list that is small enough is small enough.
LEMMA SmallSubset ==
    ASSUME NEW M \in SUBSET SeqNum, NEW N \in SUBSET M, SmallEnough(M)
    PROVE  SmallEnough(N)
<1>1. IsFiniteSet(M)
  BY RingTypes, FS_Subset
<1>2. /\ Cardinality(N) \in Nat /\ Cardinality(M) \in Nat
      /\ Cardinality(N) <= Cardinality(M)
  BY <1>1, FS_Subset, FS_CardinalityType
<1> QED
  BY <1>2, JitterBufferAssumption DEF SmallEnough

\* UpdateNackList leaves a NACK list that is small enough.
LEMMA UpdateNackListShrinks ==
    ASSUME NEW j \in JB, NEW seq \in SeqNum
    PROVE  LET u == UpdateNackList(j, seq)
           IN  /\ Shrinks(j, u.jb)
               /\ u.key \in BOOLEAN
               /\ SmallEnough(j.missing) => SmallEnough(u.jb.missing)
<1> DEFINE latest == IF j.last.initial THEN j.latest
                     ELSE LatestSequenceNumber(j.latest, j.last.seq)
           between == SeqBetween(latest, seq)
           grown == [j EXCEPT !.latest = latest, !.missing = @ \cup between]
           less == [j EXCEPT !.latest = latest, !.missing = @ \ {seq}]
           small == IF SmallEnough(grown.missing)
                    THEN [jb |-> grown, key |-> TRUE]
                    ELSE HandleTooLargeNackList(grown)
           old == HandleTooOldPackets(small.jb, seq)
           u == UpdateNackList(j, seq)
<1>1. latest \in SeqNum
  BY RingTypes DEF JB, DecodingState
<1>2. between \in SUBSET SeqNum
  BY <1>1, RingTypes
<1>3. \/ u = [jb |-> j, key |-> TRUE]
      \/ u = [jb |-> less, key |-> TRUE]
      \/ u = small
      \/ u = old
  BY DEF UpdateNackList, DropTooOld
<1> HIDE DEF latest, between
<1>4. /\ less \in JB /\ less.missing = j.missing \ {seq}
      /\ less.incomplete = j.incomplete /\ less.decodable = j.decodable
      /\ less.free = j.free /\ less.allocated = j.allocated
  BY <1>1 DEF JB
<1>5. /\ grown \in JB
      /\ grown.incomplete = j.incomplete /\ grown.decodable = j.decodable
      /\ grown.free = j.free /\ grown.allocated = j.allocated
  BY <1>1, <1>2 DEF JB
<1> HIDE DEF less, grown
<1>6. Shrinks(j, less) /\ Shrinks(j, grown)
  BY <1>4, <1>5, ShrinksReflexive, ShrinksSame
<1>7. SmallEnough(j.missing) => SmallEnough(less.missing)
  BY <1>4, SmallSubset DEF JB
<1>8. /\ Shrinks(j, small.jb) /\ small.key \in BOOLEAN
      /\ SmallEnough(small.jb.missing)
  <2>1. CASE SmallEnough(grown.missing)
    BY <2>1, <1>6
  <2>2. CASE ~SmallEnough(grown.missing)
    <3>1. small = HandleTooLargeNackList(grown)
      BY <2>2
    <3>2. /\ IsRecycled(grown, small.jb) /\ small.key \in BOOLEAN
          /\ SmallEnough(small.jb.missing)
      BY <3>1, <1>5, TooLargeRecycles
    <3>3. Shrinks(grown, small.jb)
      BY <3>2, <1>5, RecycledShrinks
    <3> QED
      BY <3>2, <3>3, <1>6, ShrinksTransitive
  <2> QED
    BY <2>1, <2>2
<1> HIDE DEF small
<1>9. /\ Shrinks(j, old.jb) /\ old.key \in BOOLEAN
      /\ SmallEnough(old.jb.missing)
  <2>1. small.jb \in JB
    BY <1>8 DEF Shrinks
  <2>2. IsRecycled(small.jb, old.jb) /\ old.key \in BOOLEAN
    BY <2>1, TooOldRecycles
  <2>3. Shrinks(small.jb, old.jb) /\ old.jb.missing \subseteq small.jb.missing
    BY <2>1, <2>2, RecycledShrinks
  <2>4. small.jb.missing \in SUBSET SeqNum
    BY <2>1 DEF JB
  <2> QED
    BY <2>2, <2>3, <2>4, <1>8, ShrinksTransitive, SmallSubset
<1> HIDE DEF old, u
<1>10. CASE u = [jb |-> j, key |-> TRUE]
  BY <1>10, ShrinksReflexive DEF u
<1>11. CASE u = [jb |-> less, key |-> TRUE]
  BY <1>11, <1>6, <1>7 DEF u
<1>12. CASE u = small
  BY <1>12, <1>8 DEF u
<1>13. CASE u = old
  BY <1>13, <1>9 DEF u
<1> QED
  BY <1>3, <1>10, <1>11, <1>12, <1>13

\* An old packet flushes the buffer, or shortens the NACK list.
LEMMA InsertOldPacketShrinks ==
    ASSUME NEW j \in JB, NEW p \in Packet
    PROVE  LET r == InsertOldPacket(j, p)
           IN  /\ Shrinks(j, r.jb)
               /\ SmallEnough(j.missing) => SmallEnough(r.jb.missing)
               /\ r.ret \in {"kFlushIndicator", "kOldPacket"}
<1> DEFINE last == UpdateOldPacket(j.last, p)
           old == IF p.type = "empty" THEN j.old ELSE j.old + 1
           missing == DropPackets(j.missing, last.seq)
           seen == [j EXCEPT !.old = old, !.last = last, !.missing = missing]
           r == InsertOldPacket(j, p)
<1>1. last \in DecodingState
  BY RingTypes DEF UpdateOldPacket, JB, DecodingState, Packet
<1>2. old \in Nat /\ missing \in SUBSET SeqNum /\ missing \subseteq j.missing
  BY DropTypes DEF JB
<1>3. \/ r = [jb |-> Flush(seen), ret |-> "kFlushIndicator"]
      \/ r = [jb |-> seen, ret |-> "kOldPacket"]
  BY DEF InsertOldPacket
<1> HIDE DEF last, old, missing, r
<1>4. /\ seen \in JB /\ seen.missing = missing
      /\ seen.incomplete = j.incomplete /\ seen.decodable = j.decodable
      /\ seen.free = j.free /\ seen.allocated = j.allocated
  BY <1>1, <1>2 DEF JB
<1> HIDE DEF seen
<1>5. Shrinks(j, seen) /\ Shrinks(j, Flush(seen)) /\ Flush(seen).missing = {}
  BY <1>4, ShrinksReflexive, ShrinksSame, StopFlushShrink, ShrinksTransitive
<1>6. j.missing \in SUBSET SeqNum
  BY DEF JB
<1>7. SmallEnough(j.missing) => SmallEnough(seen.missing) /\ SmallEnough({})
  BY <1>2, <1>4, <1>6, SmallSubset
<1>8. CASE r = [jb |-> Flush(seen), ret |-> "kFlushIndicator"]
  BY <1>8, <1>5, <1>7 DEF r
<1>9. CASE r = [jb |-> seen, ret |-> "kOldPacket"]
  BY <1>9, <1>5, <1>7 DEF r
<1> QED
  BY <1>3, <1>8, <1>9

\* Skipping an empty frame leaves a position in the stream.
LEMMA SkipEmptyFrameType ==
    ASSUME NEW st \in DecodingState, NEW f \in FilledFrame, NEW t \in Timestamp
    PROVE  SkipEmptyFrame(st, f, t) \in DecodingState
<1>1. HighSequenceNumber(f) \in SeqNum
  BY FilledFrameTypes
<1> QED
  BY <1>1 DEF SkipEmptyFrame, DecodingState

\* CleanUpList keeps a part of the list.
LEMMA CleanUpListType ==
    ASSUME NEW L \in FrameList, NEW st \in DecodingState
    PROVE  LET c == CleanUpList(L, st)
           IN  Sublist(c.list, L) /\ c.last \in DecodingState
<1> DEFINE Older(t) == {u \in DOMAIN L : IsNewerTimestamp(t, u)}
           StateAt(t) ==
             StateAfterSkipping(L, st, {u \in Older(t) : IsVoid(L, u)})
           Removable(t) == IF IsVoid(L, t) THEN CanSkipEmptyFrame(StateAt(t), L[t])
                                           ELSE IsOldTimestamp(StateAt(t), t)
           gone == {t \in DOMAIN L :
                      Removable(t) /\ \A u \in Older(t) : Removable(u)}
           skipped == {t \in gone : IsVoid(L, t)}
           final == {t \in skipped : \A u \in skipped : ~IsNewerTimestamp(u, t)}
           t == CHOOSE t \in final : TRUE
           last == IF st.initial \/ final = {} THEN st
                   ELSE SkipEmptyFrame(st, L[t], t)
<1>0. CleanUpList(L, st) = WithoutFrames(L, st, gone)
  BY DEF CleanUpList
<1>1. CleanUpList(L, st) = [list |-> Remove(L, gone), last |-> last]
  BY <1>0 DEF WithoutFrames, StateAfterSkipping
<1>2. final \subseteq DOMAIN L
  OBVIOUS
<1> HIDE DEF gone, final
<1>3. final # {} => t \in DOMAIN L
  BY <1>2
<1>4. final # {} => SkipEmptyFrame(st, L[t], t) \in DecodingState
  BY <1>3, FrameListTypes, SkipEmptyFrameType
<1>5. Sublist(Remove(L, gone), L)
  BY SublistFacts
<1>6. last \in DecodingState
  BY <1>4
<1> HIDE DEF last
<1> QED
  BY <1>1, <1>5, <1>6

\* CleanUpOldOrEmptyFrames frees what it takes out of the lists.
LEMMA CleanUpShrinks ==
    ASSUME NEW j \in JB
    PROVE  LET k == CleanUpOldOrEmptyFrames(j)
           IN  Shrinks(j, k) /\ k.missing \subseteq j.missing
<1> DEFINE d == CleanUpList(j.decodable, j.last)
           i == CleanUpList(j.incomplete, d.last)
           free == j.free + Dropped(j.decodable, d.list)
                          + Dropped(j.incomplete, i.list)
           missing == IF i.last.initial THEN j.missing
                      ELSE DropPackets(j.missing, i.last.seq)
           k == CleanUpOldOrEmptyFrames(j)
<1>1. Sublist(d.list, j.decodable) /\ d.last \in DecodingState
  BY CleanUpListType DEF JB
<1>2. Sublist(i.list, j.incomplete) /\ i.last \in DecodingState
  BY <1>1, CleanUpListType DEF JB
<1>3. missing \in SUBSET SeqNum /\ missing \subseteq j.missing
  BY DropTypes DEF JB
<1>4. free \in Nat /\ free = j.free + Dropped(j.incomplete, i.list)
                                    + Dropped(j.decodable, d.list)
  BY <1>1, <1>2, SublistDropped, CountType
<1>5. k = [j EXCEPT !.decodable = d.list, !.incomplete = i.list,
                    !.free = free, !.last = i.last, !.missing = missing]
  BY DEF CleanUpOldOrEmptyFrames, CleanedUp
<1>6. d.list \in FrameList /\ i.list \in FrameList
  BY <1>1, <1>2 DEF Sublist
<1> HIDE DEF d, i, free, missing, k
<1>7. /\ k \in JB /\ k.missing = missing /\ k.free = free
      /\ k.decodable = d.list /\ k.incomplete = i.list
      /\ k.allocated = j.allocated
  BY <1>2, <1>3, <1>4, <1>5, <1>6 DEF JB
<1>8. Shrinks(j, k)
  BY <1>1, <1>2, <1>4, <1>7, DroppedIsFreed
<1> QED
  BY <1>3, <1>7, <1>8 DEF k

\* GetNackList may recycle, and leaves a NACK list that is small enough.
LEMMA GetNackListShrinks ==
    ASSUME NEW j \in JB
    PROVE  LET r == GetNackList(j)
           IN  /\ Shrinks(j, r.jb)
               /\ SmallEnough(j.missing) => SmallEnough(r.jb.missing)
               /\ r.request_key_frame \in BOOLEAN
<1> DEFINE recycle == j.last.initial /\ ~FirstFrameIsKey(j)
           recycled == IF recycle THEN RecycleFramesUntilKeyFrame(j)
                                  ELSE [jb |-> j, key |-> TRUE]
           sized == IF SmallEnough(recycled.jb.missing)
                    THEN [jb |-> recycled.jb, key |-> TRUE]
                    ELSE HandleTooLargeNackList(recycled.jb)
           keys == LastIncompleteKey(sized.jb)
           key == CHOOSE t \in keys : TRUE
           seq == EstimatedLowSequenceNumber(sized.jb.incomplete[key])
           skipped == [sized.jb EXCEPT !.last = InitialDecodingState,
                                       !.missing = DropPackets(@, seq)]
           r == GetNackList(j)
<1>1. /\ r.jb \in {j, recycled.jb, sized.jb, skipped}
      /\ r.request_key_frame \in {FALSE, TRUE, HaveNonEmptyFrame(j), ~sized.key}
  BY DEF GetNackList, AnswerNackList, NackAnswer
<1>2. /\ Shrinks(j, recycled.jb) /\ recycled.jb.missing \subseteq j.missing
  <2>1. CASE recycle
    BY <2>1, RecycleRecycles, RecycledShrinks
  <2>2. CASE ~recycle
    BY <2>2, ShrinksReflexive
  <2> QED
    BY <2>1, <2>2
<1> HIDE DEF recycled
<1>3. recycled.jb \in JB
  BY <1>2 DEF Shrinks
<1>4. /\ Shrinks(j, sized.jb) /\ sized.key \in BOOLEAN
      /\ SmallEnough(sized.jb.missing)
  <2>1. CASE SmallEnough(recycled.jb.missing)
    BY <2>1, <1>2
  <2>2. CASE ~SmallEnough(recycled.jb.missing)
    <3>1. sized = HandleTooLargeNackList(recycled.jb)
      BY <2>2
    <3>2. /\ IsRecycled(recycled.jb, sized.jb) /\ sized.key \in BOOLEAN
          /\ SmallEnough(sized.jb.missing)
      BY <3>1, <1>3, TooLargeRecycles
    <3> QED
      BY <3>2, <1>2, <1>3, RecycledShrinks, ShrinksTransitive
  <2> QED
    BY <2>1, <2>2
<1> HIDE DEF sized, seq
<1>5. sized.jb \in JB
  BY <1>4 DEF Shrinks
<1>6. /\ DropPackets(sized.jb.missing, seq) \in SUBSET SeqNum
      /\ SmallEnough(DropPackets(sized.jb.missing, seq))
  BY <1>4, <1>5, DropTypes, SmallSubset DEF JB
<1>7. /\ skipped \in JB
      /\ skipped.missing = DropPackets(sized.jb.missing, seq)
      /\ skipped.incomplete = sized.jb.incomplete
      /\ skipped.decodable = sized.jb.decodable
      /\ skipped.free = sized.jb.free /\ skipped.allocated = sized.jb.allocated
  BY <1>5, <1>6, RingTypes DEF JB
<1> HIDE DEF skipped, r
<1>8. Shrinks(j, skipped) /\ SmallEnough(skipped.missing)
  BY <1>4, <1>6, <1>7, ShrinksSame
<1>9. SmallEnough(j.missing) => SmallEnough(recycled.jb.missing)
  BY <1>2, SmallSubset DEF JB
<1>10. r.request_key_frame \in BOOLEAN
  BY <1>1, <1>4 DEF HaveNonEmptyFrame
<1>11. Shrinks(j, r.jb)
  BY <1>1, <1>2, <1>4, <1>8, ShrinksReflexive
<1>12. SmallEnough(j.missing) => SmallEnough(r.jb.missing)
  BY <1>1, <1>4, <1>8, <1>9
<1> QED
  BY <1>10, <1>11, <1>12 DEF r

-----------------------------------------------------------------------------
(***************************************************************************)
(* No timestamp is in both lists, and unless decoding with errors is       *)
(* allowed every frame of decodable_frames_ is complete.                   *)
(***************************************************************************)
Apart(j) == DOMAIN j.decodable \cap DOMAIN j.incomplete = {}

OnlyComplete(j) ==
    /\ \A t \in DOMAIN j.decodable : j.decodable[t].state = "Complete"
    /\ \A t \in DOMAIN j.incomplete : j.incomplete[t].state # "Decodable"

Sound(j) == Apart(j) /\ (DecodeErrorMode = "kNoErrors" => OnlyComplete(j))

\* Taking frames out of the lists keeps them sound.
LEMMA SublistSound ==
    ASSUME NEW j, NEW k, Sound(j),
           Sublist(k.incomplete, j.incomplete),
           Sublist(k.decodable, j.decodable)
    PROVE  Sound(k)
BY DEF Sound, Apart, OnlyComplete, Sublist

\* Without errors allowed no frame becomes decodable without being complete.
LEMMA FrameInsertPacketState ==
    ASSUME NEW f \in Frame, NEW p \in Packet,
           DecodeErrorMode = "kNoErrors", f.state # "Decodable"
    PROVE  LET r == FrameInsertPacket(f, p)
           IN  /\ r.ret # "kDecodableSession"
               /\ r.frame.state # "Decodable"
               /\ r.ret = "kCompleteSession" => r.frame.state = "Complete"
               /\ r.ret = "kDuplicatePacket" /\ f.state = "Complete"
                     => r.frame.state = "Complete"
<1> DEFINE f0 == [f EXCEPT !.state = IF @ = "Empty" /\ p.type # "empty"
                                     THEN "Incomplete" ELSE @]
           f1 == IF p.type = "empty" THEN InformOfEmptyPacket(f0, p.seq)
                                     ELSE InsertMediaPacket(f0, p)
           r == FrameInsertPacket(f, p)
<1>1. /\ f0 \in Frame /\ f0.state # "Decodable"
      /\ f.state = "Complete" => f0.state = "Complete"
  BY DEF Frame, FrameState
<1> HIDE DEF f0
<1>2. f1.state = f0.state
  BY <1>1 DEF InformOfEmptyPacket, InsertMediaPacket, Frame
<1>3. f1 \in Frame
  BY <1>1, InformOfEmptyPacketType, InsertMediaPacketType DEF Packet, FilledFrame
<1> HIDE DEF f1
<1> DEFINE f2 == [f1 EXCEPT !.state = "Complete"]
<1>4. f2.state = "Complete"
  BY <1>3 DEF Frame
<1>5. \/ r = [frame |-> f0, ret |-> "kSizeError"]
      \/ r = [frame |-> f0, ret |-> "kDuplicatePacket"]
      \/ r = [frame |-> f2, ret |-> "kCompleteSession"]
      \/ r = [frame |-> f1, ret |-> "kIncomplete"]
  BY DEF FrameInsertPacket, SessionDecodable, f0, f1
<1> HIDE DEF r, f2
<1>6. CASE r = [frame |-> f0, ret |-> "kSizeError"]
  BY <1>6, <1>1 DEF r
<1>7. CASE r = [frame |-> f0, ret |-> "kDuplicatePacket"]
  BY <1>7, <1>1 DEF r
<1>8. CASE r = [frame |-> f2, ret |-> "kCompleteSession"]
  BY <1>8, <1>4 DEF r
<1>9. CASE r = [frame |-> f1, ret |-> "kIncomplete"]
  BY <1>9, <1>1, <1>2 DEF r
<1> QED
  BY <1>5, <1>6, <1>7, <1>8, <1>9

\* Taking one frame out of a list.
LEMMA RemoveOne ==
    ASSUME NEW L \in FrameList, NEW t \in DOMAIN L
    PROVE  /\ t \notin DOMAIN Remove(L, {t})
           /\ Cardinality(DOMAIN Remove(L, {t})) = Cardinality(DOMAIN L) - 1
           /\ Sublist(Remove(L, {t}), L)
<1>1. DOMAIN Remove(L, {t}) = DOMAIN L \ {t}
  BY RemoveType
<1>2. IsFiniteSet(DOMAIN L)
  BY FrameListTypes
<1>3. Cardinality(DOMAIN L \ {t}) = Cardinality(DOMAIN L) - 1
  BY <1>2, FS_RemoveElement
<1> QED
  BY <1>1, <1>3, SublistFacts

\* Putting a new frame into a list.
LEMMA InsertOne ==
    ASSUME NEW L \in FrameList, NEW t \in Timestamp, NEW f \in FilledFrame,
           t \notin DOMAIN L
    PROVE  /\ InsertFrame(L, t, f) \in FrameList
           /\ DOMAIN InsertFrame(L, t, f) = DOMAIN L \cup {t}
           /\ Cardinality(DOMAIN InsertFrame(L, t, f)) = Cardinality(DOMAIN L) + 1
<1>1. /\ InsertFrame(L, t, f) \in FrameList
      /\ DOMAIN InsertFrame(L, t, f) = DOMAIN L \cup {t}
  BY InsertFrameType
<1>2. Cardinality(DOMAIN L \cup {t}) = Cardinality(DOMAIN L) + 1
  BY FrameListTypes, FS_AddElement
<1> QED
  BY <1>1, <1>2

\* A frame from the pool is empty.
LEMMA EmptyFrameType ==
    EmptyFrame \in Frame /\ EmptyFrame.state = "Empty"
BY ModAssumption DEF EmptyFrame, Frame, FrameState, SeqNum, NoSeq

\* GetEmptyFrame takes a frame out of the pool, or makes one.
LEMMA GetEmptyFrameTakes ==
    ASSUME NEW j \in JB, CanGetEmptyFrame(j)
    PROVE  LET k == GetEmptyFrame(j)
           IN  /\ k \in JB
               /\ k.incomplete = j.incomplete /\ k.decodable = j.decodable
               /\ k.missing = j.missing
               /\ Count(k) + 1 + j.allocated = Count(j) + k.allocated
               /\ j.allocated <= kMaxNumberOfFrames
                     => k.allocated <= kMaxNumberOfFrames
<1> DEFINE k == GetEmptyFrame(j)
<1>1. CASE j.free > 0
  <2>1. k = [j EXCEPT !.free = j.free - 1] /\ j.free - 1 \in Nat
    BY <1>1, CountType DEF GetEmptyFrame
  <2> HIDE DEF k
  <2>2. /\ k \in JB /\ k.incomplete = j.incomplete /\ k.decodable = j.decodable
        /\ k.missing = j.missing /\ k.free = j.free - 1
        /\ k.allocated = j.allocated
    BY <2>1 DEF JB
  <2>3. Count(k) + 1 = Count(j)
    BY <2>2, CountType DEF Count
  <2> QED
    BY <2>2, <2>3, CountType DEF k
<1>2. CASE ~(j.free > 0)
  <2>1. /\ k = [j EXCEPT !.allocated = j.allocated + 1]
        /\ j.allocated + 1 \in Nat /\ j.allocated < kMaxNumberOfFrames
    BY <1>2, CountType DEF GetEmptyFrame, CanGetEmptyFrame
  <2> HIDE DEF k
  <2>2. /\ k \in JB /\ k.incomplete = j.incomplete /\ k.decodable = j.decodable
        /\ k.missing = j.missing /\ k.free = j.free
        /\ k.allocated = j.allocated + 1
    BY <2>1 DEF JB
  <2>3. Count(k) = Count(j)
    BY <2>2, CountType DEF Count
  <2>4. k.allocated <= kMaxNumberOfFrames
    BY <2>1, <2>2, CountType, JitterBufferAssumption
  <2> QED
    BY <2>2, <2>3, <2>4, CountType DEF k
<1> QED
  BY <1>1, <1>2

\* GetFrame: the frame for a packet is out of the lists.
LEMMA GetFrameTakes ==
    ASSUME NEW j \in JB, NEW ts \in Timestamp, Sound(j)
    PROVE  LET g == GetFrame(j, ts)
           IN  /\ g.jb \in JB /\ g.frame \in Frame
               /\ g.ret \in {"kNoError", "assert", "kFlushIndicator"}
               /\ g.from \in {"incomplete", "decodable", "none"}
               /\ Sublist(g.jb.incomplete, j.incomplete)
               /\ Sublist(g.jb.decodable, j.decodable)
               /\ g.jb.missing \subseteq j.missing
               /\ ts \notin DOMAIN g.jb.decodable
               /\ ts \notin DOMAIN g.jb.incomplete
               /\ j.allocated <= kMaxNumberOfFrames
                     => g.jb.allocated <= kMaxNumberOfFrames
               /\ IF g.ret = "kNoError"
                  THEN Count(g.jb) + 1 + j.allocated = Count(j) + g.jb.allocated
                  ELSE Shrinks(j, g.jb)
               /\ DecodeErrorMode = "kNoErrors" =>
                     /\ g.frame.state # "Decodable"
                     /\ g.from = "decodable" => g.frame.state = "Complete"
               /\ g.ret = "assert"
                     => /\ j.free = 0 /\ j.allocated >= kMaxNumberOfFrames
                        /\ IsEmpty(j.incomplete) /\ IsEmpty(j.decodable)
<1> DEFINE k == RecycleFramesUntilKeyFrame(j)
           g == GetFrame(j, ts)
           inc == [j EXCEPT !.incomplete = Remove(@, {ts})]
           dcd == [j EXCEPT !.decodable = Remove(@, {ts})]
<1> USE DEF Found
<1>1. /\ j.decodable \in FrameList /\ j.incomplete \in FrameList
      /\ Sublist(j.incomplete, j.incomplete) /\ Sublist(j.decodable, j.decodable)
  BY CountType, SublistFacts
<1>2. /\ ts \in DOMAIN j.incomplete => ts \notin DOMAIN j.decodable
      /\ DecodeErrorMode = "kNoErrors" => OnlyComplete(j)
  BY DEF Sound, Apart
<1>3. CASE ts \in DOMAIN j.incomplete
  <2>1. g = Found(inc, j.incomplete[ts], "incomplete", "kNoError")
    BY <1>3 DEF GetFrame
  <2>2. /\ Remove(j.incomplete, {ts}) \in FrameList
        /\ Sublist(Remove(j.incomplete, {ts}), j.incomplete)
        /\ ts \notin DOMAIN Remove(j.incomplete, {ts})
        /\ Cardinality(DOMAIN Remove(j.incomplete, {ts}))
             = Cardinality(DOMAIN j.incomplete) - 1
    BY <1>1, <1>3, RemoveOne, RemoveType
  <2>3. /\ inc \in JB /\ inc.incomplete = Remove(j.incomplete, {ts})
        /\ inc.decodable = j.decodable /\ inc.free = j.free
        /\ inc.allocated = j.allocated /\ inc.missing = j.missing
    BY <2>2 DEF JB
  <2> HIDE DEF inc, g
  <2>4. Count(inc) + 1 = Count(j)
    BY <2>2, <2>3, CountType DEF Count
  <2>5. j.incomplete[ts] \in Frame
    BY <1>1, <1>3, FrameListTypes DEF FilledFrame
  <2>6. DecodeErrorMode = "kNoErrors" => j.incomplete[ts].state # "Decodable"
    BY <1>2, <1>3 DEF OnlyComplete
  <2> QED
    BY <1>1, <1>2, <1>3, <2>1, <2>2, <2>3, <2>4, <2>5, <2>6, CountType DEF g
<1>4. CASE ts \notin DOMAIN j.incomplete /\ ts \in DOMAIN j.decodable
  <2>1. g = Found(dcd, j.decodable[ts], "decodable", "kNoError")
    BY <1>4 DEF GetFrame
  <2>2. /\ Remove(j.decodable, {ts}) \in FrameList
        /\ Sublist(Remove(j.decodable, {ts}), j.decodable)
        /\ ts \notin DOMAIN Remove(j.decodable, {ts})
        /\ Cardinality(DOMAIN Remove(j.decodable, {ts}))
             = Cardinality(DOMAIN j.decodable) - 1
    BY <1>1, <1>4, RemoveOne, RemoveType
  <2>3. /\ dcd \in JB /\ dcd.decodable = Remove(j.decodable, {ts})
        /\ dcd.incomplete = j.incomplete /\ dcd.free = j.free
        /\ dcd.allocated = j.allocated /\ dcd.missing = j.missing
    BY <2>2 DEF JB
  <2> HIDE DEF dcd, g
  <2>4. Count(dcd) + 1 = Count(j)
    BY <2>2, <2>3, CountType DEF Count
  <2>5. j.decodable[ts] \in Frame
    BY <1>1, <1>4, FrameListTypes DEF FilledFrame
  <2>6. DecodeErrorMode = "kNoErrors" => j.decodable[ts].state = "Complete"
    BY <1>2, <1>4 DEF OnlyComplete
  <2> QED
    BY <1>1, <1>4, <2>1, <2>2, <2>3, <2>4, <2>5, <2>6, CountType DEF g
<1>5. CASE ts \notin DOMAIN j.incomplete /\ ts \notin DOMAIN j.decodable
  <2>1. \/ /\ g = Found(GetEmptyFrame(j), EmptyFrame, "none", "kNoError")
           /\ CanGetEmptyFrame(j)
        \/ /\ g = Found(k.jb, EmptyFrame, "none", "assert")
           /\ ~CanGetEmptyFrame(j) /\ ~CanGetEmptyFrame(k.jb)
        \/ g = Found(k.jb, EmptyFrame, "none", "kFlushIndicator")
        \/ /\ g = Found(GetEmptyFrame(k.jb), EmptyFrame, "none", "kNoError")
           /\ CanGetEmptyFrame(k.jb)
    BY <1>5 DEF GetFrame, FindRecycled
  <2>2. /\ Shrinks(j, k.jb) /\ k.jb.missing \subseteq j.missing
        /\ ~IsEmpty(j.incomplete) \/ ~IsEmpty(j.decodable) => k.jb.free > 0
    BY RecycleRecycles, RecycledShrinks
  <2> HIDE DEF k, g
  <2>3. /\ k.jb \in JB /\ Sublist(k.jb.incomplete, j.incomplete)
        /\ Sublist(k.jb.decodable, j.decodable)
        /\ k.jb.allocated = j.allocated /\ Count(k.jb) = Count(j)
    BY <2>2 DEF Shrinks
  <2>4. CASE /\ g = Found(GetEmptyFrame(j), EmptyFrame, "none", "kNoError")
             /\ CanGetEmptyFrame(j)
    <3>1. /\ g.jb = GetEmptyFrame(j) /\ g.frame = EmptyFrame
          /\ g.from = "none" /\ g.ret = "kNoError"
      BY <2>4
    <3> QED
      BY <3>1, <1>1, <1>5, <2>4, GetEmptyFrameTakes, EmptyFrameType DEF g
  <2>5. CASE /\ g = Found(k.jb, EmptyFrame, "none", "assert")
             /\ ~CanGetEmptyFrame(j) /\ ~CanGetEmptyFrame(k.jb)
    <3>1. /\ g.jb = k.jb /\ g.frame = EmptyFrame
          /\ g.from = "none" /\ g.ret = "assert"
      BY <2>5
    <3>2. ~(k.jb.free > 0) /\ j.free = 0 /\ j.allocated >= kMaxNumberOfFrames
      BY <2>5, CountType, JitterBufferAssumption DEF CanGetEmptyFrame
    <3>3. ts \notin DOMAIN k.jb.incomplete /\ ts \notin DOMAIN k.jb.decodable
      BY <1>5, <2>3 DEF Sublist
    <3> QED
      BY <3>1, <3>2, <3>3, <2>2, <2>3, EmptyFrameType DEF g
  <2>6. CASE g = Found(k.jb, EmptyFrame, "none", "kFlushIndicator")
    <3>1. /\ g.jb = k.jb /\ g.frame = EmptyFrame
          /\ g.from = "none" /\ g.ret = "kFlushIndicator"
      BY <2>6
    <3>2. ts \notin DOMAIN k.jb.incomplete /\ ts \notin DOMAIN k.jb.decodable
      BY <1>5, <2>3 DEF Sublist
    <3> QED
      BY <3>1, <3>2, <2>2, <2>3, EmptyFrameType DEF g
  <2>7. CASE /\ g = Found(GetEmptyFrame(k.jb), EmptyFrame, "none", "kNoError")
             /\ CanGetEmptyFrame(k.jb)
    <3>1. /\ g.jb = GetEmptyFrame(k.jb) /\ g.frame = EmptyFrame
          /\ g.from = "none" /\ g.ret = "kNoError"
      BY <2>7
    <3>2. ts \notin DOMAIN k.jb.incomplete /\ ts \notin DOMAIN k.jb.decodable
      BY <1>5, <2>3 DEF Sublist
    <3> QED
      BY <3>1, <3>2, <2>2, <2>3, <2>7, GetEmptyFrameTakes, EmptyFrameType DEF g
  <2> QED
    BY <2>1, <2>4, <2>5, <2>6, <2>7
<1> QED
  BY <1>3, <1>4, <1>5

\* What an operation that puts a frame away does to the buffer.
Keeps(j, k, n) ==
    /\ k \in JB
    /\ Sound(k)
    /\ Count(k) = Count(j) + n
    /\ k.allocated = j.allocated
    /\ k.missing = j.missing

\* Moving frames from one list to the other.
LEMMA MoveFrames ==
    ASSUME NEW j \in JB, Sound(j), NEW S \in SUBSET DOMAIN j.incomplete,
           DecodeErrorMode = "kNoErrors" =>
              \A t \in S : j.incomplete[t].state = "Complete"
    PROVE  Keeps(j, [j EXCEPT !.decodable =
                       [t \in DOMAIN j.decodable \cup S |->
                          IF t \in DOMAIN j.decodable THEN j.decodable[t]
                          ELSE j.incomplete[t]],
                     !.incomplete = Remove(j.incomplete, S)], 0)
<1> DEFINE D == DOMAIN j.decodable
           I == DOMAIN j.incomplete
           moved == [t \in D \cup S |-> IF t \in D THEN j.decodable[t]
                                       ELSE j.incomplete[t]]
           left == Remove(j.incomplete, S)
           k == [j EXCEPT !.decodable = moved, !.incomplete = left]
<1>1. /\ j.decodable \in FrameList /\ j.incomplete \in FrameList
      /\ IsFiniteSet(D) /\ IsFiniteSet(I)
      /\ D \subseteq Timestamp /\ I \subseteq Timestamp
      /\ \A t \in D : j.decodable[t] \in FilledFrame
      /\ \A t \in I : j.incomplete[t] \in FilledFrame
  BY CountType, FrameListTypes
<1>2. moved \in FrameList /\ DOMAIN moved = D \cup S
  <2>1. moved \in [D \cup S -> FilledFrame]
    BY <1>1
  <2> QED
    BY <2>1, <1>1 DEF FrameList
<1>3. /\ left \in FrameList /\ DOMAIN left = I \ S
      /\ \A t \in I \ S : left[t] = j.incomplete[t]
  BY <1>1, RemoveType
<1>4. D \cap I = {}
  BY DEF Sound, Apart
<1>5. IsFiniteSet(S) /\ D \cap S = {} /\ I \cap S = S
  BY <1>1, <1>4, FS_Subset
<1>6. /\ Cardinality(D \cup S) = Cardinality(D) + Cardinality(S) - 0
      /\ Cardinality(I \ S) = Cardinality(I) - Cardinality(S)
      /\ Cardinality(S) \in Nat
  <2> HIDE DEF D, I
  <2>1. Cardinality(S) \in Nat /\ Cardinality(D \cap S) = 0
    BY <1>5, FS_EmptySet, FS_CardinalityType
  <2>2. Cardinality(D \cup S) = Cardinality(D) + Cardinality(S) - 0
    BY <1>1, <1>5, <2>1, FS_Union
  <2>3. Cardinality(I \ S) = Cardinality(I) - Cardinality(S)
    BY <1>1, <1>5, FS_Difference
  <2> QED
    BY <2>1, <2>2, <2>3
<1>7. \A t \in D \cup S : moved[t] = IF t \in D THEN j.decodable[t]
                                     ELSE j.incomplete[t]
  OBVIOUS
<1> HIDE DEF moved, left
<1>8. /\ k \in JB /\ k.decodable = moved /\ k.incomplete = left
      /\ k.free = j.free /\ k.allocated = j.allocated
      /\ k.missing = j.missing
  BY <1>2, <1>3 DEF JB
<1> HIDE DEF k
<1>9. Count(k) = Count(j)
  BY <1>2, <1>3, <1>6, <1>8, CountType DEF Count
<1>10. Apart(k)
  BY <1>2, <1>3, <1>4, <1>8 DEF Apart
<1>11. DecodeErrorMode = "kNoErrors" => OnlyComplete(k)
  BY <1>2, <1>3, <1>7, <1>8 DEF Sound, OnlyComplete
<1>12. Keeps(j, k, 0)
  BY <1>8, <1>9, <1>10, <1>11, CountType DEF Keeps, Sound
<1> QED
  BY <1>12 DEF k, moved, left

\* FindAndInsertContinuousFrames moves frames that are complete.
LEMMA FindAndInsertKeeps ==
    ASSUME NEW j \in JB, Sound(j), NEW f, NEW ts
    PROVE  Keeps(j, FindAndInsertContinuousFrames(j, f, ts), 0)
<1> DEFINE inc == j.incomplete
           ahead == {t \in DOMAIN inc : ~IsNewerTimestamp(ts, t)}
           Before(S, t) == {u \in S : IsNewerTimestamp(t, u)}
           Continues(S, t) ==
               IF Before(S, t) = {}
               THEN IsContinuousInState(inc[t], SetState(f, ts))
               ELSE \E u \in Before(S, t) :
                       /\ \A v \in Before(S, t) : ~IsNewerTimestamp(v, u)
                       /\ IsContinuousInState(inc[t], SetState(inc[u], u))
           IsWalk(S) == \A t \in ahead : t \in S <=> Continues(S, t)
           moved == UNION {S \in SUBSET ahead : IsWalk(S)}
<1>1. FindAndInsertContinuousFrames(j, f, ts) =
        [j EXCEPT !.decodable = [t \in DOMAIN j.decodable \cup moved |->
                                   IF t \in DOMAIN j.decodable THEN j.decodable[t]
                                   ELSE inc[t]],
                  !.incomplete = Remove(inc, moved)]
  BY DEF FindAndInsertContinuousFrames, JB
<1>2. moved \in SUBSET DOMAIN inc
  OBVIOUS
<1>3. ASSUME DecodeErrorMode = "kNoErrors", NEW t \in moved
      PROVE  inc[t].state = "Complete"
  <2>1. PICK S \in SUBSET ahead : t \in S /\ IsWalk(S)
    OBVIOUS
  <2>2. Continues(S, t)
    BY <2>1
  <2>3. \E st : IsContinuousInState(inc[t], st)
    BY <2>2
  <2>4. inc[t].state \in {"Complete", "Decodable"}
    BY <2>3, <1>3 DEF IsContinuousInState
  <2>5. inc[t].state # "Decodable"
    BY <1>2, <1>3 DEF Sound, OnlyComplete
  <2> QED
    BY <2>4, <2>5
<1> HIDE DEF moved
<1>4. Keeps(j, [j EXCEPT !.decodable =
                  [t \in DOMAIN j.decodable \cup moved |->
                     IF t \in DOMAIN j.decodable THEN j.decodable[t]
                     ELSE j.incomplete[t]],
                !.incomplete = Remove(j.incomplete, moved)], 0)
  BY <1>2, <1>3, MoveFrames
<1> QED
  BY <1>1, <1>4

\* The three places a frame can be put in.
LEMMA PutKeeps ==
    ASSUME NEW j \in JB, Sound(j), NEW ts \in Timestamp,
           ts \notin DOMAIN j.decodable, ts \notin DOMAIN j.incomplete,
           NEW f \in FilledFrame
    PROVE  /\ (DecodeErrorMode = "kNoErrors" => f.state = "Complete")
                => Keeps(j, [j EXCEPT !.decodable = InsertFrame(@, ts, f)], 1)
           /\ (DecodeErrorMode = "kNoErrors" => f.state # "Decodable")
                => Keeps(j, [j EXCEPT !.incomplete = InsertFrame(@, ts, f)], 1)
<1>1. j.decodable \in FrameList /\ j.incomplete \in FrameList
  BY CountType
<1>2. ASSUME DecodeErrorMode = "kNoErrors" => f.state = "Complete"
      PROVE  Keeps(j, [j EXCEPT !.decodable = InsertFrame(@, ts, f)], 1)
  <2> DEFINE K == j.decodable
             L == InsertFrame(K, ts, f)
             k == [j EXCEPT !.decodable = L]
  <2>1. /\ L \in FrameList /\ DOMAIN L = DOMAIN K \cup {ts}
        /\ Cardinality(DOMAIN L) = Cardinality(DOMAIN K) + 1
        /\ \A u \in DOMAIN K : L[u] = K[u]
        /\ L[ts] = f
    <3>1. K \in FrameList /\ ts \notin DOMAIN K
      BY <1>1
    <3> HIDE DEF K
    <3>2. /\ L \in FrameList /\ DOMAIN L = DOMAIN K \cup {ts}
          /\ Cardinality(DOMAIN L) = Cardinality(DOMAIN K) + 1
      BY <3>1, InsertOne
    <3>3. (\A u \in DOMAIN K : L[u] = K[u]) /\ L[ts] = f
      BY <3>1 DEF InsertFrame
    <3> QED
      BY <3>2, <3>3
  <2> HIDE DEF L
  <2>2. /\ k \in JB /\ k.decodable = L /\ k.incomplete = j.incomplete
        /\ k.free = j.free /\ k.allocated = j.allocated
        /\ k.missing = j.missing
    BY <2>1 DEF JB
  <2> HIDE DEF k
  <2>3. Count(k) = Count(j) + 1
    BY <2>1, <2>2, CountType DEF Count
  <2>4. Sound(k)
    BY <1>2, <2>1, <2>2 DEF Sound, Apart, OnlyComplete
  <2>5. Keeps(j, k, 1)
    BY <2>2, <2>3, <2>4 DEF Keeps
  <2> QED
    BY <2>5 DEF k, L
<1>3. ASSUME DecodeErrorMode = "kNoErrors" => f.state # "Decodable"
      PROVE  Keeps(j, [j EXCEPT !.incomplete = InsertFrame(@, ts, f)], 1)
  <2> DEFINE K == j.incomplete
             L == InsertFrame(K, ts, f)
             k == [j EXCEPT !.incomplete = L]
  <2>1. /\ L \in FrameList /\ DOMAIN L = DOMAIN K \cup {ts}
        /\ Cardinality(DOMAIN L) = Cardinality(DOMAIN K) + 1
        /\ \A u \in DOMAIN K : L[u] = K[u]
        /\ L[ts] = f
    <3>1. K \in FrameList /\ ts \notin DOMAIN K
      BY <1>1
    <3> HIDE DEF K
    <3>2. /\ L \in FrameList /\ DOMAIN L = DOMAIN K \cup {ts}
          /\ Cardinality(DOMAIN L) = Cardinality(DOMAIN K) + 1
      BY <3>1, InsertOne
    <3>3. (\A u \in DOMAIN K : L[u] = K[u]) /\ L[ts] = f
      BY <3>1 DEF InsertFrame
    <3> QED
      BY <3>2, <3>3
  <2> HIDE DEF L
  <2>2. /\ k \in JB /\ k.incomplete = L /\ k.decodable = j.decodable
        /\ k.free = j.free /\ k.allocated = j.allocated
        /\ k.missing = j.missing
    BY <2>1 DEF JB
  <2> HIDE DEF k
  <2>3. Count(k) = Count(j) + 1
    BY <2>1, <2>2, CountType DEF Count
  <2>4. Sound(k)
    BY <1>3, <2>1, <2>2 DEF Sound, Apart, OnlyComplete
  <2>5. Keeps(j, k, 1)
    BY <2>2, <2>3, <2>4 DEF Keeps
  <2> QED
    BY <2>5 DEF k, L
<1> QED
  BY <1>2, <1>3

\* Giving a frame back.
LEMMA ReleaseFrameKeeps ==
    ASSUME NEW j \in JB, Sound(j)
    PROVE  /\ Keeps(j, ReleaseFrame(j), 1)
           /\ ReleaseFrame(j).last = j.last
<1> DEFINE k == ReleaseFrame(j)
<1>1. /\ k \in JB /\ k.incomplete = j.incomplete /\ k.decodable = j.decodable
      /\ k.free = j.free + 1 /\ k.allocated = j.allocated
      /\ k.missing = j.missing /\ k.last = j.last
  BY DEF ReleaseFrame, JB
<1> HIDE DEF k
<1>2. Count(k) = Count(j) + 1
  BY <1>1, CountType DEF Count
<1>3. Sound(k)
  BY <1>1 DEF Sound, Apart, OnlyComplete
<1> QED
  BY <1>1, <1>2, <1>3 DEF Keeps, k

\* Only the lists, the pool and the NACK list matter to Keeps.
LEMMA KeepsSame ==
    ASSUME NEW j, NEW k, NEW n, NEW l \in JB, Keeps(j, k, n),
           l.incomplete = k.incomplete, l.decodable = k.decodable,
           l.free = k.free, l.allocated = k.allocated,
           l.missing = k.missing
    PROVE  Keeps(j, l, n)
BY DEF Keeps, Sound, Apart, OnlyComplete, Count

\* The switch on buffer_state puts the frame into one place, exactly once.
LEMMA PlaceFrameKeeps ==
    ASSUME NEW j \in JB, Sound(j), NEW p \in Packet, NEW f \in Frame,
           p.ts \notin DOMAIN j.decodable, p.ts \notin DOMAIN j.incomplete,
           NEW from \in {"incomplete", "decodable", "none"}, NEW prev,
           NEW ret \in {"kSizeError", "kDuplicatePacket", "kCompleteSession",
                        "kDecodableSession", "kIncomplete", "kFlushIndicator"},
           ret \notin {"kSizeError", "kFlushIndicator"} => f \in FilledFrame,
           DecodeErrorMode = "kNoErrors" =>
              /\ ret # "kDecodableSession"
              /\ f.state # "Decodable"
              /\ ret = "kCompleteSession" => f.state = "Complete"
              /\ ret = "kDuplicatePacket" /\ from = "decodable"
                    => f.state = "Complete"
    PROVE  LET r == PlaceFrame(j, f, p, from, prev, ret)
           IN  Keeps(j, r.jb, 1) /\ r.ret \in {ret, "kNoError"}
<1> DEFINE ts == p.ts
           continuous == IsContinuous(j, f, ts)
           r == PlaceFrame(j, f, p, from, prev, ret)
           dcd == [j EXCEPT !.decodable = InsertFrame(@, ts, f)]
           inc == [j EXCEPT !.incomplete = InsertFrame(@, ts, f)]
           free == ReleaseFrame(j)
           event == SignalsFrame(ret, prev, continuous)
           Placed(k) == [k EXCEPT !.event = @ \/ event]
<1>1. ts \in Timestamp
  BY DEF Packet
<1>2. Keeps(j, free, 1) /\ free.last \in DecodingState
  BY ReleaseFrameKeeps DEF JB
<1>3. f \in FilledFrame /\ (DecodeErrorMode = "kNoErrors" => f.state = "Complete")
        => Keeps(j, dcd, 1)
  BY <1>1, PutKeeps
<1>4. f \in FilledFrame => Keeps(j, inc, 1)
  BY <1>1, PutKeeps
<1>5. ASSUME NEW k, Keeps(j, k, 1) PROVE Keeps(j, Placed(k), 1)
  <2>1. k \in JB
    BY <1>5 DEF Keeps
  <2>2. k.event \in BOOLEAN /\ event \in BOOLEAN
    BY <2>1 DEF JB, SignalsFrame, IsContinuous, IsContinuousInState
  <2> DEFINE e == k.event \/ event
             l == [k EXCEPT !.event = e]
  <2>3. e \in BOOLEAN
    BY <2>2
  <2> HIDE DEF e, event
  <2>4. /\ l \in JB /\ l.incomplete = k.incomplete /\ l.decodable = k.decodable
        /\ l.free = k.free /\ l.allocated = k.allocated
        /\ l.missing = k.missing
    BY <2>1, <2>3 DEF JB
  <2>5. Placed(k) = l
    BY DEF e
  <2> QED
    BY <1>5, <2>4, <2>5, KeepsSame
<1>6. CASE ret \in {"kCompleteSession", "kDecodableSession"}
  <2>1. f \in FilledFrame
    BY <1>6
  <2>2. DecodeErrorMode = "kNoErrors" => f.state = "Complete"
    BY <1>6
  <2>3. CASE continuous
    <3> DEFINE k == FindAndInsertContinuousFrames(dcd, f, ts)
    <3>1. r = [jb |-> Placed(k), ret |-> ret]
      BY <1>6, <2>3 DEF PlaceFrame
    <3>2. Keeps(j, dcd, 1)
      BY <1>3, <2>1, <2>2
    <3> HIDE DEF dcd
    <3>3. Keeps(dcd, k, 0)
      BY <3>2, FindAndInsertKeeps DEF Keeps
    <3>4. dcd \in JB /\ k \in JB
      BY <3>2, <3>3 DEF Keeps
    <3> HIDE DEF k
    <3>5. Keeps(j, k, 1)
      BY <3>2, <3>3, <3>4, CountType DEF Keeps
    <3>6. Keeps(j, Placed(k), 1)
      BY <3>5, <1>5
    <3> HIDE DEF Placed, r
    <3> QED
      BY <3>1, <3>6 DEF r
  <2>4. CASE ~continuous
    <3>1. r = [jb |-> Placed(inc), ret |-> ret]
      BY <1>6, <2>4 DEF PlaceFrame
    <3> HIDE DEF inc
    <3>2. Keeps(j, Placed(inc), 1)
      BY <1>4, <1>5, <2>1
    <3> HIDE DEF Placed, r
    <3> QED
      BY <3>1, <3>2 DEF r
  <2> QED
    BY <2>3, <2>4
<1>7. CASE ret = "kIncomplete"
  <2> DEFINE last == SkipEmptyFrame(j.last, f, ts)
             skip == [free EXCEPT !.last = last]
  <2>1. f \in FilledFrame
    BY <1>7
  <2>2. last \in DecodingState
    BY <1>1, <2>1, SkipEmptyFrameType DEF JB
  <2>3. \/ r = [jb |-> skip, ret |-> "kNoError"]
        \/ r = [jb |-> inc, ret |-> ret]
    BY <1>7, ReleaseFrameKeeps DEF PlaceFrame, ReleaseFrame
  <2> HIDE DEF free, last
  <2>4. free \in JB
    BY <1>2 DEF Keeps
  <2>5. /\ skip \in JB /\ skip.incomplete = free.incomplete
        /\ skip.decodable = free.decodable /\ skip.free = free.free
        /\ skip.allocated = free.allocated /\ skip.missing = free.missing
    BY <2>2, <2>4 DEF JB
  <2> HIDE DEF skip, inc, r
  <2>6. Keeps(j, skip, 1)
    BY <1>2, <2>5, KeepsSame
  <2>7. Keeps(j, inc, 1)
    BY <1>4, <2>1
  <2> QED
    BY <2>3, <2>6, <2>7 DEF r
<1>8. CASE ret = "kDuplicatePacket"
  <2>1. f \in FilledFrame
    BY <1>8
  <2>2. \/ r = [jb |-> dcd, ret |-> ret] /\ from = "decodable"
        \/ r = [jb |-> inc, ret |-> ret]
        \/ r = [jb |-> free, ret |-> ret]
    BY <1>8 DEF PlaceFrame, ReleaseFrame
  <2> HIDE DEF dcd, inc, free, r
  <2>3. from = "decodable" => Keeps(j, dcd, 1)
    BY <1>3, <1>8, <2>1
  <2>4. Keeps(j, inc, 1) /\ Keeps(j, free, 1)
    BY <1>2, <1>4, <2>1
  <2> QED
    BY <2>2, <2>3, <2>4 DEF r
<1>9. CASE ret \in {"kSizeError", "kFlushIndicator"}
  <2>1. r = [jb |-> free, ret |-> ret]
    BY <1>9 DEF PlaceFrame, ReleaseFrame
  <2> HIDE DEF free, r
  <2> QED
    BY <1>2, <2>1 DEF r
<1> QED
  BY <1>6, <1>7, <1>8, <1>9

Result == {"kNoError", "kFlushIndicator", "assert", "kOldPacket", "kSizeError",
           "kDuplicatePacket", "kCompleteSession", "kDecodableSession",
           "kIncomplete"}

\* What InsertPacket may do to the buffer: every frame is accounted for.
Balanced(j, k) ==
    /\ k \in JB
    /\ Sound(k)
    /\ Count(k) + j.allocated = Count(j) + k.allocated
    /\ j.allocated <= kMaxNumberOfFrames => k.allocated <= kMaxNumberOfFrames
    /\ SmallEnough(j.missing) => SmallEnough(k.missing)

\* Shrinking is balanced.
LEMMA ShrinksBalanced ==
    ASSUME NEW j \in JB, NEW k, Sound(j), Shrinks(j, k),
           SmallEnough(j.missing) => SmallEnough(k.missing)
    PROVE  Balanced(j, k)
<1>1. Sound(k)
  BY SublistSound DEF Shrinks
<1> QED
  BY <1>1, CountType DEF Balanced, Shrinks

\* No frame is free, none can be allocated and none can be recycled.
PoolExhausted(j) ==
    /\ j.free = 0
    /\ j.allocated >= kMaxNumberOfFrames
    /\ IsEmpty(j.incomplete)
    /\ IsEmpty(j.decodable)

\* InsertPacket, of a packet that is not old, accounts for every frame.
LEMMA InsertNewPacketBalanced ==
    ASSUME NEW j \in JB, Sound(j), NEW p \in Packet
    PROVE  LET r == InsertNewPacket(j, p)
           IN  /\ Balanced(j, r.jb)
               /\ r.ret \in Result
               /\ r.ret = "assert" => PoolExhausted(j)
<1> DEFINE j0 == [j EXCEPT !.old = 0]
           g == GetFrame(j0, p.ts)
           i == FrameInsertPacket(g.frame, p)
           counted == i.ret # "kSizeError"
           update == UpdateNackList(g.jb, p.seq)
           first == [g.jb EXCEPT !.latest = p.seq, !.fresh = FALSE]
           next == [update.jb EXCEPT !.latest = LatestSequenceNumber(@, p.seq)]
           k == IF ~counted THEN g.jb ELSE IF g.jb.fresh THEN first ELSE next
           ret == IF counted /\ ~g.jb.fresh /\ ~update.key /\ p.type # "key"
                  THEN "kFlushIndicator" ELSE i.ret
           r == InsertNewPacket(j, p)
<1>1. /\ j0 \in JB /\ j0.incomplete = j.incomplete /\ j0.decodable = j.decodable
      /\ j0.free = j.free /\ j0.allocated = j.allocated
      /\ j0.missing = j.missing
  BY DEF JB
<1>2. r = IF g.ret # "kNoError" THEN [jb |-> g.jb, ret |-> g.ret]
          ELSE PlaceFrame(k, i.frame, p, g.from, g.frame.state, ret)
  BY DEF InsertNewPacket, InsertIntoFrame
<1> HIDE DEF j0
<1>3. /\ Sound(j0) /\ Count(j0) = Count(j)
      /\ p.ts \in Timestamp /\ p.seq \in SeqNum
  BY <1>1 DEF Sound, Apart, OnlyComplete, Count, Packet
<1>4. /\ g.jb \in JB /\ g.frame \in Frame
      /\ g.ret \in {"kNoError", "assert", "kFlushIndicator"}
      /\ g.from \in {"incomplete", "decodable", "none"}
      /\ Sublist(g.jb.incomplete, j.incomplete)
      /\ Sublist(g.jb.decodable, j.decodable)
      /\ g.jb.missing \subseteq j.missing
      /\ p.ts \notin DOMAIN g.jb.decodable
      /\ p.ts \notin DOMAIN g.jb.incomplete
      /\ j.allocated <= kMaxNumberOfFrames
            => g.jb.allocated <= kMaxNumberOfFrames
      /\ IF g.ret = "kNoError"
         THEN Count(g.jb) + 1 + j.allocated = Count(j) + g.jb.allocated
         ELSE Shrinks(j0, g.jb)
      /\ DecodeErrorMode = "kNoErrors" =>
            /\ g.frame.state # "Decodable"
            /\ g.from = "decodable" => g.frame.state = "Complete"
      /\ g.ret = "assert" => PoolExhausted(j)
  BY <1>1, <1>3, GetFrameTakes DEF PoolExhausted
<1> HIDE DEF g
<1>5. SmallEnough(j.missing) => SmallEnough(g.jb.missing)
  BY <1>4, SmallSubset DEF JB
<1>6. CASE g.ret # "kNoError"
  <2>1. r.jb = g.jb /\ r.ret = g.ret
    BY <1>2, <1>6
  <2> HIDE DEF r
  <2>2. Shrinks(j, g.jb)
    BY <1>1, <1>3, <1>4, <1>6 DEF Shrinks
  <2>3. Balanced(j, g.jb)
    BY <1>5, <2>2, ShrinksBalanced
  <2> QED
    BY <1>4, <2>1, <2>3 DEF r, Result
<1>7. CASE g.ret = "kNoError"
  <2>1. r = PlaceFrame(k, i.frame, p, g.from, g.frame.state, ret)
    BY <1>2, <1>7
  <2>2. Sound(g.jb)
    BY <1>4, SublistSound
  <2>3. /\ Shrinks(g.jb, update.jb) /\ update.key \in BOOLEAN
        /\ SmallEnough(g.jb.missing) => SmallEnough(update.jb.missing)
    BY <1>3, <1>4, UpdateNackListShrinks
  <2>4. /\ i.frame \in Frame
        /\ i.ret \in {"kSizeError", "kDuplicatePacket", "kCompleteSession",
                      "kDecodableSession", "kIncomplete"}
        /\ i.ret # "kSizeError" => i.frame \in FilledFrame
    BY <1>4, FrameInsertPacketType
  <2>5. DecodeErrorMode = "kNoErrors" =>
           /\ i.ret # "kDecodableSession"
           /\ i.frame.state # "Decodable"
           /\ i.ret = "kCompleteSession" => i.frame.state = "Complete"
           /\ i.ret = "kDuplicatePacket" /\ g.from = "decodable"
                 => i.frame.state = "Complete"
    BY <1>4, FrameInsertPacketState
  <2> HIDE DEF update, i, r
  <2>6. update.jb \in JB
    BY <2>3 DEF Shrinks
  <2>7. /\ first \in JB /\ first.incomplete = g.jb.incomplete
        /\ first.decodable = g.jb.decodable /\ first.free = g.jb.free
        /\ first.allocated = g.jb.allocated /\ first.missing = g.jb.missing
    BY <1>3, <1>4 DEF JB
  <2> DEFINE l == LatestSequenceNumber(update.jb.latest, p.seq)
  <2>8. l \in SeqNum
    BY <1>3, <2>6, RingTypes DEF JB
  <2>9. next = [update.jb EXCEPT !.latest = l]
    OBVIOUS
  <2> HIDE DEF l, next
  <2>10. /\ next \in JB /\ next.incomplete = update.jb.incomplete
         /\ next.decodable = update.jb.decodable /\ next.free = update.jb.free
         /\ next.allocated = update.jb.allocated
         /\ next.missing = update.jb.missing
    BY <2>6, <2>8, <2>9 DEF JB
  <2> HIDE DEF first
  <2>11. Shrinks(g.jb, first) /\ Shrinks(g.jb, next) /\ Shrinks(g.jb, g.jb)
    BY <1>4, <2>3, <2>7, <2>10, ShrinksReflexive, ShrinksSame
  <2>12. /\ Shrinks(g.jb, k)
         /\ SmallEnough(g.jb.missing) => SmallEnough(k.missing)
    BY <2>3, <2>7, <2>10, <2>11
  <2> HIDE DEF k
  <2>13. /\ k \in JB /\ Sound(k) /\ Count(k) = Count(g.jb)
         /\ k.allocated = g.jb.allocated
         /\ p.ts \notin DOMAIN k.decodable /\ p.ts \notin DOMAIN k.incomplete
    BY <1>4, <2>2, <2>12, SublistSound DEF Shrinks, Sublist
  <2>14. /\ ret \in {"kSizeError", "kDuplicatePacket", "kCompleteSession",
                     "kDecodableSession", "kIncomplete", "kFlushIndicator"}
         /\ ret = "kFlushIndicator" \/ ret = i.ret
    BY <2>4
  <2> HIDE DEF ret
  <2>15. /\ Keeps(k, r.jb, 1)
         /\ r.ret \in {ret, "kNoError"}
    <3>1. ret \notin {"kSizeError", "kFlushIndicator"} => i.frame \in FilledFrame
      BY <2>4, <2>14
    <3>2. DecodeErrorMode = "kNoErrors" =>
             /\ ret # "kDecodableSession"
             /\ i.frame.state # "Decodable"
             /\ ret = "kCompleteSession" => i.frame.state = "Complete"
             /\ ret = "kDuplicatePacket" /\ g.from = "decodable"
                   => i.frame.state = "Complete"
      BY <2>5, <2>14
    <3> QED
      BY <1>4, <2>1, <2>4, <2>13, <2>14, <3>1, <3>2, PlaceFrameKeeps
  <2>16. r.ret \in Result /\ r.ret # "assert"
    BY <2>14, <2>15 DEF Result
  <2>17. /\ r.jb \in JB /\ Sound(r.jb) /\ Count(r.jb) = Count(k) + 1
         /\ r.jb.allocated = k.allocated /\ r.jb.missing = k.missing
    BY <2>15 DEF Keeps
  <2>18. Count(r.jb) + j.allocated = Count(j) + r.jb.allocated
    BY <1>4, <1>7, <2>13, <2>17, CountType
  <2>19. Balanced(j, r.jb)
    BY <1>4, <1>5, <2>12, <2>13, <2>17, <2>18 DEF Balanced
  <2> QED
    BY <2>16, <2>19 DEF r
<1> QED
  BY <1>6, <1>7

\* InsertPacket accounts for every frame.
LEMMA InsertPacketBalanced ==
    ASSUME NEW j \in JB, Sound(j), NEW p \in Packet
    PROVE  LET r == InsertPacket(j, p)
           IN  /\ Balanced(j, r.jb)
               /\ r.ret \in Result
               /\ r.ret = "assert" => PoolExhausted(j)
<1>1. CASE IsOldTimestamp(j.last, p.ts)
  <2> DEFINE r == InsertOldPacket(j, p)
  <2>1. /\ Shrinks(j, r.jb)
        /\ SmallEnough(j.missing) => SmallEnough(r.jb.missing)
        /\ r.ret \in {"kFlushIndicator", "kOldPacket"}
    BY InsertOldPacketShrinks
  <2>2. InsertPacket(j, p) = r
    BY <1>1 DEF InsertPacket
  <2> HIDE DEF r
  <2> QED
    BY <2>1, <2>2, ShrinksBalanced DEF Result
<1>2. CASE ~IsOldTimestamp(j.last, p.ts)
  <2>1. InsertPacket(j, p) = InsertNewPacket(j, p)
    BY <1>2 DEF InsertPacket
  <2> QED
    BY <2>1, InsertNewPacketBalanced
<1> QED
  BY <1>1, <1>2

-----------------------------------------------------------------------------
Extracted == [ts : Timestamp, frame : Frame, continuous : BOOLEAN]

\* Handing out one frame of decodable_frames_ and keeping the list K of it.
LEMMA HandOutType ==
    ASSUME NEW j \in JB, Sound(j), NEW t \in DOMAIN j.decodable,
           NEW K, Sublist(K, j.decodable)
    PROVE  LET st == SetState(j.decodable[t], t)
               k == [j EXCEPT !.decodable = K, !.last = st,
                              !.missing = DropPackets(@, st.seq)]
               h == [ts |-> t, frame |-> j.decodable[t],
                     continuous |-> ContinuousFrame(j.last, j.decodable[t])]
           IN  /\ k \in JB /\ Sound(k)
               /\ k.missing \subseteq j.missing
               /\ k.allocated = j.allocated
               /\ Count(k) + Cardinality(DOMAIN j.decodable)
                    = Count(j) + Cardinality(DOMAIN K)
               /\ h \in Extracted
<1> DEFINE st == SetState(j.decodable[t], t)
           M == DropPackets(j.missing, st.seq)
           k == [j EXCEPT !.decodable = K, !.last = st, !.missing = M]
           h == [ts |-> t, frame |-> j.decodable[t],
                 continuous |-> ContinuousFrame(j.last, j.decodable[t])]
<1>1. /\ j.decodable \in FrameList /\ t \in Timestamp
      /\ j.decodable[t] \in FilledFrame
  BY CountType, FrameListTypes
<1>2. st \in DecodingState
  BY <1>1, FilledFrameTypes
<1>3. M \in SUBSET SeqNum /\ M \subseteq j.missing
  BY DropTypes DEF JB
<1>4. K \in FrameList /\ Sublist(j.incomplete, j.incomplete)
  BY CountType, SublistFacts DEF Sublist
<1>5. h \in Extracted
  <2>1. ContinuousFrame(j.last, j.decodable[t]) \in BOOLEAN
    BY DEF ContinuousFrame
  <2> QED
    BY <1>1, <2>1 DEF Extracted, FilledFrame
<1> HIDE DEF st, M, h
<1>6. /\ k \in JB /\ k.decodable = K /\ k.incomplete = j.incomplete
      /\ k.free = j.free /\ k.allocated = j.allocated
      /\ k.missing = M
  BY <1>2, <1>3, <1>4 DEF JB
<1> HIDE DEF k
<1>7. Count(k) + Cardinality(DOMAIN j.decodable) = Count(j) + Cardinality(DOMAIN K)
  BY <1>4, <1>6, CountType, FrameListTypes DEF Count
<1>8. Sound(k)
  BY <1>4, <1>6, SublistSound
<1> QED
  BY <1>3, <1>5, <1>6, <1>7, <1>8 DEF k, M, st, h

\* ExtractAndSetDecode hands out one frame or none; without errors allowed it
\* loses none.
LEMMA ExtractTypes ==
    ASSUME NEW j \in JB, Sound(j), NEW ts
    PROVE  LET r == ExtractAndSetDecode(j, ts)
           IN  /\ r.jb \in JB /\ Sound(r.jb)
               /\ r.jb.missing \subseteq j.missing
               /\ r.jb.allocated = j.allocated
               /\ \/ r.frames = {}
                  \/ \E h \in Extracted : r.frames = {h}
               /\ DecodeErrorMode = "kNoErrors"
                     => Count(r.jb) + Cardinality(r.frames) = Count(j)
<1> DEFINE dcd == j.decodable
           keys == {t \in DOMAIN dcd : /\ t # ts
                                       /\ IsNewerTimestamp(t, ts)
                                       /\ dcd[t].type = "key"
                                       /\ dcd[t].state = "Complete"}
           next == {t \in keys : \A u \in keys : ~IsNewerTimestamp(t, u)}
           t == CHOOSE t \in next : TRUE
           State(u) == SetState(dcd[u], u)
           After1(u, K) == [j EXCEPT !.decodable = K, !.last = State(u),
                                     !.missing = DropPackets(@, State(u).seq)]
           Out(u) == [ts |-> u, frame |-> dcd[u],
                      continuous |-> ContinuousFrame(j.last, dcd[u])]
           one == Remove(dcd, {ts})
           rest == Remove(From(dcd, t), {t})
           none == [j EXCEPT !.decodable = EmptyList]
           r == ExtractAndSetDecode(j, ts)
<1>1. \/ r = [jb |-> j, frames |-> {}]
      \/ /\ ts \in DOMAIN dcd
         /\ r = [jb |-> After1(ts, one), frames |-> {Out(ts)}]
      \/ /\ ts \in DOMAIN dcd /\ dcd[ts].state # "Complete"
         /\ r = [jb |-> none, frames |-> {}]
      \/ /\ ts \in DOMAIN dcd /\ dcd[ts].state # "Complete" /\ next # {}
         /\ r = [jb |-> After1(t, rest), frames |-> {Out(t)}]
  BY DEF ExtractAndSetDecode
<1>2. next \subseteq DOMAIN dcd
  OBVIOUS
<1> HIDE DEF next
<1>3. next # {} => t \in DOMAIN dcd
  BY <1>2
<1>4. dcd \in FrameList
  BY CountType
<1>5. ts \in DOMAIN dcd =>
        /\ Sublist(one, dcd)
        /\ Cardinality(DOMAIN one) = Cardinality(DOMAIN dcd) - 1
  BY <1>4, RemoveOne
<1>6. Sublist(rest, dcd)
  <2>1. From(dcd, t) \in FrameList /\ Sublist(From(dcd, t), dcd)
    BY <1>4, FromType, SublistFacts
  <2>2. Sublist(rest, From(dcd, t))
    BY <2>1, SublistFacts
  <2> QED
    BY <2>1, <2>2 DEF Sublist
<1>7. DecodeErrorMode = "kNoErrors" => \A u \in DOMAIN dcd : dcd[u].state = "Complete"
  BY DEF Sound, OnlyComplete
<1>8. Cardinality({}) = 0 /\ \A x : Cardinality({x}) = 1
  BY FS_EmptySet, FS_Singleton
<1>9. CASE r = [jb |-> j, frames |-> {}]
  BY <1>8, <1>9, CountType
<1>10. CASE /\ ts \in DOMAIN dcd
            /\ r = [jb |-> After1(ts, one), frames |-> {Out(ts)}]
  <2>1. /\ After1(ts, one) \in JB /\ Sound(After1(ts, one))
        /\ After1(ts, one).missing \subseteq j.missing
        /\ After1(ts, one).allocated = j.allocated
        /\ Count(After1(ts, one)) + Cardinality(DOMAIN dcd)
             = Count(j) + Cardinality(DOMAIN one)
        /\ Out(ts) \in Extracted
    BY <1>5, <1>10, HandOutType
  <2>2. r.jb = After1(ts, one) /\ r.frames = {Out(ts)}
    BY <1>10
  <2> HIDE DEF After1, Out, r
  <2>3. Count(After1(ts, one)) + 1 = Count(j)
    BY <1>5, <1>10, <2>1, CountType
  <2> QED
    BY <1>8, <2>1, <2>2, <2>3 DEF r
<1>11. CASE /\ ts \in DOMAIN dcd /\ dcd[ts].state # "Complete"
            /\ r = [jb |-> none, frames |-> {}]
  <2>1. /\ none \in JB /\ none.decodable = EmptyList
        /\ none.incomplete = j.incomplete
        /\ none.missing = j.missing /\ none.allocated = j.allocated
    BY EmptyListType DEF JB
  <2>2. r.jb = none /\ r.frames = {}
    BY <1>11
  <2> HIDE DEF none, r
  <2>3. Sound(none)
    BY <2>1, <1>4, SublistFacts, CountType, SublistSound
  <2> QED
    BY <1>7, <1>11, <2>1, <2>2, <2>3 DEF r
<1>12. CASE /\ ts \in DOMAIN dcd /\ dcd[ts].state # "Complete" /\ next # {}
            /\ r = [jb |-> After1(t, rest), frames |-> {Out(t)}]
  <2>1. /\ After1(t, rest) \in JB /\ Sound(After1(t, rest))
        /\ After1(t, rest).missing \subseteq j.missing
        /\ After1(t, rest).allocated = j.allocated
        /\ Out(t) \in Extracted
    BY <1>3, <1>6, <1>12, HandOutType, ZenonT(60)
  <2>2. r.jb = After1(t, rest) /\ r.frames = {Out(t)}
    BY <1>12
  <2> HIDE DEF After1, Out, r
  <2> QED
    BY <1>7, <1>12, <2>1, <2>2 DEF r
<1> QED
  BY <1>1, <1>9, <1>10, <1>11, <1>12

-----------------------------------------------------------------------------
(***************************************************************************)
(* The invariants of VideoReceiver.                                        *)
(***************************************************************************)
\* No timestamp is in both lists, decodable frames are complete, and neither
\* the NACK list nor the pool has outgrown its limit.
BufferInv ==
    /\ Sound(jb)
    /\ NackListBounded
    /\ jb.allocated <= kMaxNumberOfFrames

\* The decode thread holds one frame while it decodes, and none otherwise.
HeldInv == IF dec = "decode" THEN \E h \in HeldFrame : held = {h} ELSE held = {}

\* Without decoding with errors every frame is accounted for ...
CountInv ==
    DecodeErrorMode = "kNoErrors"
        => Count(jb) + Cardinality(held) = jb.allocated

\* ... so that a pool of two frames never runs dry.
AbortInv ==
    DecodeErrorMode = "kNoErrors" /\ kMaxNumberOfFrames >= 2 => net # "aborted"

MainInv == TypeOK /\ BufferInv /\ HeldInv /\ CountInv /\ AbortInv

\* The decode thread has been joined exactly from StopDecodeThread to the next
\* StartDecodeThread, so that no two of them run.
ExitInv == dec = "exited" <=> api \in {"joined", "stopped"}

IInv == MainInv /\ ExitInv

-----------------------------------------------------------------------------
\* NackListBounded is SmallEnough, of the whole list.
LEMMA NackListSmall == NackListBounded <=> SmallEnough(jb.missing)
BY DEF NackListBounded, SmallEnough

\* The inductive invariant holds initially.
LEMMA InitMainInv == Init => MainInv
<1> SUFFICES ASSUME Init PROVE MainInv
  OBVIOUS
<1>1. NewJB \in JB
  BY RingTypes, EmptyListType, JitterBufferAssumption, ModAssumption
  DEF NewJB, JB, SeqNum
<1>2. /\ NewJB.decodable = EmptyList /\ NewJB.incomplete = EmptyList
      /\ NewJB.free = kStartNumberOfFrames
      /\ NewJB.allocated = kStartNumberOfFrames /\ NewJB.missing = {}
  BY DEF NewJB
<1> DEFINE j == Start(NewJB)
<1>3. /\ j \in JB /\ j.decodable = EmptyList /\ j.incomplete = EmptyList
      /\ j.free = kStartNumberOfFrames
      /\ j.allocated = kStartNumberOfFrames /\ j.missing = {}
  BY <1>1, <1>2, StartType DEF Start, JB
<1>4. jb = j
  BY DEF Init
<1> HIDE DEF j
<1>5. TypeOK
  <2>1. IsJitterBuffer(jb)
    BY <1>3, <1>4, JBDef
  <2>2. decTs \in Timestamp /\ restarts \in 0 .. MaxRestarts
    BY ModAssumption, VideoReceiverAssumption DEF Init, Timestamp
  <2> QED
    BY <2>1, <2>2 DEF Init, TypeOK
<1>6. BufferInv
  <2>1. Sound(jb)
    BY <1>3, <1>4, EmptyListType DEF Sound, Apart, OnlyComplete
  <2>2. NackListBounded
    <3>1. Cardinality(jb.missing) = 0
      BY <1>3, <1>4, EmptyListType, Zenon
    <3> QED
      BY <3>1, JitterBufferAssumption DEF NackListBounded
  <2>3. jb.allocated <= kMaxNumberOfFrames
    BY <1>3, <1>4, JitterBufferAssumption
  <2> QED
    BY <2>1, <2>2, <2>3 DEF BufferInv
<1>7. HeldInv /\ AbortInv
  BY DEF Init, HeldInv, AbortInv
<1>8. CountInv
  BY <1>3, <1>4, EmptyListType, JitterBufferAssumption
  DEF Init, CountInv, Count
<1> QED
  BY <1>5, <1>6, <1>7, <1>8 DEF MainInv

\* The decode thread holds at most one frame.
LEMMA HeldCount ==
    ASSUME HeldInv
    PROVE  Cardinality(held) = IF dec = "decode" THEN 1 ELSE 0
BY FS_EmptySet, FS_Singleton DEF HeldInv

\* A step that is balanced keeps what is said of the jitter buffer.
LEMMA BalancedStep ==
    ASSUME TypeOK, BufferInv, HeldInv, CountInv, Balanced(jb, jb'), held' = held
    PROVE  IsJitterBuffer(jb') /\ BufferInv' /\ CountInv'
<1>1. jb \in JB /\ jb' \in JB
  BY JBDef DEF TypeOK, Balanced
<1>2. SmallEnough(jb.missing)
  BY NackListSmall DEF BufferInv
<1>3. BufferInv'
  BY <1>2 DEF Balanced, BufferInv, NackListBounded, SmallEnough
<1>4. CountInv'
  <2>1. Count(jb') + jb.allocated = Count(jb) + jb'.allocated
    BY DEF Balanced
  <2>2. /\ Count(jb) \in Nat /\ Count(jb') \in Nat
        /\ jb.allocated \in Nat /\ jb'.allocated \in Nat
    BY <1>1, CountType
  <2>3. ASSUME DecodeErrorMode = "kNoErrors"
        PROVE  Count(jb') + Cardinality(held') = jb'.allocated
    <3>1. Count(jb) + Cardinality(held) = jb.allocated
      BY <2>3 DEF CountInv
    <3>2. Cardinality(held) \in Nat
      BY HeldCount
    <3> QED
      BY <2>1, <2>2, <3>1, <3>2
  <2> QED
    BY <2>3 DEF CountInv
<1> QED
  BY <1>1, <1>3, <1>4, JBDef

\* The same for a step that only takes frames out of the lists.
LEMMA ShrinkingStep ==
    ASSUME TypeOK, BufferInv, HeldInv, CountInv, Shrinks(jb, jb'),
           SmallEnough(jb.missing) => SmallEnough(jb'.missing), held' = held
    PROVE  IsJitterBuffer(jb') /\ BufferInv' /\ CountInv'
<1>1. jb \in JB /\ Sound(jb)
  BY JBDef DEF TypeOK, BufferInv
<1> QED
  BY <1>1, ShrinksBalanced, BalancedStep

\* ResetDecoder starts or flushes the jitter buffer, or leaves it alone.
LEMMA ResetDecoderShrinks ==
    ASSUME TypeOK, ResetDecoder
    PROVE  /\ Shrinks(jb, jb')
           /\ SmallEnough(jb.missing) => SmallEnough(jb'.missing)
<1>1. jb \in JB
  BY JBDef DEF TypeOK
<1>2. jb' \in {jb, Start(jb), Flush(jb)}
  BY DEF ResetDecoder
<1>3. SmallEnough({})
  BY FS_EmptySet, JitterBufferAssumption DEF SmallEnough
<1>4. CASE jb' = jb
  BY <1>1, <1>4, ShrinksReflexive
<1>5. CASE jb' = Start(jb)
  BY <1>1, <1>5, StartShrinks
<1>6. CASE jb' = Flush(jb)
  BY <1>1, <1>3, <1>6, StopFlushShrink
<1> QED
  BY <1>2, <1>4, <1>5, <1>6

-----------------------------------------------------------------------------
(***************************************************************************)
(* One lemma per thread: each of its steps keeps the invariant.            *)
(***************************************************************************)
\* The network thread.
LEMMA NetworkStep ==
    ASSUME MainInv, Network
    PROVE  MainInv'
<1> USE DEF MainInv
<1>1. CASE AdmitPacket
  <2>1. TypeOK'
    BY <1>1 DEF AdmitPacket, TypeOK
  <2> QED
    BY <1>1, <2>1 DEF AdmitPacket, BufferInv, NackListBounded, HeldInv, CountInv,
       AbortInv
<1>2. ASSUME NEW p \in Packets, IncomingPacket(p)
      PROVE  MainInv'
  <2> DEFINE r == InsertPacket(jb, p)
  <2>1. jb \in JB /\ Sound(jb) /\ p \in Packet
    BY JBDef, VideoReceiverAssumption DEF TypeOK, BufferInv
  <2>2. /\ Balanced(jb, r.jb) /\ r.ret \in Result
        /\ r.ret = "assert" => PoolExhausted(jb)
    BY <2>1, InsertPacketBalanced
  <2> HIDE DEF r
  <2>3. /\ jb' = r.jb /\ held' = held
        /\ net' = CASE r.ret = "kFlushIndicator" -> "reset"
                    [] r.ret = "assert" -> "aborted"
                    [] OTHER -> "idle"
    BY <1>2 DEF IncomingPacket, r
  <2>4. IsJitterBuffer(jb') /\ BufferInv' /\ CountInv'
    BY <2>2, <2>3, BalancedStep
  <2>5. net' \in {"reset", "aborted", "idle"}
    BY <2>3
  <2>6. wire' \in SUBSET Packets
    BY <1>2 DEF IncomingPacket, TypeOK
  <2>7. TypeOK'
    BY <1>2, <2>4, <2>5, <2>6 DEF IncomingPacket, TypeOK
  <2>8. HeldInv'
    BY <1>2 DEF IncomingPacket, HeldInv
  <2>9. AbortInv'
    <3> SUFFICES ASSUME DecodeErrorMode = "kNoErrors", kMaxNumberOfFrames >= 2,
                        r.ret = "assert"
                 PROVE  FALSE
      BY <2>3 DEF AbortInv
    <3>1. PoolExhausted(jb)
      BY <2>2
    <3>2. Count(jb) = 0
      BY <3>1, FS_EmptySet DEF Count, PoolExhausted, IsEmpty
    <3>3. Cardinality(held) \in {0, 1}
      BY HeldCount
    <3>4. jb.allocated \in Nat
      BY <2>1, CountType
    <3> QED
      BY <3>1, <3>2, <3>3, <3>4, JitterBufferAssumption DEF CountInv, PoolExhausted
  <2> QED
    BY <2>4, <2>7, <2>8, <2>9
<1>3. CASE FlushIndicated
  <2>1. Shrinks(jb, jb') /\ (SmallEnough(jb.missing) => SmallEnough(jb'.missing))
    BY <1>3, ResetDecoderShrinks DEF FlushIndicated
  <2>2. held' = held
    BY <1>3 DEF FlushIndicated
  <2>3. IsJitterBuffer(jb') /\ BufferInv' /\ CountInv'
    BY <2>1, <2>2, ShrinkingStep
  <2>4. TypeOK'
    BY <1>3, <2>3 DEF FlushIndicated, ResetDecoder, TypeOK
  <2>5. HeldInv' /\ AbortInv'
    BY <1>3 DEF FlushIndicated, HeldInv, AbortInv
  <2> QED
    BY <2>3, <2>4, <2>5
<1>4. CASE ResetKeyRequest
  <2>1. TypeOK'
    BY <1>4 DEF ResetKeyRequest, TypeOK
  <2> QED
    BY <1>4, <2>1 DEF ResetKeyRequest, BufferInv, NackListBounded, HeldInv,
       CountInv, AbortInv
<1> QED
  BY <1>1, <1>2, <1>3, <1>4 DEF Network

\* The timestamp that NextCompleteTimestamp returns is one of a frame.
LEMMA ReturnTimestampType ==
    ASSUME TypeOK, HeldInv, dec # "decode", held' = held, NEW j \in JB,
           NEW S \in SUBSET DOMAIN j.decodable, ReturnTimestamp(S)
    PROVE  /\ decTs' \in Timestamp
           /\ dec' \in {"idle", "timing"}
           /\ HeldInv'
<1>1. DOMAIN j.decodable \subseteq Timestamp
  BY CountType, FrameListTypes
<1>2. decTs' \in Timestamp /\ dec' \in {"idle", "timing"}
  BY <1>1 DEF ReturnTimestamp, TypeOK
<1> QED
  BY <1>2 DEF HeldInv

\* CleanUpOldOrEmptyFrames, once or twice.
LEMMA CleanUpStep ==
    ASSUME TypeOK, BufferInv, HeldInv, CountInv, held' = held,
           jb' \in {CleanUpOldOrEmptyFrames(jb),
                    CleanUpOldOrEmptyFrames(CleanUpOldOrEmptyFrames(jb))}
    PROVE  IsJitterBuffer(jb') /\ BufferInv' /\ CountInv'
<1> DEFINE j == CleanUpOldOrEmptyFrames(jb)
           k == CleanUpOldOrEmptyFrames(j)
<1>1. jb \in JB /\ jb.missing \in SUBSET SeqNum
  BY JBDef DEF TypeOK, JB
<1>2. Shrinks(jb, j) /\ j.missing \subseteq jb.missing
  BY <1>1, CleanUpShrinks
<1> HIDE DEF j
<1>3. j \in JB
  BY <1>2 DEF Shrinks
<1>4. Shrinks(j, k) /\ k.missing \subseteq j.missing
  BY <1>3, CleanUpShrinks
<1> HIDE DEF k
<1>5. Shrinks(jb, k) /\ k.missing \subseteq jb.missing
  BY <1>2, <1>4, ShrinksTransitive
<1>6. jb' \in {j, k}
  BY DEF j, k
<1>7. /\ Shrinks(jb, jb')
      /\ SmallEnough(jb.missing) => SmallEnough(jb'.missing)
  BY <1>1, <1>2, <1>5, <1>6, SmallSubset
<1> QED
  BY <1>7, ShrinkingStep

\* The decode thread.
LEMMA DecodeThreadStep ==
    ASSUME MainInv, DecodeThread
    PROVE  MainInv'
<1> USE DEF MainInv
<1>1. jb \in JB /\ Sound(jb) /\ SmallEnough(jb.missing)
      /\ jb.missing \in SUBSET SeqNum
  BY JBDef, NackListSmall DEF TypeOK, BufferInv, JB
<1>2. CASE NextComplete
  <2> DEFINE j == CleanUpOldOrEmptyFrames(jb)
             k == CleanUpOldOrEmptyFrames(j)
  <2>1. /\ held' = held /\ dec # "decode"
        /\ UNCHANGED <<wire, net, decoder, scheduleKeyRequest, api, restarts, shown>>
    BY <1>2 DEF NextComplete
  <2>2. j \in JB
    BY <1>1, CleanUpShrinks DEF Shrinks
  <2>3. k \in JB
    BY <2>2, CleanUpShrinks DEF Shrinks
  <2>4. /\ jb' \in {jb, j, k}
        /\ \/ dec' \in {"idle", "wait"} /\ decTs' = decTs
           \/ ReturnTimestamp(CompleteFront(j))
           \/ ReturnTimestamp(LastChance(k))
    BY <1>2 DEF NextComplete
  <2>5. IsJitterBuffer(jb') /\ BufferInv' /\ CountInv'
    <3>1. CASE jb' = jb
      BY <1>1, <2>1, <3>1, ShrinksReflexive, ShrinkingStep
    <3>2. CASE jb' \in {j, k}
      BY <2>1, <3>2, CleanUpStep
    <3> QED
      BY <2>4, <3>1, <3>2
  <2> HIDE DEF j, k
  <2>6. /\ CompleteFront(j) \in SUBSET DOMAIN j.decodable
        /\ LastChance(k) \in SUBSET DOMAIN k.decodable
    BY DEF CompleteFront, LastChance
  <2>7. decTs' \in Timestamp /\ dec' \in {"idle", "wait", "timing"} /\ HeldInv'
    <3>1. CASE dec' \in {"idle", "wait"} /\ decTs' = decTs
      BY <2>1, <3>1 DEF HeldInv, TypeOK
    <3>2. CASE ReturnTimestamp(CompleteFront(j))
      BY <2>1, <2>2, <2>6, <3>2, ReturnTimestampType
    <3>3. CASE ReturnTimestamp(LastChance(k))
      BY <2>1, <2>3, <2>6, <3>3, ReturnTimestampType
    <3> QED
      BY <2>4, <3>1, <3>2, <3>3
  <2>8. TypeOK' /\ AbortInv'
    BY <2>1, <2>5, <2>7 DEF TypeOK, AbortInv
  <2> QED
    BY <2>5, <2>7, <2>8
<1>3. CASE WaitSignaled
  <2>1. /\ jb' = [jb EXCEPT !.event = FALSE] /\ held' = held /\ dec = "wait"
        /\ dec' = "check"
        /\ UNCHANGED <<wire, net, decTs, decoder, scheduleKeyRequest, api, restarts,
                       shown>>
    BY <1>3 DEF WaitSignaled
  <2>2. /\ jb' \in JB /\ jb'.incomplete = jb.incomplete
        /\ jb'.decodable = jb.decodable /\ jb'.free = jb.free
        /\ jb'.allocated = jb.allocated /\ jb'.missing = jb.missing
    BY <1>1, <2>1 DEF JB
  <2>3. Shrinks(jb, jb')
    BY <1>1, <2>2, ShrinksReflexive, ShrinksSame
  <2>4. IsJitterBuffer(jb') /\ BufferInv' /\ CountInv'
    BY <2>1, <2>2, <2>3, ShrinkingStep
  <2>5. TypeOK' /\ HeldInv' /\ AbortInv'
    BY <2>1, <2>4 DEF TypeOK, HeldInv, AbortInv
  <2> QED
    BY <2>4, <2>5
<1>4. CASE WaitTimedOut
  <2>1. TypeOK'
    BY <1>4 DEF WaitTimedOut, TypeOK
  <2> QED
    BY <1>4, <2>1 DEF WaitTimedOut, BufferInv, NackListBounded, HeldInv,
       CountInv, AbortInv
<1>5. CASE LastLook
  <2> DEFINE j == CleanUpOldOrEmptyFrames(jb)
  <2>1. /\ held' = held /\ dec # "decode" /\ jb' = j
        /\ ReturnTimestamp(LastChance(j))
        /\ UNCHANGED <<wire, net, decoder, scheduleKeyRequest, api, restarts, shown>>
    BY <1>5 DEF LastLook
  <2>2. j \in JB
    BY <1>1, CleanUpShrinks DEF Shrinks
  <2>3. IsJitterBuffer(jb') /\ BufferInv' /\ CountInv'
    BY <2>1, CleanUpStep
  <2> HIDE DEF j
  <2>4. LastChance(j) \in SUBSET DOMAIN j.decodable
    BY DEF LastChance
  <2>5. decTs' \in Timestamp /\ dec' \in {"idle", "timing"} /\ HeldInv'
    BY <2>1, <2>2, <2>4, ReturnTimestampType
  <2>6. TypeOK' /\ AbortInv'
    BY <2>1, <2>3, <2>5 DEF TypeOK, AbortInv
  <2> QED
    BY <2>3, <2>5, <2>6
<1>6. CASE TimingError
  <2>1. /\ jb' = Flush(jb) /\ held' = held /\ dec = "timing" /\ dec' = "idle"
        /\ UNCHANGED <<wire, net, decTs, decoder, scheduleKeyRequest, api, restarts,
                       shown>>
    BY <1>6 DEF TimingError
  <2>2. Shrinks(jb, jb') /\ jb'.missing = {}
    BY <1>1, <2>1, StopFlushShrink
  <2>3. SmallEnough(jb'.missing)
    BY <1>1, <2>2, SmallSubset
  <2>4. IsJitterBuffer(jb') /\ BufferInv' /\ CountInv'
    BY <2>1, <2>2, <2>3, ShrinkingStep
  <2>5. TypeOK' /\ HeldInv' /\ AbortInv'
    BY <2>1, <2>4 DEF TypeOK, HeldInv, AbortInv
  <2> QED
    BY <2>4, <2>5
<1>7. CASE NotDueYet
  <2>1. TypeOK'
    BY <1>7 DEF NotDueYet, TypeOK
  <2> QED
    BY <1>7, <2>1 DEF NotDueYet, BufferInv, NackListBounded, HeldInv, CountInv,
       AbortInv
<1>8. CASE Extract
  <2> DEFINE r == ExtractAndSetDecode(jb, decTs)
  <2>1. /\ jb' = r.jb /\ held' = r.frames /\ dec = "timing"
        /\ dec' = IF r.frames = {} THEN "idle" ELSE "decode"
        /\ UNCHANGED <<wire, net, decTs, decoder, scheduleKeyRequest, api, restarts,
                       shown>>
    BY <1>8 DEF Extract
  <2>2. /\ r.jb \in JB /\ Sound(r.jb) /\ r.jb.missing \subseteq jb.missing
        /\ r.jb.allocated = jb.allocated
        /\ r.frames = {} \/ \E h \in Extracted : r.frames = {h}
        /\ DecodeErrorMode = "kNoErrors"
              => Count(r.jb) + Cardinality(r.frames) = Count(jb)
    BY <1>1, ExtractTypes
  <2> HIDE DEF r
  <2>3. held' \in SUBSET HeldFrame /\ HeldInv'
    BY <2>1, <2>2 DEF HeldInv, HeldFrame, Extracted
  <2>4. IsJitterBuffer(jb') /\ SmallEnough(jb'.missing)
    BY <1>1, <2>1, <2>2, JBDef, SmallSubset
  <2>5. BufferInv'
    BY <2>1, <2>2, <2>4 DEF BufferInv, NackListBounded, SmallEnough
  <2>6. CountInv'
    <3>1. Cardinality(held) = 0
      BY <2>1, HeldCount
    <3>2. Count(jb) \in Nat
      BY <1>1, CountType
    <3> QED
      BY <2>1, <2>2, <3>1, <3>2 DEF CountInv
  <2>7. TypeOK' /\ AbortInv'
    BY <2>1, <2>3, <2>4 DEF TypeOK, AbortInv
  <2> QED
    BY <2>3, <2>5, <2>6, <2>7
<1>9. CASE DecodeFrame
  <2>1. /\ jb' = ReleaseFrame(jb) /\ held' = {} /\ dec = "decode" /\ dec' = "idle"
        /\ shown' = held /\ decoder' = TRUE
        /\ UNCHANGED <<wire, net, decTs, api, restarts>>
    BY <1>9 DEF DecodeFrame
  <2>2. scheduleKeyRequest' \in BOOLEAN
    BY <1>9 DEF DecodeFrame
  <2>3. Keeps(jb, jb', 1)
    BY <1>1, <2>1, ReleaseFrameKeeps
  <2>4. /\ jb' \in JB /\ Sound(jb') /\ Count(jb') = Count(jb) + 1
        /\ jb'.allocated = jb.allocated /\ jb'.missing = jb.missing
    BY <2>3 DEF Keeps
  <2>5. BufferInv' /\ IsJitterBuffer(jb')
    BY <2>4, JBDef DEF BufferInv, NackListBounded
  <2>6. CountInv'
    <3>1. Cardinality(held) = 1 /\ Cardinality(held') = 0
      BY <2>1, HeldCount, FS_EmptySet
    <3>2. Count(jb) \in Nat
      BY <1>1, CountType
    <3> QED
      BY <2>4, <3>1, <3>2 DEF CountInv
  <2>7. TypeOK' /\ HeldInv' /\ AbortInv'
    BY <2>1, <2>2, <2>5 DEF TypeOK, HeldInv, AbortInv
  <2> QED
    BY <2>5, <2>6, <2>7
<1> QED
  BY <1>2, <1>3, <1>4, <1>5, <1>6, <1>7, <1>8, <1>9 DEF DecodeThread

\* The process thread.
LEMMA ProcessStep ==
    ASSUME MainInv, ProcessNackList
    PROVE  MainInv'
<1> USE DEF MainInv
<1> DEFINE r == GetNackList(jb)
<1>1. /\ jb' = r.jb /\ held' = held
      /\ scheduleKeyRequest' = (scheduleKeyRequest /\ ~r.request_key_frame)
      /\ UNCHANGED <<wire, net, dec, decTs, decoder, api, restarts, shown>>
  BY DEF ProcessNackList
<1>2. /\ Shrinks(jb, r.jb)
      /\ SmallEnough(jb.missing) => SmallEnough(r.jb.missing)
  BY JBDef, GetNackListShrinks DEF TypeOK
<1> HIDE DEF r
<1>3. IsJitterBuffer(jb') /\ BufferInv' /\ CountInv'
  BY <1>1, <1>2, ShrinkingStep
<1>4. scheduleKeyRequest' \in BOOLEAN
  BY <1>1
<1>5. TypeOK' /\ HeldInv' /\ AbortInv'
  BY <1>1, <1>3, <1>4 DEF TypeOK, HeldInv, AbortInv
<1> QED
  BY <1>3, <1>5

\* The API thread.
LEMMA ApiThreadStep ==
    ASSUME MainInv, ExitInv, ApiThread
    PROVE  MainInv'
<1> USE DEF MainInv
<1>1. CASE StopReceive
  <2>1. TypeOK'
    BY <1>1, VideoReceiverAssumption DEF StopReceive, TypeOK
  <2> QED
    BY <1>1, <2>1 DEF StopReceive, BufferInv, NackListBounded, HeldInv,
       CountInv, AbortInv
<1>2. CASE TriggerDecoderShutdown
  <2>1. /\ jb' = Stop(jb) /\ held' = held /\ api' = "joining"
        /\ UNCHANGED <<wire, net, dec, decTs, decoder, scheduleKeyRequest, restarts,
                       shown>>
    BY <1>2 DEF TriggerDecoderShutdown
  <2>2. Shrinks(jb, jb') /\ jb'.missing = jb.missing
    BY <2>1, JBDef, StopFlushShrink DEF TypeOK
  <2>3. IsJitterBuffer(jb') /\ BufferInv' /\ CountInv'
    BY <2>1, <2>2, ShrinkingStep
  <2>4. TypeOK' /\ HeldInv' /\ AbortInv'
    BY <2>1, <2>3 DEF TypeOK, HeldInv, AbortInv
  <2> QED
    BY <2>3, <2>4
<1>3. CASE JoinDecodeThread
  <2>1. TypeOK'
    BY <1>3 DEF JoinDecodeThread, TypeOK
  <2> QED
    BY <1>3, <2>1 DEF JoinDecodeThread, BufferInv, NackListBounded, HeldInv,
       CountInv, AbortInv
<1>4. CASE ResetAfterStop
  <2>1. Shrinks(jb, jb') /\ (SmallEnough(jb.missing) => SmallEnough(jb'.missing))
    BY <1>4, ResetDecoderShrinks DEF ResetAfterStop
  <2>2. held' = held
    BY <1>4 DEF ResetAfterStop
  <2>3. IsJitterBuffer(jb') /\ BufferInv' /\ CountInv'
    BY <2>1, <2>2, ShrinkingStep
  <2>4. scheduleKeyRequest' \in BOOLEAN
    BY <1>4 DEF ResetAfterStop
  <2>5. TypeOK'
    BY <1>4, <2>3, <2>4 DEF ResetAfterStop, ResetDecoder, TypeOK
  <2>6. HeldInv' /\ AbortInv'
    BY <1>4 DEF ResetAfterStop, HeldInv, AbortInv
  <2> QED
    BY <2>3, <2>5, <2>6
<1>5. CASE StartDecodeThread
  <2>1. UNCHANGED <<jb, net, held>> /\ dec' = "idle" /\ dec # "decode"
    BY <1>5 DEF StartDecodeThread, ExitInv
  <2>2. TypeOK'
    BY <1>5 DEF StartDecodeThread, TypeOK
  <2> QED
    BY <1>5, <2>1, <2>2 DEF BufferInv, NackListBounded, HeldInv, CountInv, AbortInv
<1>6. CASE StartReceive
  <2>1. TypeOK'
    BY <1>6 DEF StartReceive, TypeOK
  <2> QED
    BY <1>6, <2>1 DEF StartReceive, BufferInv, NackListBounded, HeldInv,
       CountInv, AbortInv
<1> QED
  BY <1>1, <1>2, <1>3, <1>4, <1>5, <1>6 DEF ApiThread

\* Only the API thread makes the decode thread leave, or starts it again.
LEMMA ExitStep ==
    ASSUME ExitInv, Next
    PROVE  ExitInv'
<1> USE DEF ExitInv
<1>1. CASE Network
  BY <1>1 DEF Network, AdmitPacket, IncomingPacket, FlushIndicated,
     ResetKeyRequest
<1>2. CASE NextComplete \/ LastLook
  <2>1. /\ dec # "exited" /\ dec' # "exited" /\ api' = api
    BY <1>2 DEF NextComplete, LastLook, ReturnTimestamp
  <2> QED
    BY <2>1
<1>3. CASE WaitSignaled \/ WaitTimedOut \/ TimingError \/ NotDueYet
  BY <1>3 DEF WaitSignaled, WaitTimedOut, TimingError, NotDueYet
<1>4. CASE Extract \/ DecodeFrame
  BY <1>4 DEF Extract, DecodeFrame
<1>5. CASE ProcessNackList
  BY <1>5 DEF ProcessNackList
<1>6. CASE StopReceive \/ TriggerDecoderShutdown \/ JoinDecodeThread
  BY <1>6 DEF StopReceive, TriggerDecoderShutdown, JoinDecodeThread
<1>7. CASE ResetAfterStop \/ StartDecodeThread \/ StartReceive
  BY <1>7 DEF ResetAfterStop, StartDecodeThread, StartReceive
<1> QED
  BY <1>1, <1>2, <1>3, <1>4, <1>5, <1>6, <1>7
  DEF Next, DecodeThread, ApiThread

-----------------------------------------------------------------------------
\* The inductive invariant holds in every reachable state of the receiver, with
\* any packets, any pool and NACK list size, and in both decode error modes.
THEOREM Invariance == Spec => []IInv
<1>1. Init => IInv
  BY InitMainInv DEF IInv, Init, ExitInv
<1>2. IInv /\ [Next]_vars => IInv'
  <2> SUFFICES ASSUME IInv, [Next]_vars PROVE IInv'
    OBVIOUS
  <2>1. CASE Next
    BY <2>1, NetworkStep, DecodeThreadStep, ProcessStep, ApiThreadStep, ExitStep
    DEF Next, IInv
  <2>2. CASE UNCHANGED vars
    BY <2>2 DEF vars, IInv, MainInv, TypeOK, BufferInv, NackListBounded,
       HeldInv, CountInv, AbortInv, ExitInv
  <2> QED
    BY <2>1, <2>2
<1> QED
  BY <1>1, <1>2, PTL DEF Spec

\* Every variable keeps its type: whatever arrives, and however it wraps, the
\* sequence numbers and timestamps stay in their ranges, and every frame in a
\* list has the sequence numbers that VCMDecodingState::SetState asserts.
THEOREM TypeCorrect == Spec => []TypeOK
<1>1. IInv => TypeOK
  BY DEF IInv, MainInv
<1> QED
  BY <1>1, Invariance, PTL

\* The NACK list never outgrows max_nack_list_size_, so that it fits the array
\* that VideoReceiver::Process hands to VCMReceiver::NackList.
THEOREM NackListFits == Spec => []NackListBounded
<1>1. IInv => NackListBounded
  BY DEF IInv, MainInv, BufferInv
<1> QED
  BY <1>1, Invariance, PTL

\* As long as incomplete frames are not handed to the decoder (the mode of a
\* channel with NACK), InsertPacket, NextCompleteTimestamp, ExtractAndSetDecode,
\* GetNackList, Flush, Stop and ReleaseFrame neither lose a frame buffer nor
\* free one twice, and no more than kMaxNumberOfFrames are allocated.
THEOREM FramesConserved ==
    ASSUME DecodeErrorMode = "kNoErrors"
    PROVE  Spec => []FrameConservation
<1>1. IInv => FrameConservation
  <2> SUFFICES ASSUME IInv PROVE FrameConservation
    OBVIOUS
  <2>1. jb \in JB /\ Count(jb) + Cardinality(held) = jb.allocated
    BY JBDef DEF IInv, MainInv, TypeOK, CountInv
  <2>2. jb.allocated <= kMaxNumberOfFrames
    BY DEF IInv, MainInv, BufferInv
  <2> QED
    BY <2>1, <2>2 DEF FrameConservation, Count
<1> QED
  BY <1>1, Invariance, PTL

\* In that mode a pool of two frames is enough for assert(*frame) in GetFrame
\* never to fail: when no frame is free and none can be allocated, recycling
\* always yields one.
THEOREM FrameForEveryPacket ==
    ASSUME DecodeErrorMode = "kNoErrors", kMaxNumberOfFrames >= 2
    PROVE  Spec => []AlwaysAFrame
<1>1. IInv => AlwaysAFrame
  BY DEF IInv, MainInv, AbortInv, AlwaysAFrame
<1> QED
  BY <1>1, Invariance, PTL
=============================================================================
