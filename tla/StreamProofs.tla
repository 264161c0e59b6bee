---------------------------- MODULE StreamProofs ----------------------------
(***************************************************************************)
(* What VideoReceiver promises for a stream of packets as a sender sends   *)
(* it: frames reach the decoder whole, the decode thread misses none, the  *)
(* NACK list asks for packets that are missing and not too old, and a      *)
(* complete frame that continues the last decoded one is never left where  *)
(* the decode thread does not look. What is presupposed of the stream is   *)
(* named (ShortFrames and the like) and cited by each theorem that needs   *)
(* it; nothing is presupposed of the network, which may lose, duplicate    *)
(* and reorder packets.                                                    *)
(***************************************************************************)
EXTENDS VideoReceiverProofs, WellFoundedInduction

LF == INSTANCE ListFacts

-----------------------------------------------------------------------------
(***************************************************************************)
(* Numbers on a ring.                                                      *)
(***************************************************************************)
\* The distance between two numbers of a ring, without the modulus.
LEMMA AheadValue ==
    ASSUME NEW m \in Nat, m > 1, NEW a \in 0 .. m - 1, NEW b \in 0 .. m - 1
    PROVE  Ahead(a, b, m) = IF a >= b THEN a - b ELSE a - b + m
<1>1. CASE a >= b
  <2>1. a - b \in 0 .. m - 1
    BY <1>1
  <2>2. (a - b) % m = a - b
    BY <2>1
  <2> QED BY <1>1, <2>2 DEF Ahead
<1>2. CASE a < b
  <2>1. a - b + m \in 0 .. m - 1
    BY <1>2
  <2>2. (a - b + m) % m = a - b + m
    BY <2>1
  <2>3. (a - b + m) % m = (a - b) % m
    BY <1>2
  <2> QED BY <1>2, <2>2, <2>3 DEF Ahead
<1> QED BY <1>1, <1>2

\* On half of a ring, the distance from its base orders the numbers.
LEMMA RingOrder ==
    ASSUME NEW m \in Nat, m > 1, NEW b \in 0 .. m - 1,
           NEW x \in 0 .. m - 1, NEW y \in 0 .. m - 1,
           Ahead(x, b, m) < m \div 2, Ahead(y, b, m) < m \div 2
    PROVE  /\ Ahead(x, b, m) \in Nat
           /\ (x # y /\ Ahead(x, y, m) < m \div 2)
                 <=> Ahead(y, b, m) < Ahead(x, b, m)
           /\ Ahead(x, b, m) = Ahead(y, b, m) => x = y
           /\ Ahead(y, b, m) <= Ahead(x, b, m)
                 => Ahead(x, y, m) = Ahead(x, b, m) - Ahead(y, b, m)
<1>1. /\ Ahead(x, b, m) = IF x >= b THEN x - b ELSE x - b + m
      /\ Ahead(y, b, m) = IF y >= b THEN y - b ELSE y - b + m
      /\ Ahead(x, y, m) = IF x >= y THEN x - y ELSE x - y + m
  BY AheadValue
<1> DEFINE h == m \div 2
<1>2. h \in Nat /\ 2 * h <= m /\ m <= 2 * h + 1
  OBVIOUS
<1>3. Ahead(x, b, m) < h /\ Ahead(y, b, m) < h
  OBVIOUS
<1> HIDE DEF h
<1>4. (x # y /\ Ahead(x, y, m) < h) <=> Ahead(y, b, m) < Ahead(x, b, m)
  BY <1>1, <1>2, <1>3
<1>5. /\ Ahead(x, b, m) \in Nat
      /\ Ahead(x, b, m) = Ahead(y, b, m) => x = y
      /\ Ahead(y, b, m) <= Ahead(x, b, m)
                 => Ahead(x, y, m) = Ahead(x, b, m) - Ahead(y, b, m)
  BY <1>1, <1>2, <1>3
<1> QED BY <1>4, <1>5 DEF h

\* A set of numbers has a smallest one ...
LEMMA SmallestExists ==
    ASSUME NEW S, S \subseteq Nat, S # {}
    PROVE  \E x \in S : \A y \in S : x <= y
<1> DEFINE R == {ss \in Nat \X Nat : ss[1] < ss[2]}
<1>1. IsWellFoundedOn(R, Nat)
  BY NatLessThanWellFounded DEF OpToRel
<1>2. PICK x \in S : \A y \in S : ~(<<y, x>> \in R)
  <2> HIDE DEF R
  <2> QED BY <1>1, WFMin
<1>3. ASSUME NEW y \in S PROVE x <= y
  <2>1. x \in Nat /\ y \in Nat /\ ~(<<y, x>> \in R)
    BY <1>2
  <2> QED BY <2>1
<1> QED BY <1>3

\* ... and, if it is bounded, a largest one.
LEMMA LargestExists ==
    ASSUME NEW n \in Nat, NEW S, S \subseteq 0 .. n, S # {}
    PROVE  \E x \in S : \A y \in S : y <= x
<1> DEFINE T == {n - x : x \in S}
<1>1. T \subseteq Nat
  <2>1. ASSUME NEW x \in S PROVE n - x \in Nat
    BY x \in 0 .. n
  <2> QED BY <2>1
<1>2. T # {}
  OBVIOUS
<1>3. PICK z \in T : \A y \in T : z <= y
  <2> HIDE DEF T
  <2> QED BY <1>1, <1>2, SmallestExists
<1>4. PICK x \in S : z = n - x
  BY <1>3
<1>5. ASSUME NEW y \in S PROVE y <= x
  <2>1. n - x <= n - y
    BY <1>3, <1>4
  <2>2. x \in Int /\ y \in Int
    OBVIOUS
  <2> HIDE DEF T
  <2> QED BY ONLY n \in Nat, <2>1, <2>2
<1> QED BY <1>5

\* On half of the ring of sequence numbers, IsNewerSequenceNumber is an order.
LEMMA SeqOrder ==
    ASSUME NEW b \in SeqNum, NEW x \in SeqNum, NEW y \in SeqNum,
           Ahead(x, b, SeqMod) < SeqMod \div 2, Ahead(y, b, SeqMod) < SeqMod \div 2
    PROVE  /\ Ahead(x, b, SeqMod) \in 0 .. SeqMod
           /\ IsNewerSequenceNumber(x, y)
                 <=> Ahead(y, b, SeqMod) < Ahead(x, b, SeqMod)
           /\ Ahead(x, b, SeqMod) = Ahead(y, b, SeqMod) => x = y
           /\ Ahead(y, b, SeqMod) <= Ahead(x, b, SeqMod)
                 => Ahead(x, y, SeqMod)
                      = Ahead(x, b, SeqMod) - Ahead(y, b, SeqMod)
<1>1. /\ b \in 0 .. SeqMod - 1 /\ x \in 0 .. SeqMod - 1 /\ y \in 0 .. SeqMod - 1
      /\ SeqMod \in Nat /\ SeqMod > 1
  BY ModAssumption DEF SeqNum
<1>2. Ahead(x, b, SeqMod) = IF x >= b THEN x - b ELSE x - b + SeqMod
  BY <1>1, AheadValue
<1>3. Ahead(x, b, SeqMod) \in 0 .. SeqMod
  BY <1>1, <1>2
<1> QED BY <1>1, <1>3, RingOrder DEF IsNewerSequenceNumber

\* On half of the ring of timestamps, IsNewerTimestamp is an order.
LEMMA TimeOrder ==
    ASSUME NEW b \in Timestamp, NEW x \in Timestamp, NEW y \in Timestamp,
           Ahead(x, b, TsMod) < TsMod \div 2, Ahead(y, b, TsMod) < TsMod \div 2
    PROVE  /\ Ahead(x, b, TsMod) \in 0 .. TsMod
           /\ IsNewerTimestamp(x, y)
                 <=> Ahead(y, b, TsMod) < Ahead(x, b, TsMod)
           /\ Ahead(x, b, TsMod) = Ahead(y, b, TsMod) => x = y
<1>1. /\ b \in 0 .. TsMod - 1 /\ x \in 0 .. TsMod - 1 /\ y \in 0 .. TsMod - 1
      /\ TsMod \in Nat /\ TsMod > 1
  BY ModAssumption DEF Timestamp
<1>2. Ahead(x, b, TsMod) = IF x >= b THEN x - b ELSE x - b + TsMod
  BY <1>1, AheadValue
<1>3. Ahead(x, b, TsMod) \in 0 .. TsMod
  BY <1>1, <1>2
<1> QED BY <1>1, <1>3, RingOrder DEF IsNewerTimestamp

-----------------------------------------------------------------------------
(***************************************************************************)
(* What is presupposed of the stream.                                      *)
(***************************************************************************)
Media == {p \in Packets : p.type # "empty"}

PacketsOf(t) == {p \in Media : p.ts = t}

\* The sequence numbers of one frame span less than half of the ring.
ShortFrames ==
    \A t \in Timestamp : \E b \in SeqNum : \A p \in PacketsOf(t) :
        Ahead(p.seq, b, SeqMod) < SeqMod \div 2

\* The sender marks the lowest packet of a frame as first, and the highest with
\* the marker bit (the asserts in VCMSessionInfo::InsertPacket).
MarkedFrames ==
    \A t \in Timestamp : \A p, q \in PacketsOf(t) :
        /\ p.first => ~IsNewerSequenceNumber(p.seq, q.seq)
        /\ p.marker => ~IsNewerSequenceNumber(q.seq, p.seq)

\* Padding does not come with the timestamp of a frame.
PaddingApart ==
    \A p \in Packets : p.type = "empty" => PacketsOf(p.ts) = {}

\* The timestamps of the stream span less than half of their ring.
ShortTimes ==
    \E b \in Timestamp : \A p \in Packets :
        Ahead(p.ts, b, TsMod) < TsMod \div 2

-----------------------------------------------------------------------------
(***************************************************************************)
(* A frame that was assembled from packets of the stream with its          *)
(* timestamp, and the frames of a jitter buffer.                           *)
(***************************************************************************)
HasFirst(f, t) ==
    f.first # NoSeq =>
        \E p \in PacketsOf(t) : p.first /\ p.seq = f.first /\ p.seq \in f.pkts

HasLast(f, t) ==
    f.last # NoSeq =>
        \E p \in PacketsOf(t) : p.marker /\ p.seq = f.last /\ p.seq \in f.pkts

HasBack(f) ==
    f.pkts # {} => /\ f.back \in f.pkts
                   /\ \A s \in f.pkts : ~IsNewerSequenceNumber(s, f.back)

Assembled(t) ==
    {f \in Frame : /\ f.pkts \subseteq {p.seq : p \in PacketsOf(t)}
                   /\ HasFirst(f, t) /\ HasLast(f, t) /\ HasBack(f)
                   /\ f.state = "Complete" => SessionComplete(f)}

Times == {p.ts : p \in Packets}

StreamFrames == {tf \in Times \X Frame : tf[2] \in Assembled(tf[1])}

\* All frames of j, each with its timestamp, are in G.
FramesIn(j, G) ==
    /\ \A t \in DOMAIN j.decodable : <<t, j.decodable[t]>> \in G
    /\ \A t \in DOMAIN j.incomplete : <<t, j.incomplete[t]>> \in G

\* Newer sequence numbers of a frame are further from its base.
LEMMA FrameOrder ==
    ASSUME ShortFrames, NEW t \in Timestamp
    PROVE  \E b \in SeqNum : \A p, q \in PacketsOf(t) :
              /\ Ahead(p.seq, b, SeqMod) \in 0 .. SeqMod
              /\ Ahead(p.seq, b, SeqMod) < SeqMod \div 2
              /\ IsNewerSequenceNumber(p.seq, q.seq)
                    <=> Ahead(q.seq, b, SeqMod) < Ahead(p.seq, b, SeqMod)
              /\ Ahead(p.seq, b, SeqMod) = Ahead(q.seq, b, SeqMod)
                    => p.seq = q.seq
<1>1. PICK b \in SeqNum : \A p \in PacketsOf(t) :
         Ahead(p.seq, b, SeqMod) < SeqMod \div 2
  BY DEF ShortFrames
<1>2. ASSUME NEW p \in PacketsOf(t), NEW q \in PacketsOf(t)
      PROVE  /\ Ahead(p.seq, b, SeqMod) \in 0 .. SeqMod
             /\ IsNewerSequenceNumber(p.seq, q.seq)
                  <=> Ahead(q.seq, b, SeqMod) < Ahead(p.seq, b, SeqMod)
             /\ Ahead(p.seq, b, SeqMod) = Ahead(q.seq, b, SeqMod)
                  => p.seq = q.seq
  <2>1. p.seq \in SeqNum /\ q.seq \in SeqNum
    BY VideoReceiverAssumption DEF PacketsOf, Media, Packet
  <2>2. /\ Ahead(p.seq, b, SeqMod) < SeqMod \div 2
        /\ Ahead(q.seq, b, SeqMod) < SeqMod \div 2
    BY <1>1
  <2> QED BY <2>1, <2>2, SeqOrder
<1> QED BY <1>1, <1>2

\* The number after s is one further.
LEMMA NextIsFurther ==
    ASSUME NEW m \in Nat, m > 1, NEW b \in 0 .. m - 1, NEW s \in 0 .. m - 1,
           NEW u \in 0 .. m - 1, u = (s + 1) % m,
           Ahead(u, b, m) < m \div 2, Ahead(s, b, m) < m \div 2
    PROVE  Ahead(u, b, m) = Ahead(s, b, m) + 1
<1> DEFINE h == m \div 2
<1>1. h \in Nat /\ 2 * h <= m
  OBVIOUS
<1>2. /\ Ahead(s, b, m) = IF s >= b THEN s - b ELSE s - b + m
      /\ Ahead(u, b, m) = IF u >= b THEN u - b ELSE u - b + m
  BY AheadValue
<1>3. u = IF s = m - 1 THEN 0 ELSE s + 1
  <2>1. CASE s = m - 1
    BY <2>1, m % m = 0
  <2>2. CASE s # m - 1
    BY <2>2, s + 1 \in 0 .. m - 1
  <2> QED BY <2>1, <2>2
<1>4. Ahead(u, b, m) < h /\ Ahead(s, b, m) < h
  OBVIOUS
<1> HIDE DEF h
<1> QED BY <1>1, <1>2, <1>3, <1>4

\* A session that is complete_ has every packet of its frame.
LEMMA WholeFrame ==
    ASSUME ShortFrames, MarkedFrames, NEW t \in Timestamp,
           NEW f \in Assembled(t), SessionComplete(f)
    PROVE  \A p \in PacketsOf(t) : p.seq \in f.pkts
<1> SUFFICES ASSUME NEW x \in PacketsOf(t), x.seq \notin f.pkts PROVE FALSE
  OBVIOUS
<1>1. PICK b \in SeqNum : \A p, q \in PacketsOf(t) :
         /\ Ahead(p.seq, b, SeqMod) \in 0 .. SeqMod
         /\ Ahead(p.seq, b, SeqMod) < SeqMod \div 2
         /\ IsNewerSequenceNumber(p.seq, q.seq)
               <=> Ahead(q.seq, b, SeqMod) < Ahead(p.seq, b, SeqMod)
         /\ Ahead(p.seq, b, SeqMod) = Ahead(q.seq, b, SeqMod) => p.seq = q.seq
  BY FrameOrder
<1> DEFINE Pos(s) == Ahead(s, b, SeqMod)
           Below == {s \in f.pkts : Pos(s) < Pos(x.seq)}
           P == {Pos(s) : s \in Below}
<1>2. /\ f.pkts \subseteq {p.seq : p \in PacketsOf(t)}
      /\ HasFirst(f, t) /\ HasLast(f, t) /\ HasBack(f) /\ f.pkts # {}
      /\ f.first # NoSeq /\ f.last # NoSeq
      /\ \A s \in f.pkts : s = f.back \/ SeqInc(s) \in f.pkts
  BY DEF Assembled, SessionComplete, HaveFirstPacket, HaveLastPacket
<1>3. \A s \in f.pkts : Pos(s) \in 0 .. SeqMod /\ Pos(s) # Pos(x.seq)
  BY <1>1, <1>2
<1>4. f.first \in Below
  <2>1. PICK p \in PacketsOf(t) : p.first /\ p.seq = f.first /\ p.seq \in f.pkts
    BY <1>2 DEF HasFirst
  <2>2. ~IsNewerSequenceNumber(p.seq, x.seq)
    BY <2>1 DEF MarkedFrames
  <2>3. /\ Pos(p.seq) \in Int /\ Pos(x.seq) \in Int /\ ~(Pos(x.seq) < Pos(p.seq))
        /\ Pos(p.seq) # Pos(x.seq)
    BY <1>1, <1>3, <2>1, <2>2
  <2> HIDE DEF Pos
  <2> QED BY <2>1, <2>3
<1>5. f.back \in f.pkts /\ ~(f.back \in Below)
  <2>1. PICK p \in PacketsOf(t) : p.marker /\ p.seq = f.last /\ p.seq \in f.pkts
    BY <1>2 DEF HasLast
  <2>2. ~IsNewerSequenceNumber(x.seq, p.seq)
    BY <2>1 DEF MarkedFrames
  <2>3. f.back \in f.pkts /\ ~IsNewerSequenceNumber(p.seq, f.back)
    BY <1>2, <2>1 DEF HasBack
  <2>4. PICK q \in PacketsOf(t) : q.seq = f.back
    BY <1>2, <2>3
  <2>5. /\ Pos(p.seq) \in Int /\ Pos(x.seq) \in Int /\ Pos(f.back) \in Int
        /\ ~(Pos(p.seq) < Pos(x.seq)) /\ ~(Pos(f.back) < Pos(p.seq))
    BY <1>1, <2>1, <2>2, <2>3, <2>4
  <2> HIDE DEF Pos
  <2> QED BY <2>3, <2>5
<1>6. PICK m \in P : \A n \in P : n <= m
  <2>1. P # {} /\ P \subseteq 0 .. SeqMod
    BY <1>3, <1>4
  <2> HIDE DEF P
  <2> QED BY <2>1, LargestExists, ModAssumption
<1>7. PICK s \in Below : m = Pos(s)
  BY <1>6
<1>8. SeqInc(s) \in f.pkts /\ s \in f.pkts
  BY <1>2, <1>5, <1>7
<1>9. Pos(SeqInc(s)) = Pos(s) + 1
  <2>1. PICK p \in PacketsOf(t) : p.seq = s
    BY <1>2, <1>8
  <2>2. PICK q \in PacketsOf(t) : q.seq = SeqInc(s)
    BY <1>2, <1>8
  <2>3. s \in 0 .. SeqMod - 1 /\ SeqInc(s) \in 0 .. SeqMod - 1
        /\ b \in 0 .. SeqMod - 1
    BY <2>1, <2>2, VideoReceiverAssumption DEF PacketsOf, Media, Packet, SeqNum
  <2>4. Pos(s) < SeqMod \div 2 /\ Pos(SeqInc(s)) < SeqMod \div 2
    BY <1>1, <2>1, <2>2
  <2> QED BY <2>3, <2>4, NextIsFurther, ModAssumption DEF SeqInc
<1>10. SeqInc(s) \in Below
  <2>1. Pos(SeqInc(s)) # Pos(x.seq) /\ Pos(s) \in Int /\ Pos(s) < Pos(x.seq)
    BY <1>3, <1>7, <1>8
  <2>2. Pos(x.seq) \in Int
    BY <1>1
  <2> HIDE DEF Pos
  <2> QED BY <1>8, <1>9, <2>1, <2>2
<1>11. Pos(s) \in Int
  BY <1>3, <1>8
<1> HIDE DEF Pos
<1> QED BY <1>6, <1>7, <1>9, <1>10, <1>11

-----------------------------------------------------------------------------
(***************************************************************************)
(* Inserting a packet of the stream keeps a frame assembled.               *)
(***************************************************************************)
LEMMA EmptyAssembled ==
    ASSUME NEW t
    PROVE  EmptyFrame \in Assembled(t)
  BY EmptyFrameType DEF EmptyFrame, Assembled, HasFirst, HasLast, HasBack

\* A packet without payload changes no field that Assembled looks at.
LEMMA EmptyPacketAssembled ==
    ASSUME NEW t, NEW f \in Assembled(t), NEW s \in SeqNum
    PROVE  LET g == InformOfEmptyPacket(f, s)
           IN  /\ g \in Assembled(t) /\ g.state = f.state /\ g.pkts = f.pkts
               /\ SessionComplete(g) <=> SessionComplete(f)
<1> DEFINE g == InformOfEmptyPacket(f, s)
<1>1. f \in Frame
  BY DEF Assembled
<1>2. g \in Frame
  BY <1>1, InformOfEmptyPacketType DEF FilledFrame
<1>3. /\ g.state = f.state /\ g.pkts = f.pkts /\ g.back = f.back
      /\ g.first = f.first /\ g.last = f.last
  BY <1>1 DEF InformOfEmptyPacket, Frame
<1> HIDE DEF g
<1>4. SessionComplete(g) <=> SessionComplete(f)
  BY <1>3 DEF SessionComplete, HaveFirstPacket, HaveLastPacket
<1>5. g \in Assembled(t)
  BY <1>2, <1>3, <1>4 DEF Assembled, HasFirst, HasLast, HasBack
<1>6. /\ g \in Assembled(t) /\ g.state = f.state /\ g.pkts = f.pkts
      /\ SessionComplete(g) <=> SessionComplete(f)
  BY <1>3, <1>4, <1>5
<1> QED BY <1>6 DEF g

\* A new media packet of the frame; the state is still to be settled.
LEMMA MediaPacketAssembled ==
    ASSUME ShortFrames, NEW t \in Timestamp, NEW f \in Assembled(t),
           NEW p \in PacketsOf(t), f.state # "Complete"
    PROVE  InsertMediaPacket(f, p) \in Assembled(t)
<1> DEFINE g == InsertMediaPacket(f, p)
<1>1. f \in Frame /\ p \in Packet /\ p.type # "empty"
  BY VideoReceiverAssumption DEF Assembled, PacketsOf, Media
<1>2. g \in Frame
  BY <1>1, InsertMediaPacketType DEF FilledFrame
<1>3. /\ g.state = f.state /\ g.pkts = f.pkts \cup {p.seq}
      /\ g.back = IF f.pkts = {} THEN p.seq ELSE LatestSequenceNumber(p.seq, f.back)
      /\ g.first = f.first \/ (p.first /\ g.first = p.seq)
      /\ g.last = f.last \/ (p.marker /\ g.last = p.seq)
  BY <1>1 DEF InsertMediaPacket, Frame
<1> HIDE DEF g
<1>4. f.pkts \subseteq {q.seq : q \in PacketsOf(t)}
      /\ HasFirst(f, t) /\ HasLast(f, t) /\ HasBack(f)
  BY DEF Assembled
<1>5. HasFirst(g, t)
  BY <1>3, <1>4 DEF HasFirst
<1>6. HasLast(g, t)
  BY <1>3, <1>4 DEF HasLast
<1>7. HasBack(g)
  <2>1. PICK b \in SeqNum : \A q, r \in PacketsOf(t) :
           /\ Ahead(q.seq, b, SeqMod) \in 0 .. SeqMod
           /\ Ahead(q.seq, b, SeqMod) < SeqMod \div 2
           /\ IsNewerSequenceNumber(q.seq, r.seq)
                 <=> Ahead(r.seq, b, SeqMod) < Ahead(q.seq, b, SeqMod)
           /\ Ahead(q.seq, b, SeqMod) = Ahead(r.seq, b, SeqMod) => q.seq = r.seq
    BY FrameOrder
  <2> DEFINE Pos(s) == Ahead(s, b, SeqMod)
  <2>2. \A s, u \in g.pkts : /\ Pos(s) \in Int
                             /\ IsNewerSequenceNumber(s, u) <=> Pos(u) < Pos(s)
    BY <1>3, <1>4, <2>1
  <2> HIDE DEF Pos
  <2>3. CASE f.pkts = {}
    BY <1>3, <2>2, <2>3 DEF HasBack
  <2>4. CASE f.pkts # {}
    <3>1. f.back \in f.pkts /\ \A s \in f.pkts : ~IsNewerSequenceNumber(s, f.back)
      BY <1>4, <2>4 DEF HasBack
    <3>2. CASE IsNewerSequenceNumber(p.seq, f.back)
      <4>1. g.back = p.seq
        BY <1>3, <2>4, <3>2 DEF LatestSequenceNumber
      <4> QED BY <1>3, <2>2, <3>1, <3>2, <4>1 DEF HasBack
    <3>3. CASE ~IsNewerSequenceNumber(p.seq, f.back)
      <4>1. g.back = f.back
        BY <1>3, <2>4, <3>3 DEF LatestSequenceNumber
      <4> QED BY <1>3, <2>2, <3>1, <3>3, <4>1 DEF HasBack
    <3> QED BY <3>2, <3>3
  <2> QED BY <2>3, <2>4
<1>8. g \in Assembled(t)
  BY <1>2, <1>3, <1>4, <1>5, <1>6, <1>7 DEF Assembled
<1> QED BY <1>8 DEF g

\* A frame whose state alone changes.
LEMMA StateAssembled ==
    ASSUME NEW t, NEW f \in Assembled(t), NEW st \in FrameState,
           st = "Complete" => SessionComplete(f)
    PROVE  [f EXCEPT !.state = st] \in Assembled(t)
<1> DEFINE g == [f EXCEPT !.state = st]
<1>1. f \in Frame
  BY DEF Assembled
<1>2. /\ g \in Frame /\ g.state = st /\ g.pkts = f.pkts /\ g.back = f.back
      /\ g.first = f.first /\ g.last = f.last
  BY <1>1 DEF Frame
<1> HIDE DEF g
<1>3. SessionComplete(g) <=> SessionComplete(f)
  BY <1>2 DEF SessionComplete, HaveFirstPacket, HaveLastPacket
<1>4. g \in Assembled(t)
  BY <1>2, <1>3 DEF Assembled, HasFirst, HasLast, HasBack
<1> QED BY <1>4 DEF g

\* VCMFrameBuffer::InsertPacket for a packet of the stream.  A frame that is
\* complete has no packet to come: the packet is a duplicate, padding, or one
\* too many.
LEMMA InsertAssembled ==
    ASSUME ShortFrames, MarkedFrames, NEW p \in Packets, NEW f \in Assembled(p.ts)
    PROVE  LET r == FrameInsertPacket(f, p)
           IN  /\ r.frame \in Assembled(p.ts)
               /\ f.state = "Complete" /\ r.ret = "kCompleteSession"
                     => p.type = "empty"
               /\ f.state = "Complete" => r.frame.pkts = f.pkts
               /\ r.frame.state = "Complete" =>
                     r.ret = "kCompleteSession" \/ f.state = "Complete"
<1> DEFINE r == FrameInsertPacket(f, p)
           f0 == [f EXCEPT !.state = IF @ = "Empty" /\ p.type # "empty"
                                     THEN "Incomplete" ELSE @]
           f1 == IF p.type = "empty" THEN InformOfEmptyPacket(f0, p.seq)
                                     ELSE InsertMediaPacket(f0, p)
           G == /\ r.frame \in Assembled(p.ts)
                /\ f.state = "Complete" /\ r.ret = "kCompleteSession"
                      => p.type = "empty"
                /\ f.state = "Complete" => r.frame.pkts = f.pkts
                /\ r.frame.state = "Complete" =>
                      r.ret = "kCompleteSession" \/ f.state = "Complete"
<1>1. /\ p \in Packet /\ p.seq \in SeqNum /\ p.ts \in Timestamp
      /\ p.type # "empty" => p \in PacketsOf(p.ts)
  BY VideoReceiverAssumption DEF Packet, PacketsOf, Media
<1>2. f \in Frame /\ f.state \in FrameState
  BY DEF Assembled, Frame
<1>3. /\ f0.state = (IF f.state = "Empty" /\ p.type # "empty"
                     THEN "Incomplete" ELSE f.state)
      /\ f0.pkts = f.pkts /\ f0 \in Assembled(p.ts)
  <2>1. f.state = "Complete" => SessionComplete(f)
    BY DEF Assembled
  <2>2. (IF f.state = "Empty" /\ p.type # "empty" THEN "Incomplete" ELSE f.state)
            \in FrameState
    BY <1>2 DEF FrameState
  <2>3. f0 \in Assembled(p.ts)
    BY <2>1, <2>2, StateAssembled
  <2> QED BY <1>2, <2>3 DEF Frame
<1>5. CASE p.type # "empty" /\ (Cardinality(f.pkts) = kMaxPacketsInSession
                                 \/ p.seq \in f.pkts)
  <2>1. r.frame = f0 /\ r.ret \in {"kSizeError", "kDuplicatePacket"}
    BY <1>5 DEF FrameInsertPacket
  <2> HIDE DEF r, f0
  <2> QED BY <1>3, <2>1 DEF r
<1>6. CASE ~(p.type # "empty" /\ (Cardinality(f.pkts) = kMaxPacketsInSession
                                 \/ p.seq \in f.pkts))
  <2>1. r = IF SessionComplete(f1)
            THEN [frame |-> [f1 EXCEPT !.state = "Complete"],
                  ret |-> "kCompleteSession"]
            ELSE IF SessionDecodable(f1)
            THEN [frame |-> [f1 EXCEPT !.state = "Decodable"],
                  ret |-> "kDecodableSession"]
            ELSE [frame |-> f1, ret |-> "kIncomplete"]
    BY <1>6 DEF FrameInsertPacket
  <2> HIDE DEF r, f0
  <2>2. /\ f1 \in Assembled(p.ts)
        /\ f.state = "Complete" => /\ p.type = "empty" /\ f1.pkts = f.pkts
                                   /\ SessionComplete(f1)
        /\ f1.state = "Complete" => f.state = "Complete"
    <3>1. CASE p.type = "empty"
      <4>1. f1 = InformOfEmptyPacket(f0, p.seq)
        BY <3>1
      <4>2. /\ f1 \in Assembled(p.ts) /\ f1.state = f0.state /\ f1.pkts = f0.pkts
            /\ SessionComplete(f1) <=> SessionComplete(f0)
        <5> HIDE DEF f1
        <5> QED BY <1>1, <1>3, <4>1, EmptyPacketAssembled
      <4>3. f0.state = "Complete" => SessionComplete(f0)
        BY <1>3 DEF Assembled
      <4> HIDE DEF f1
      <4> QED BY <1>3, <3>1, <4>2, <4>3
    <3>2. CASE p.type # "empty"
      <4>1. f1 = InsertMediaPacket(f0, p) /\ p \in PacketsOf(p.ts)
        BY <1>1, <3>2
      <4>2. f0.state # "Complete"
        <5>1. SUFFICES ASSUME f0.state = "Complete" PROVE FALSE
          OBVIOUS
        <5>2. SessionComplete(f0)
          BY <1>3, <5>1 DEF Assembled
        <5>3. p.seq \in f0.pkts
          BY <1>1, <1>3, <4>1, <5>2, WholeFrame
        <5> QED BY <1>3, <1>6, <3>2, <5>3
      <4>3. f1 \in Assembled(p.ts)
        BY <1>1, <1>3, <4>1, <4>2, MediaPacketAssembled
      <4>4. f1.state = f0.state
        BY <1>3, <4>1 DEF InsertMediaPacket, Assembled, Frame
      <4> HIDE DEF f1
      <4> QED BY <1>3, <3>2, <4>2, <4>3, <4>4
    <3> QED BY <3>1, <3>2
  <2> HIDE DEF f1
  <2>3. CASE SessionComplete(f1)
    <3> DEFINE c == [f1 EXCEPT !.state = "Complete"]
    <3>1. r.frame = c /\ r.ret = "kCompleteSession"
      BY <2>1, <2>3
    <3>2. c \in Assembled(p.ts)
      BY <2>2, <2>3, StateAssembled DEF FrameState
    <3>3. c.pkts = f1.pkts
      BY <2>2 DEF Assembled, Frame
    <3> HIDE DEF c
    <3> QED BY <2>2, <3>1, <3>2, <3>3 DEF r
  <2>4. CASE ~SessionComplete(f1) /\ SessionDecodable(f1)
    <3> DEFINE c == [f1 EXCEPT !.state = "Decodable"]
    <3>1. r.frame = c /\ r.ret = "kDecodableSession"
      BY <2>1, <2>4
    <3>2. c \in Assembled(p.ts)
      BY <2>2, StateAssembled DEF FrameState
    <3>3. f.state # "Complete"
      BY <2>2, <2>4
    <3>4. c.state = "Decodable"
      BY <2>2 DEF Assembled, Frame
    <3> HIDE DEF c
    <3> QED BY <3>1, <3>2, <3>3, <3>4 DEF r
  <2>5. CASE ~SessionComplete(f1) /\ ~SessionDecodable(f1)
    <3>1. r.frame = f1 /\ r.ret = "kIncomplete"
      BY <2>1, <2>5
    <3>2. f.state # "Complete"
      BY <2>2, <2>5
    <3> QED BY <2>2, <3>1, <3>2 DEF r
  <2> QED BY <2>3, <2>4, <2>5
<1> QED BY <1>5, <1>6

-----------------------------------------------------------------------------
(***************************************************************************)
(* What the operations of the jitter buffer do to the frames, the decoding *)
(* state and the NACK list, one lemma per operation.                       *)
(***************************************************************************)
SameFlags(j, k) ==
    k.fresh = j.fresh /\ k.running = j.running /\ k.event = j.event

\* Frames and missing packets may only go, and the decoding state be reset.
Reduced(j, k) ==
    /\ Sublist(k.incomplete, j.incomplete)
    /\ Sublist(k.decodable, j.decodable)
    /\ k.missing \subseteq j.missing
    /\ k.latest = j.latest
    /\ k.last \in {j.last, InitialDecodingState}
    /\ SameFlags(j, k)

\* Nothing gone is a reduction ...
LEMMA ReducedReflexive ==
    ASSUME NEW j \in JB
    PROVE  Reduced(j, j)
  BY CountType, SublistFacts DEF Reduced, SameFlags

\* ... and reductions compose.
LEMMA ReducedTransitive ==
    ASSUME NEW j, NEW k, NEW l, Reduced(j, k), Reduced(k, l)
    PROVE  Reduced(j, l)
  BY DEF Reduced, Sublist, SameFlags

\* Only the counters differ.
LEMMA ReducedSame ==
    ASSUME NEW j, NEW k, NEW l, Reduced(j, k),
           l.incomplete = k.incomplete, l.decodable = k.decodable,
           l.missing = k.missing, l.latest = k.latest, l.last = k.last,
           SameFlags(k, l)
    PROVE  Reduced(j, l)
  BY DEF Reduced, SameFlags

\* Recycling frames is a reduction.
LEMMA RecycledReduced ==
    ASSUME NEW j \in JB, NEW k, IsRecycled(j, k)
    PROVE  Reduced(j, k)
<1>1. PICK i \in FrameList, d \in FrameList, M \in SUBSET j.missing,
           st \in DecodingState :
         /\ Sublist(i, j.incomplete) /\ Sublist(d, j.decodable)
         /\ st \in {j.last, InitialDecodingState}
         /\ k = Recycled(j, i, d, M, st)
  BY DEF IsRecycled
<1>2. /\ k.incomplete = i /\ k.decodable = d /\ k.missing = M /\ k.last = st
      /\ k.latest = j.latest /\ k.fresh = j.fresh /\ k.running = j.running
      /\ k.event = j.event
  BY <1>1 DEF Recycled, JB
<1> QED BY <1>1, <1>2 DEF Reduced, SameFlags

\* The frames that are left are frames that were there.
LEMMA ReducedFrames ==
    ASSUME NEW j, NEW k, NEW G, FramesIn(j, G),
           Sublist(k.incomplete, j.incomplete), Sublist(k.decodable, j.decodable)
    PROVE  FramesIn(k, G)
  BY DEF FramesIn, Sublist

\* GetNackList.
LEMMA GetNackListReduces ==
    ASSUME NEW j \in JB
    PROVE  Reduced(j, GetNackList(j).jb)
<1> DEFINE recycled == IF j.last.initial /\ ~FirstFrameIsKey(j)
                       THEN RecycleFramesUntilKeyFrame(j)
                       ELSE [jb |-> j, key |-> TRUE]
           sized == IF SmallEnough(recycled.jb.missing)
                    THEN [jb |-> recycled.jb, key |-> TRUE]
                    ELSE HandleTooLargeNackList(recycled.jb)
           keys == LastIncompleteKey(sized.jb)
           key == CHOOSE t \in keys : TRUE
           skipped == [sized.jb EXCEPT
                         !.last = InitialDecodingState,
                         !.missing = DropPackets(@,
                           EstimatedLowSequenceNumber(sized.jb.incomplete[key]))]
           r == GetNackList(j)
<1>1. r.jb \in {j, recycled.jb, sized.jb, skipped}
  BY DEF GetNackList, AnswerNackList, NackAnswer
<1>2. recycled.jb \in JB /\ Reduced(j, recycled.jb)
  <2>1. recycled.jb = j \/ recycled.jb = RecycleFramesUntilKeyFrame(j).jb
    OBVIOUS
  <2>2. IsRecycled(j, RecycleFramesUntilKeyFrame(j).jb)
    BY RecycleRecycles
  <2>3. RecycleFramesUntilKeyFrame(j).jb \in JB
    BY <2>2, RecycledType
  <2> QED BY <2>1, <2>2, <2>3, RecycledReduced, ReducedReflexive
<1> HIDE DEF recycled
<1>3. sized.jb \in JB /\ Reduced(recycled.jb, sized.jb)
  <2>1. \/ sized.jb = recycled.jb
        \/ sized.jb = HandleTooLargeNackList(recycled.jb).jb
    OBVIOUS
  <2>2. IsRecycled(recycled.jb, HandleTooLargeNackList(recycled.jb).jb)
    BY <1>2, TooLargeRecycles
  <2>3. HandleTooLargeNackList(recycled.jb).jb \in JB
    BY <1>2, <2>2, RecycledType
  <2> QED BY <1>2, <2>1, <2>2, <2>3, RecycledReduced, ReducedReflexive
<1> HIDE DEF sized
<1>4. Reduced(j, sized.jb)
  BY <1>2, <1>3, ReducedTransitive
<1>5. Reduced(sized.jb, skipped)
  <2> DEFINE low == EstimatedLowSequenceNumber(sized.jb.incomplete[key])
             M == DropPackets(sized.jb.missing, low)
  <2>1. M \subseteq sized.jb.missing
    BY DEF DropPackets
  <2>2. skipped = [sized.jb EXCEPT !.last = InitialDecodingState, !.missing = M]
    BY <1>3 DEF JB
  <2> HIDE DEF M, key, keys, skipped
  <2>3. /\ skipped.last = InitialDecodingState /\ skipped.missing = M
        /\ skipped.incomplete = sized.jb.incomplete
        /\ skipped.decodable = sized.jb.decodable
        /\ skipped.latest = sized.jb.latest /\ SameFlags(sized.jb, skipped)
    BY <1>3, <2>2 DEF JB, SameFlags
  <2>4. Sublist(sized.jb.incomplete, sized.jb.incomplete)
        /\ Sublist(sized.jb.decodable, sized.jb.decodable)
    BY <1>3, CountType, SublistFacts
  <2> QED BY <2>1, <2>3, <2>4 DEF Reduced
<1> HIDE DEF skipped, r
<1>6. Reduced(j, skipped)
  BY <1>4, <1>5, ReducedTransitive
<1> QED BY <1>1, <1>2, <1>4, <1>6, ReducedReflexive DEF r

\* Where GetFrame has found the frame for a packet.
FoundIn(j, ts, from, f) ==
    \/ from = "none" /\ f = EmptyFrame
    \/ from = "incomplete" /\ ts \in DOMAIN j.incomplete /\ f = j.incomplete[ts]
    \/ from = "decodable" /\ ts \in DOMAIN j.decodable /\ f = j.decodable[ts]

\* GetEmptyFrame takes a frame from the pool only.
LEMMA GetEmptyFrameReduces ==
    ASSUME NEW j \in JB
    PROVE  Reduced(j, GetEmptyFrame(j))
<1>1. LET k == GetEmptyFrame(j)
      IN  /\ k.incomplete = j.incomplete /\ k.decodable = j.decodable
          /\ k.missing = j.missing /\ k.latest = j.latest /\ k.last = j.last
          /\ SameFlags(j, k)
  BY DEF GetEmptyFrame, JB, SameFlags
<1> QED BY <1>1, ReducedReflexive, ReducedSame

\* GetFrame: frames may be recycled, and the one found is taken off its list.
LEMMA GetFrameReduces ==
    ASSUME NEW j \in JB, NEW ts
    PROVE  LET g == GetFrame(j, ts)
           IN  Reduced(j, g.jb) /\ FoundIn(j, ts, g.from, g.frame)
<1> DEFINE g == GetFrame(j, ts)
           k == RecycleFramesUntilKeyFrame(j)
           inc == [j EXCEPT !.incomplete = Remove(@, {ts})]
           dcd == [j EXCEPT !.decodable = Remove(@, {ts})]
<1>1. \/ /\ g.jb = inc /\ g.frame = j.incomplete[ts] /\ g.from = "incomplete"
         /\ ts \in DOMAIN j.incomplete
      \/ /\ g.jb = dcd /\ g.frame = j.decodable[ts] /\ g.from = "decodable"
         /\ ts \in DOMAIN j.decodable
      \/ /\ g.jb \in {GetEmptyFrame(j), k.jb, GetEmptyFrame(k.jb)}
         /\ g.frame = EmptyFrame /\ g.from = "none"
  BY DEF GetFrame, FindRecycled, Found
<1>2. FoundIn(j, ts, g.from, g.frame)
  BY <1>1 DEF FoundIn
<1>3. j.incomplete \in FrameList /\ j.decodable \in FrameList
  BY CountType
<1>4. Reduced(j, inc)
  <2>1. /\ inc.incomplete = Remove(j.incomplete, {ts})
        /\ inc.decodable = j.decodable /\ inc.missing = j.missing
        /\ inc.latest = j.latest /\ inc.last = j.last /\ SameFlags(j, inc)
    BY DEF JB, SameFlags
  <2> HIDE DEF inc
  <2> QED BY <1>3, <2>1, SublistFacts DEF Reduced
<1>5. Reduced(j, dcd)
  <2>1. /\ dcd.decodable = Remove(j.decodable, {ts})
        /\ dcd.incomplete = j.incomplete /\ dcd.missing = j.missing
        /\ dcd.latest = j.latest /\ dcd.last = j.last /\ SameFlags(j, dcd)
    BY DEF JB, SameFlags
  <2> HIDE DEF dcd
  <2> QED BY <1>3, <2>1, SublistFacts DEF Reduced
<1>6. k.jb \in JB /\ Reduced(j, k.jb)
  <2>1. IsRecycled(j, k.jb)
    BY RecycleRecycles
  <2> HIDE DEF k
  <2> QED BY <2>1, RecycledType, RecycledReduced
<1> HIDE DEF g, k, inc, dcd
<1>7. Reduced(j, GetEmptyFrame(j)) /\ Reduced(k.jb, GetEmptyFrame(k.jb))
  BY <1>6, GetEmptyFrameReduces
<1>8. Reduced(j, g.jb)
  BY <1>1, <1>4, <1>5, <1>6, <1>7, ReducedTransitive
<1> QED BY <1>2, <1>8 DEF g


\* FindAndInsertContinuousFrames moves a set of frames.
Moved(j, k, S) ==
    /\ k.decodable = [t \in DOMAIN j.decodable \cup S |->
                        IF t \in DOMAIN j.decodable THEN j.decodable[t]
                        ELSE j.incomplete[t]]
    /\ k.incomplete = Remove(j.incomplete, S)
    /\ k.missing = j.missing /\ k.latest = j.latest /\ k.last = j.last
    /\ SameFlags(j, k)

\* FindAndInsertContinuousFrames moves frames to decodable_frames_.
LEMMA FindAndInsertMoves ==
    ASSUME NEW j \in JB, NEW f, NEW ts
    PROVE  /\ FindAndInsertContinuousFrames(j, f, ts) \in JB
           /\ \E S \in SUBSET DOMAIN j.incomplete :
                 Moved(j, FindAndInsertContinuousFrames(j, f, ts), S)
<1> DEFINE inc == j.incomplete
           ahead == {t \in DOMAIN inc : ~IsNewerTimestamp(ts, t)}
           Before(S, t) == {u \in S : IsNewerTimestamp(t, u)}
           Continues(S, t) ==
               IF Before(S, t) = {}
               THEN IsContinuousInState(inc[t], SetState(f, ts))
               ELSE \E u \in Before(S, t) :
                       /\ \A v \in Before(S, t) : ~IsNewerTimestamp(v, u)
                       /\ IsContinuousInState(inc[t], SetState(inc[u], u))
           IsWalk(S) == \A t \in ahead : t \in S <=> Continues(S, t)
           moved == UNION {S \in SUBSET ahead : IsWalk(S)}
           D == [t \in DOMAIN j.decodable \cup moved |->
                   IF t \in DOMAIN j.decodable THEN j.decodable[t] ELSE inc[t]]
           I == Remove(inc, moved)
           k == FindAndInsertContinuousFrames(j, f, ts)
<1>1. k = [j EXCEPT !.decodable = D, !.incomplete = I]
  BY DEF FindAndInsertContinuousFrames, JB
<1>2. moved \in SUBSET DOMAIN inc
  OBVIOUS
<1> HIDE DEF moved
<1>5. D \in FrameList /\ I \in FrameList
  <2>1. /\ j.decodable \in FrameList /\ inc \in FrameList
        /\ DOMAIN j.decodable \subseteq Timestamp /\ DOMAIN inc \subseteq Timestamp
        /\ \A t \in DOMAIN j.decodable : j.decodable[t] \in FilledFrame
        /\ \A t \in DOMAIN inc : inc[t] \in FilledFrame
    BY CountType, FrameListTypes
  <2>2. D \in [DOMAIN j.decodable \cup moved -> FilledFrame]
    BY <1>2, <2>1
  <2>3. DOMAIN j.decodable \cup moved \in SUBSET Timestamp
    BY <1>2, <2>1
  <2>4. D \in FrameList
    <3> HIDE DEF D
    <3> QED BY <2>2, <2>3 DEF FrameList
  <2> QED BY <2>1, <2>4, RemoveType
<1> HIDE DEF k, D, I
<1>3. /\ k \in JB
      /\ k.decodable = D /\ k.incomplete = I /\ k.missing = j.missing
      /\ k.latest = j.latest /\ k.last = j.last /\ k.fresh = j.fresh
      /\ k.running = j.running /\ k.event = j.event
  BY <1>1, <1>5 DEF JB
<1>4. Moved(j, k, moved)
  BY <1>3 DEF Moved, SameFlags, D, I
<1> QED BY <1>2, <1>3, <1>4 DEF k

\* Moving frames makes no new ones.
LEMMA MovedFrames ==
    ASSUME NEW j \in JB, NEW k, NEW S \in SUBSET DOMAIN j.incomplete,
           Moved(j, k, S), NEW G, FramesIn(j, G)
    PROVE  FramesIn(k, G)
<1>1. /\ DOMAIN k.incomplete = DOMAIN j.incomplete \ S
      /\ \A t \in DOMAIN k.incomplete : k.incomplete[t] = j.incomplete[t]
  <2>1. j.incomplete \in FrameList /\ k.incomplete = Remove(j.incomplete, S)
    BY CountType DEF Moved
  <2> DEFINE I == Remove(j.incomplete, S)
  <2>2. /\ DOMAIN I = DOMAIN j.incomplete \ S
        /\ \A t \in DOMAIN j.incomplete \ S : I[t] = j.incomplete[t]
    BY <2>1, RemoveType
  <2> HIDE DEF I
  <2> QED BY <2>1, <2>2 DEF I
<1>2. /\ DOMAIN k.decodable = DOMAIN j.decodable \cup S
      /\ \A t \in DOMAIN j.decodable \cup S : k.decodable[t] =
            IF t \in DOMAIN j.decodable THEN j.decodable[t] ELSE j.incomplete[t]
  BY DEF Moved
<1> QED BY <1>1, <1>2 DEF FramesIn

\* PlaceFrame leaves the NACK list alone and puts the frame f of a packet back
\* into a list or the pool; in the latter case the frame may have been skipped.
Placed(j, k, ts, f) ==
    /\ k.missing = j.missing /\ k.latest = j.latest /\ k.fresh = j.fresh
    /\ k.running = j.running
    /\ j.event => k.event
    /\ \/ k.last = j.last
       \/ /\ f.state = "Empty" /\ CanSkipEmptyFrame(j.last, f)
          /\ f \in FilledFrame /\ k.last = SkipEmptyFrame(j.last, f, ts)
          /\ k.decodable = j.decodable /\ k.incomplete = j.incomplete

\* Wherever the frame of the packet goes, the others stay what they were.
LEMMA PlaceFrameResult ==
    ASSUME NEW j \in JB, NEW p \in Packet, NEW f \in Frame,
           p.ts \notin DOMAIN j.decodable, p.ts \notin DOMAIN j.incomplete,
           NEW from \in {"incomplete", "decodable", "none"}, NEW prev,
           NEW ret \in {"kSizeError", "kDuplicatePacket", "kCompleteSession",
                        "kDecodableSession", "kIncomplete", "kFlushIndicator"},
           ret \notin {"kSizeError", "kFlushIndicator"} => f \in FilledFrame
    PROVE  LET r == PlaceFrame(j, f, p, from, prev, ret)
           IN  /\ Placed(j, r.jb, p.ts, f)
               /\ \A G : FramesIn(j, G) /\ <<p.ts, f>> \in G => FramesIn(r.jb, G)
               /\ \/ r.jb.decodable = j.decodable
                  \/ ret = "kDuplicatePacket" /\ from = "decodable"
                  \/ ret = "kDecodableSession"
                  \/ /\ ret = "kCompleteSession"
                     /\ prev \notin {"Decodable", "Complete"} => r.jb.event
               /\ r.ret \in {ret, "kNoError"}
<1> DEFINE ts == p.ts
           continuous == IsContinuous(j, f, ts)
           r == PlaceFrame(j, f, p, from, prev, ret)
           dcd == [j EXCEPT !.decodable = InsertFrame(@, ts, f)]
           inc == [j EXCEPT !.incomplete = InsertFrame(@, ts, f)]
           free == ReleaseFrame(j)
           event == SignalsFrame(ret, prev, continuous)
           Set(k) == [k EXCEPT !.event = @ \/ event]
           Goal == /\ Placed(j, r.jb, ts, f)
                   /\ \A G : FramesIn(j, G) /\ <<ts, f>> \in G => FramesIn(r.jb, G)
                   /\ \/ r.jb.decodable = j.decodable
                      \/ ret = "kDuplicatePacket" /\ from = "decodable"
                      \/ ret = "kDecodableSession"
                      \/ /\ ret = "kCompleteSession"
                         /\ prev \notin {"Decodable", "Complete"} => r.jb.event
                   /\ r.ret \in {ret, "kNoError"}
<1>1. ts \in Timestamp
  BY DEF Packet
<1>2. f \in FilledFrame =>
         /\ dcd \in JB /\ dcd.decodable = InsertFrame(j.decodable, ts, f)
         /\ dcd.incomplete = j.incomplete /\ dcd.missing = j.missing
         /\ dcd.latest = j.latest /\ dcd.last = j.last /\ SameFlags(j, dcd)
  <2> DEFINE D == InsertFrame(j.decodable, ts, f)
  <2>1. f \in FilledFrame => D \in FrameList
    BY <1>1, CountType, InsertFrameType
  <2>2. dcd = [j EXCEPT !.decodable = D]
    OBVIOUS
  <2> HIDE DEF D, dcd
  <2> QED BY <2>1, <2>2 DEF JB, SameFlags, D
<1>3. f \in FilledFrame =>
         /\ inc \in JB /\ inc.incomplete = InsertFrame(j.incomplete, ts, f)
         /\ inc.decodable = j.decodable /\ inc.missing = j.missing
         /\ inc.latest = j.latest /\ inc.last = j.last /\ SameFlags(j, inc)
  <2> DEFINE I == InsertFrame(j.incomplete, ts, f)
  <2>1. f \in FilledFrame => I \in FrameList
    BY <1>1, CountType, InsertFrameType
  <2>2. inc = [j EXCEPT !.incomplete = I]
    OBVIOUS
  <2> HIDE DEF I, inc
  <2> QED BY <2>1, <2>2 DEF JB, SameFlags, I
<1>4. /\ free \in JB
      /\ free.incomplete = j.incomplete /\ free.decodable = j.decodable
      /\ free.missing = j.missing /\ free.latest = j.latest
      /\ free.last = j.last /\ SameFlags(j, free)
  BY DEF ReleaseFrame, JB, SameFlags
<1>5. ASSUME NEW G, FramesIn(j, G), <<ts, f>> \in G, f \in FilledFrame
      PROVE  FramesIn(dcd, G) /\ FramesIn(inc, G)
  <2> HIDE DEF dcd, inc
  <2>1. FramesIn(dcd, G)
    <3> DEFINE D == InsertFrame(j.decodable, ts, f)
    <3>1. /\ DOMAIN D = DOMAIN j.decodable \cup {ts} /\ D[ts] = f
          /\ \A t \in DOMAIN j.decodable : D[t] = j.decodable[t]
      BY DEF InsertFrame
    <3>2. dcd.decodable = D /\ dcd.incomplete = j.incomplete
      BY <1>2, <1>5
    <3> HIDE DEF D
    <3> QED BY <1>5, <3>1, <3>2 DEF FramesIn
  <2>2. FramesIn(inc, G)
    <3> DEFINE I == InsertFrame(j.incomplete, ts, f)
    <3>1. /\ DOMAIN I = DOMAIN j.incomplete \cup {ts} /\ I[ts] = f
          /\ \A t \in DOMAIN j.incomplete : I[t] = j.incomplete[t]
      BY DEF InsertFrame
    <3>2. inc.incomplete = I /\ inc.decodable = j.decodable
      BY <1>3, <1>5
    <3> HIDE DEF I
    <3> QED BY <1>5, <3>1, <3>2 DEF FramesIn
  <2> QED BY <2>1, <2>2
<1>6. ASSUME NEW G, FramesIn(j, G) PROVE FramesIn(free, G)
  <2> HIDE DEF free
  <2> QED BY <1>4, <1>6 DEF FramesIn
<1>7. ASSUME NEW k \in JB
      PROVE  /\ Set(k).incomplete = k.incomplete /\ Set(k).decodable = k.decodable
             /\ Set(k).missing = k.missing /\ Set(k).latest = k.latest
             /\ Set(k).last = k.last /\ Set(k).fresh = k.fresh
             /\ Set(k).running = k.running
             /\ Set(k).event = (k.event \/ event)
  BY DEF JB
<1>8. CASE ret \in {"kCompleteSession", "kDecodableSession"}
  <2>1. f \in FilledFrame
    BY <1>8
  <2>2. CASE continuous
    <3> DEFINE k == FindAndInsertContinuousFrames(dcd, f, ts)
    <3>1. r.jb = Set(k) /\ r.ret = ret
      BY <1>8, <2>2 DEF PlaceFrame
    <3>2. ret = "kCompleteSession" /\ prev \notin {"Decodable", "Complete"} => event
      BY <2>2 DEF SignalsFrame
    <3> HIDE DEF dcd, inc, free, event, continuous
    <3>3. PICK S \in SUBSET DOMAIN dcd.incomplete : Moved(dcd, k, S)
      BY <1>2, <2>1, FindAndInsertMoves
    <3>4. k \in JB
      BY <1>2, <2>1, FindAndInsertMoves
    <3> HIDE DEF k
    <3>5. \A G : FramesIn(j, G) /\ <<ts, f>> \in G => FramesIn(k, G)
      BY <1>2, <1>5, <2>1, <3>3, MovedFrames
    <3>6. \A G : FramesIn(k, G) => FramesIn(Set(k), G)
      BY <1>7, <3>4 DEF FramesIn
    <3>7. /\ k.missing = j.missing /\ k.latest = j.latest /\ k.last = j.last
          /\ k.fresh = j.fresh /\ k.running = j.running /\ k.event = j.event
      BY <1>2, <2>1, <3>3 DEF Moved, SameFlags
    <3>8. Placed(j, Set(k), ts, f)
      BY <1>7, <3>4, <3>7 DEF Placed
    <3>9. Set(k).event = (k.event \/ event)
      BY <1>7, <3>4
    <3> HIDE DEF Set, r
    <3> QED BY <1>8, <3>1, <3>2, <3>5, <3>6, <3>8, <3>9 DEF r
  <2>3. CASE ~continuous
    <3>1. r.jb = Set(inc) /\ r.ret = ret
      BY <1>8, <2>3 DEF PlaceFrame
    <3> HIDE DEF dcd, inc, free, event, continuous
    <3>2. Placed(j, Set(inc), ts, f) /\ Set(inc).decodable = j.decodable
      BY <1>3, <1>7, <2>1 DEF Placed, SameFlags
    <3>3. \A G : FramesIn(inc, G) => FramesIn(Set(inc), G)
      BY <1>3, <1>7, <2>1 DEF FramesIn
    <3> HIDE DEF Set, r
    <3> QED BY <1>5, <2>1, <3>1, <3>2, <3>3 DEF r
  <2> QED BY <2>2, <2>3
<1>9. CASE ret = "kIncomplete"
  <2>1. f \in FilledFrame
    BY <1>9
  <2>2. CASE f.state = "Empty" /\ CanSkipEmptyFrame(j.last, f)
    <3> DEFINE last == SkipEmptyFrame(j.last, f, ts)
               skip == [free EXCEPT !.last = last]
    <3>1. r.jb = skip /\ r.ret = "kNoError"
      BY <1>9, <2>2, <1>4 DEF PlaceFrame, ReleaseFrame
    <3> HIDE DEF free, last, r
    <3>2. /\ skip.incomplete = free.incomplete
          /\ skip.decodable = free.decodable /\ skip.last = last
          /\ skip.latest = free.latest /\ skip.missing = free.missing
          /\ SameFlags(free, skip)
      BY <1>4 DEF JB, SameFlags
    <3> HIDE DEF skip
    <3>3. Placed(j, skip, ts, f) /\ skip.decodable = j.decodable
      BY <1>4, <2>1, <2>2, <3>2 DEF Placed, SameFlags, last
    <3>4. \A G : FramesIn(free, G) => FramesIn(skip, G)
      BY <3>2 DEF FramesIn
    <3> QED BY <1>6, <3>1, <3>3, <3>4 DEF r
  <2>3. CASE ~(f.state = "Empty" /\ CanSkipEmptyFrame(j.last, f))
    <3>1. r.jb = inc /\ r.ret = ret
      BY <1>9, <2>3 DEF PlaceFrame
    <3> HIDE DEF inc, r
    <3>2. Placed(j, inc, ts, f) /\ inc.decodable = j.decodable
      BY <1>3, <2>1 DEF Placed, SameFlags
    <3> QED BY <1>5, <2>1, <3>1, <3>2 DEF r
  <2> QED BY <2>2, <2>3
<1>10. CASE ret = "kDuplicatePacket"
  <2>1. f \in FilledFrame
    BY <1>10
  <2>2. /\ \/ r.jb = dcd /\ from = "decodable"
           \/ r.jb = inc
           \/ r.jb = free
        /\ r.ret = ret
    BY <1>10 DEF PlaceFrame, ReleaseFrame
  <2> HIDE DEF dcd, inc, free, r
  <2>3. /\ Placed(j, dcd, ts, f) /\ Placed(j, inc, ts, f) /\ Placed(j, free, ts, f)
        /\ inc.decodable = j.decodable /\ free.decodable = j.decodable
    BY <1>2, <1>3, <1>4, <2>1 DEF Placed, SameFlags
  <2> QED BY <1>5, <1>6, <1>10, <2>1, <2>2, <2>3 DEF r
<1>11. CASE ret \in {"kSizeError", "kFlushIndicator"}
  <2>1. r.jb = free /\ r.ret = ret
    BY <1>11 DEF PlaceFrame, ReleaseFrame
  <2> HIDE DEF free, r
  <2>2. Placed(j, free, ts, f) /\ free.decodable = j.decodable
    BY <1>4 DEF Placed, SameFlags
  <2> QED BY <1>6, <2>1, <2>2 DEF r
<1> QED BY <1>8, <1>9, <1>10, <1>11

\* The frame of a packet that does not fit is given back.
LEMMA PlaceOversized ==
    ASSUME NEW j \in JB, NEW p, NEW f, NEW from, NEW prev
    PROVE  LET r == PlaceFrame(j, f, p, from, prev, "kSizeError")
           IN  r.jb.decodable = j.decodable /\ r.jb.incomplete = j.incomplete
  BY DEF PlaceFrame, JB


\* Timestamps of the stream have an oldest ...
LEMMA OldestExists ==
    ASSUME ShortTimes, NEW S, S \subseteq Times, S # {}
    PROVE  \E t \in S : \A u \in S : ~IsNewerTimestamp(t, u)
<1>1. PICK b \in Timestamp : \A p \in Packets : Ahead(p.ts, b, TsMod) < TsMod \div 2
  BY DEF ShortTimes
<1>2. ASSUME NEW t \in S, NEW u \in S
      PROVE  /\ Ahead(t, b, TsMod) \in 0 .. TsMod
             /\ IsNewerTimestamp(t, u) <=> Ahead(u, b, TsMod) < Ahead(t, b, TsMod)
  <2>1. /\ t \in Timestamp /\ u \in Timestamp
        /\ Ahead(t, b, TsMod) < TsMod \div 2 /\ Ahead(u, b, TsMod) < TsMod \div 2
    BY <1>1, VideoReceiverAssumption DEF Times, Packet
  <2> QED BY <2>1, TimeOrder
<1> DEFINE P == {Ahead(t, b, TsMod) : t \in S}
<1>3. P \subseteq Nat /\ P # {}
  BY <1>2, ModAssumption
<1>4. PICK m \in P : \A n \in P : m <= n
  <2> HIDE DEF P
  <2> QED BY <1>3, SmallestExists
<1>5. PICK t \in S : m = Ahead(t, b, TsMod)
  BY <1>4
<1>6. ASSUME NEW u \in S PROVE ~IsNewerTimestamp(t, u)
  <2>1. /\ Ahead(t, b, TsMod) <= Ahead(u, b, TsMod)
        /\ Ahead(t, b, TsMod) \in Int /\ Ahead(u, b, TsMod) \in Int
    BY <1>2, <1>4, <1>5
  <2> QED BY <1>2, <2>1
<1> QED BY <1>6

\* ... and a newest one.
LEMMA NewestExists ==
    ASSUME ShortTimes, NEW S, S \subseteq Times, S # {}
    PROVE  \E t \in S : \A u \in S : ~IsNewerTimestamp(u, t)
<1>1. PICK b \in Timestamp : \A p \in Packets : Ahead(p.ts, b, TsMod) < TsMod \div 2
  BY DEF ShortTimes
<1>2. ASSUME NEW t \in S, NEW u \in S
      PROVE  /\ Ahead(t, b, TsMod) \in 0 .. TsMod
             /\ IsNewerTimestamp(t, u) <=> Ahead(u, b, TsMod) < Ahead(t, b, TsMod)
  <2>1. /\ t \in Timestamp /\ u \in Timestamp
        /\ Ahead(t, b, TsMod) < TsMod \div 2 /\ Ahead(u, b, TsMod) < TsMod \div 2
    BY <1>1, VideoReceiverAssumption DEF Times, Packet
  <2> QED BY <2>1, TimeOrder
<1> DEFINE P == {Ahead(t, b, TsMod) : t \in S}
<1>3. P \subseteq 0 .. TsMod /\ P # {}
  BY <1>2
<1>4. PICK m \in P : \A n \in P : n <= m
  <2> HIDE DEF P
  <2> QED BY <1>3, LargestExists, ModAssumption
<1>5. PICK t \in S : m = Ahead(t, b, TsMod)
  BY <1>4
<1>6. ASSUME NEW u \in S PROVE ~IsNewerTimestamp(u, t)
  <2>1. /\ Ahead(u, b, TsMod) <= Ahead(t, b, TsMod)
        /\ Ahead(t, b, TsMod) \in Int /\ Ahead(u, b, TsMod) \in Int
    BY <1>2, <1>4, <1>5
  <2> QED BY <1>2, <2>1
<1> QED BY <1>6

\* HandleTooLargeNackList either ends at a key frame or clears the NACK list.
LEMMA TooLargeEnds ==
    ASSUME ShortTimes, NEW j \in JB, DOMAIN j.incomplete \subseteq Times,
           ~SmallEnough(j.missing)
    PROVE  LET r == HandleTooLargeNackList(j)
           IN  ~r.key => r.jb.missing = {}
<1> DEFINE inc == j.incomplete
           dcd == j.decodable
           keys == LaterKeys(inc)
           inStop == StopKey(inc, j.missing, SmallEnough)
           M == DropBelowKeys(inc, j.missing, keys)
           decStop == StopKey(dcd, M, SmallEnough)
           r == HandleTooLargeNackList(j)
           good == {t \in keys : SmallEnough(DropBelowKeys(inc, j.missing, UpTo(inc, t)))}
<1>1. inStop = {t \in good : \A u \in good : ~IsNewerTimestamp(t, u)}
  BY DEF StopKey
<1>2. ~r.key => \/ inStop = {} /\ SmallEnough(M)
                \/ r.jb.missing = {}
  BY DEF HandleTooLargeNackList, RecycleUntil, JB
<1> HIDE DEF r, inStop, M
<1>3. ASSUME inStop = {}, SmallEnough(M) PROVE FALSE
  <2>1. CASE keys = {}
    <3>1. M = j.missing
      BY <2>1 DEF M, DropBelowKeys
    <3> QED BY <1>3, <3>1
  <2>2. CASE keys # {}
    <3>1. keys \subseteq Times
      BY DEF LaterKeys
    <3>2. PICK t \in keys : \A u \in keys : ~IsNewerTimestamp(u, t)
      <4> HIDE DEF keys
      <4> QED BY <2>2, <3>1, NewestExists
    <3>3. UpTo(inc, t) = keys
      BY <3>2 DEF UpTo
    <3>4. t \in good
      BY <1>3, <3>3 DEF M
    <3>5. good \subseteq Times /\ good # {}
      BY <3>1, <3>4
    <3>6. \E u \in good : \A v \in good : ~IsNewerTimestamp(u, v)
      <4> HIDE DEF good
      <4> QED BY <3>5, OldestExists
    <3> QED BY <1>1, <1>3, <3>6
  <2> QED BY <2>1, <2>2
<1> QED BY <1>2, <1>3 DEF r

\* HandleTooOldPackets leaves no packet that is too old.
LEMMA TooOldEnds ==
    ASSUME NEW j \in JB, NEW seq
    PROVE  YoungEnough(HandleTooOldPackets(j, seq).jb.missing, seq)
<1> DEFINE Enough(M) == YoungEnough(M, seq)
           inc == j.incomplete
           dcd == j.decodable
           inStop == StopKey(inc, j.missing, Enough)
           M == DropBelowKeys(inc, j.missing, LaterKeys(inc))
           decStop == StopKey(dcd, M, Enough)
           ti == CHOOSE t \in inStop : TRUE
           td == CHOOSE t \in decStop : TRUE
           Mi == DropBelowKeys(inc, j.missing, UpTo(inc, ti))
           Md == DropBelowKeys(dcd, M, UpTo(dcd, td))
           r == HandleTooOldPackets(j, seq)
<1>1. /\ inStop # {} => Enough(Mi)
      /\ decStop # {} => Enough(Md)
  BY DEF StopKey
<1>2. \/ r.jb.missing = Mi /\ inStop # {}
      \/ r.jb.missing = M /\ Enough(M)
      \/ r.jb.missing = Md /\ decStop # {}
      \/ r.jb.missing = {}
  BY DEF HandleTooOldPackets, RecycleUntil, JB
<1>3. Enough({})
  BY DEF YoungEnough
<1> HIDE DEF inStop, M, decStop, ti, td, Mi, Md, r, Enough
<1>4. Enough(r.jb.missing)
  BY <1>1, <1>2, <1>3
<1> QED BY <1>4 DEF Enough, r

\* The position that UpdateNackList counts from.
Reached(j) == IF j.last.initial THEN j.latest
              ELSE LatestSequenceNumber(j.latest, j.last.seq)

\* UpdateNackList.
LEMMA UpdateNackListResult ==
    ASSUME NEW j \in JB, NEW seq \in SeqNum
    PROVE  LET k == UpdateNackList(j, seq).jb
           IN  /\ k \in JB
               /\ Sublist(k.incomplete, j.incomplete)
               /\ Sublist(k.decodable, j.decodable)
               /\ k.last \in {j.last, InitialDecodingState}
               /\ SameFlags(j, k)
               /\ k.missing \subseteq SeqNum
               /\ IF NackMode = "kNoNack"
                  THEN k.missing = j.missing /\ k.latest = j.latest
                  ELSE /\ k.latest = Reached(j)
                       /\ IF IsNewerSequenceNumber(seq, Reached(j))
                          THEN k.missing \subseteq
                                  j.missing \cup SeqBetween(Reached(j), seq)
                          ELSE k.missing = j.missing \ {seq}
               /\ NackMode # "kNoNack" /\ IsNewerSequenceNumber(seq, Reached(j))
                  /\ ShortTimes /\ DOMAIN j.incomplete \subseteq Times
                     => YoungEnough(k.missing, seq)
<1> DEFINE latest == Reached(j)
           between == SeqBetween(latest, seq)
           grown == [j EXCEPT !.latest = latest, !.missing = @ \cup between]
           less == [j EXCEPT !.latest = latest, !.missing = @ \ {seq}]
           small == IF SmallEnough(grown.missing)
                    THEN [jb |-> grown, key |-> TRUE]
                    ELSE HandleTooLargeNackList(grown)
           old == HandleTooOldPackets(small.jb, seq)
           u == UpdateNackList(j, seq)
<1>1. latest \in SeqNum
  BY RingTypes DEF JB, DecodingState, Reached
<1>2. between \in SUBSET SeqNum
  BY <1>1, RingTypes
<1>3. u = IF NackMode = "kNoNack" THEN [jb |-> j, key |-> TRUE]
          ELSE IF ~IsNewerSequenceNumber(seq, latest)
          THEN [jb |-> less, key |-> TRUE]
          ELSE IF ~small.key \/ YoungEnough(small.jb.missing, seq)
          THEN small ELSE old
  BY DEF UpdateNackList, DropTooOld, Reached
<1>4. \/ NackMode = "kNoNack" /\ u.jb = j
      \/ /\ NackMode # "kNoNack" /\ ~IsNewerSequenceNumber(seq, latest)
         /\ u.jb = less
      \/ /\ NackMode # "kNoNack" /\ IsNewerSequenceNumber(seq, latest)
         /\ ~small.key \/ YoungEnough(small.jb.missing, seq)
         /\ u.jb = small.jb
      \/ /\ NackMode # "kNoNack" /\ IsNewerSequenceNumber(seq, latest)
         /\ u.jb = old.jb
  BY <1>3
<1> HIDE DEF latest, between, u
<1>5. /\ less \in JB /\ less.missing = j.missing \ {seq} /\ less.latest = latest
      /\ less.incomplete = j.incomplete /\ less.decodable = j.decodable
      /\ less.last = j.last /\ SameFlags(j, less)
  BY <1>1 DEF JB, SameFlags
<1>6. /\ grown \in JB /\ grown.missing = j.missing \cup between
      /\ grown.latest = latest
      /\ grown.incomplete = j.incomplete /\ grown.decodable = j.decodable
      /\ grown.last = j.last /\ SameFlags(j, grown)
  BY <1>1, <1>2 DEF JB, SameFlags
<1> HIDE DEF less, grown
<1>7. /\ small.jb \in JB /\ Reduced(grown, small.jb)
      /\ ShortTimes /\ DOMAIN j.incomplete \subseteq Times /\ ~small.key
            => small.jb.missing = {}
  <2>1. CASE SmallEnough(grown.missing)
    BY <1>6, <2>1, ReducedReflexive
  <2>2. CASE ~SmallEnough(grown.missing)
    <3>1. small = HandleTooLargeNackList(grown)
      BY <2>2
    <3>2. IsRecycled(grown, small.jb)
      BY <1>6, <3>1, TooLargeRecycles
    <3>3. ShortTimes /\ DOMAIN j.incomplete \subseteq Times /\ ~small.key
             => small.jb.missing = {}
      BY <1>6, <2>2, <3>1, TooLargeEnds
    <3> HIDE DEF small
    <3> QED BY <1>6, <3>2, <3>3, RecycledType, RecycledReduced
  <2> QED BY <2>1, <2>2
<1> HIDE DEF small
<1>8. old.jb \in JB /\ Reduced(small.jb, old.jb) /\ YoungEnough(old.jb.missing, seq)
  <2>1. IsRecycled(small.jb, old.jb)
    BY <1>7, TooOldRecycles
  <2>2. YoungEnough(old.jb.missing, seq)
    BY <1>7, TooOldEnds
  <2> HIDE DEF old
  <2> QED BY <1>7, <2>1, <2>2, RecycledType, RecycledReduced
<1> HIDE DEF old
<1>9. Reduced(grown, old.jb)
  BY <1>7, <1>8, ReducedTransitive
<1>10. ASSUME NEW k \in JB, Reduced(grown, k)
       PROVE  /\ Sublist(k.incomplete, j.incomplete)
              /\ Sublist(k.decodable, j.decodable)
              /\ k.last \in {j.last, InitialDecodingState}
              /\ SameFlags(j, k) /\ k.latest = latest
              /\ k.missing \subseteq j.missing \cup between
              /\ k.missing \subseteq SeqNum
  BY <1>6, <1>10 DEF Reduced, SameFlags, JB
<1>11. YoungEnough({}, seq)
  BY DEF YoungEnough
<1>12. CASE NackMode = "kNoNack" /\ u.jb = j
  <2>1. Sublist(j.incomplete, j.incomplete) /\ Sublist(j.decodable, j.decodable)
    BY CountType, SublistFacts
  <2> QED BY <1>12, <2>1 DEF u, SameFlags, JB
<1>13. CASE /\ NackMode # "kNoNack" /\ ~IsNewerSequenceNumber(seq, latest)
            /\ u.jb = less
  <2>1. Sublist(j.incomplete, j.incomplete) /\ Sublist(j.decodable, j.decodable)
    BY CountType, SublistFacts
  <2>2. less.missing \subseteq SeqNum
    BY <1>5 DEF JB
  <2> QED BY <1>5, <1>13, <2>1, <2>2 DEF u, latest
<1>14. CASE /\ NackMode # "kNoNack" /\ IsNewerSequenceNumber(seq, latest)
            /\ ~small.key \/ YoungEnough(small.jb.missing, seq)
            /\ u.jb = small.jb
  <2>1. ShortTimes /\ DOMAIN j.incomplete \subseteq Times
           => YoungEnough(small.jb.missing, seq)
    BY <1>7, <1>11, <1>14
  <2> QED BY <1>7, <1>10, <1>14, <2>1 DEF u, latest, between
<1>15. CASE /\ NackMode # "kNoNack" /\ IsNewerSequenceNumber(seq, latest)
            /\ u.jb = old.jb
  BY <1>8, <1>9, <1>10, <1>15 DEF u, latest, between
<1> QED BY <1>4, <1>12, <1>13, <1>14, <1>15

\* An old packet.
LEMMA InsertOldPacketResult ==
    ASSUME NEW j \in JB, NEW p \in Packet
    PROVE  LET k == InsertOldPacket(j, p).jb
               last == UpdateOldPacket(j.last, p)
           IN  \/ \E l \in JB : k = Flush(l) /\ l.running = j.running
                                /\ l.event = j.event
               \/ /\ k.incomplete = j.incomplete /\ k.decodable = j.decodable
                  /\ k.missing = DropPackets(j.missing, last.seq)
                  /\ k.latest = j.latest /\ k.last = last /\ SameFlags(j, k)
<1> DEFINE last == UpdateOldPacket(j.last, p)
           old == IF p.type = "empty" THEN j.old ELSE j.old + 1
           missing == DropPackets(j.missing, last.seq)
           seen == [j EXCEPT !.old = old, !.last = last, !.missing = missing]
           r == InsertOldPacket(j, p)
<1>1. last \in DecodingState
  BY RingTypes DEF UpdateOldPacket, JB, DecodingState, Packet
<1>2. old \in Nat /\ missing \in SUBSET SeqNum
  BY DropTypes DEF JB
<1>3. r.jb = Flush(seen) \/ r.jb = seen
  BY DEF InsertOldPacket
<1> HIDE DEF last, old, missing, r
<1>4. /\ seen \in JB /\ seen.missing = missing /\ seen.last = last
      /\ seen.incomplete = j.incomplete /\ seen.decodable = j.decodable
      /\ seen.latest = j.latest /\ SameFlags(j, seen)
  BY <1>1, <1>2 DEF JB, SameFlags
<1> HIDE DEF seen
<1> QED BY <1>3, <1>4 DEF r, missing, last, SameFlags

\* Flush.
LEMMA FlushResult ==
    ASSUME NEW j \in JB
    PROVE  LET k == Flush(j)
           IN  /\ k \in JB /\ k.decodable = EmptyList /\ k.incomplete = EmptyList
               /\ k.missing = {} /\ k.last = InitialDecodingState /\ k.fresh
               /\ k.running = j.running /\ k.event = j.event
<1>1. Flush(j) \in JB
  BY StopFlushTypes
<1>2. LET k == Flush(j)
      IN  /\ k.decodable = EmptyList /\ k.incomplete = EmptyList
          /\ k.missing = {} /\ k.last = InitialDecodingState /\ k.fresh
          /\ k.running = j.running /\ k.event = j.event
  BY DEF Flush, FreeAllFrames, JB
<1> QED BY <1>1, <1>2

\* The decoding state after CleanUpList: it may have passed an empty frame.
LEMMA CleanUpListResult ==
    ASSUME NEW L \in FrameList, NEW st \in DecodingState
    PROVE  LET c == CleanUpList(L, st)
           IN  /\ Sublist(c.list, L) /\ c.last \in DecodingState
               /\ \/ c.last = st
                  \/ \E t \in DOMAIN L :
                        ~st.initial /\ c.last = SkipEmptyFrame(st, L[t], t)
<1> DEFINE Older(t) == {u \in DOMAIN L : IsNewerTimestamp(t, u)}
           StateAt(t) ==
             StateAfterSkipping(L, st, {u \in Older(t) : IsVoid(L, u)})
           Removable(t) == IF IsVoid(L, t) THEN CanSkipEmptyFrame(StateAt(t), L[t])
                                           ELSE IsOldTimestamp(StateAt(t), t)
           gone == {t \in DOMAIN L :
                      Removable(t) /\ \A u \in Older(t) : Removable(u)}
           skipped == {t \in gone : IsVoid(L, t)}
           final == {t \in skipped : \A u \in skipped : ~IsNewerTimestamp(u, t)}
           t == CHOOSE t \in final : TRUE
           last == IF st.initial \/ final = {} THEN st
                   ELSE SkipEmptyFrame(st, L[t], t)
<1>0. CleanUpList(L, st) = WithoutFrames(L, st, gone)
  BY SMTT(40) DEF CleanUpList
<1>1. CleanUpList(L, st).last = last
  BY <1>0 DEF WithoutFrames, StateAfterSkipping
<1>2. final \subseteq DOMAIN L
  OBVIOUS
<1> HIDE DEF gone, final
<1>3. final # {} => t \in DOMAIN L
  BY <1>2
<1>4. Sublist(CleanUpList(L, st).list, L) /\ CleanUpList(L, st).last \in DecodingState
  BY CleanUpListType
<1>5. \/ last = st
      \/ \E u \in DOMAIN L : ~st.initial /\ last = SkipEmptyFrame(st, L[u], u)
  <2> HIDE DEF t
  <2> QED BY <1>3
<1> HIDE DEF last
<1> QED BY <1>1, <1>4, <1>5

\* The sequence number of a decoding state is that of j, or of a frame of j.
SeqFrom(j, st) ==
    \/ st.initial = j.last.initial /\ st.seq = j.last.seq
    \/ /\ ~j.last.initial /\ ~st.initial
       /\ \/ \E t \in DOMAIN j.decodable :
                st.seq = HighSequenceNumber(j.decodable[t])
          \/ \E t \in DOMAIN j.incomplete :
                st.seq = HighSequenceNumber(j.incomplete[t])

\* CleanUpOldOrEmptyFrames.
LEMMA CleanUpResult ==
    ASSUME NEW j \in JB
    PROVE  LET k == CleanUpOldOrEmptyFrames(j)
           IN  /\ k \in JB
               /\ Sublist(k.incomplete, j.incomplete)
               /\ Sublist(k.decodable, j.decodable)
               /\ k.missing \subseteq j.missing
               /\ ~k.last.initial => k.missing = DropPackets(j.missing, k.last.seq)
               /\ k.latest = j.latest /\ SameFlags(j, k)
               /\ SeqFrom(j, k.last)
<1> DEFINE d == CleanUpList(j.decodable, j.last)
           i == CleanUpList(j.incomplete, d.last)
           free == j.free + Dropped(j.decodable, d.list)
                          + Dropped(j.incomplete, i.list)
           missing == IF i.last.initial THEN j.missing
                      ELSE DropPackets(j.missing, i.last.seq)
           k == CleanUpOldOrEmptyFrames(j)
<1>0. j.decodable \in FrameList /\ j.incomplete \in FrameList
      /\ j.last \in DecodingState
  BY DEF JB
<1>1. /\ Sublist(d.list, j.decodable) /\ d.last \in DecodingState
      /\ \/ d.last = j.last
         \/ \E t \in DOMAIN j.decodable :
               /\ ~j.last.initial
               /\ d.last = SkipEmptyFrame(j.last, j.decodable[t], t)
  BY <1>0, CleanUpListResult
<1>2. k \in JB
  BY CleanUpShrinks DEF Shrinks
<1>3. /\ k = [j EXCEPT !.decodable = d.list, !.incomplete = i.list,
                    !.free = free, !.last = i.last, !.missing = missing]
      /\ ~i.last.initial => missing = DropPackets(j.missing, i.last.seq)
  BY DEF CleanUpOldOrEmptyFrames, CleanedUp
<1>9. missing \subseteq j.missing
  BY DropTypes DEF JB
<1> HIDE DEF d
<1>4. /\ Sublist(i.list, j.incomplete) /\ i.last \in DecodingState
      /\ \/ i.last = d.last
         \/ \E t \in DOMAIN j.incomplete :
               /\ ~d.last.initial
               /\ i.last = SkipEmptyFrame(d.last, j.incomplete[t], t)
  BY <1>0, <1>1, CleanUpListResult
<1> HIDE DEF i, free, missing, k
<1>5. /\ k.missing = missing /\ k.decodable = d.list /\ k.incomplete = i.list
      /\ k.last = i.last /\ k.latest = j.latest /\ SameFlags(j, k)
  BY <1>3 DEF JB, SameFlags
<1>6. ASSUME NEW st \in DecodingState, ~st.initial, NEW f, NEW t
      PROVE  LET s == SkipEmptyFrame(st, f, t)
             IN  ~s.initial /\ s.seq = HighSequenceNumber(f)
  BY <1>6 DEF SkipEmptyFrame, DecodingState
<1>7. SeqFrom(j, d.last)
  BY <1>0, <1>1, <1>6 DEF SeqFrom
<1>8. SeqFrom(j, i.last)
  <2>1. CASE i.last = d.last
    BY <1>7, <2>1
  <2>2. ASSUME NEW t \in DOMAIN j.incomplete, ~d.last.initial,
               i.last = SkipEmptyFrame(d.last, j.incomplete[t], t)
        PROVE  SeqFrom(j, i.last)
    <3>1. ~j.last.initial
      BY <1>7, <2>2 DEF SeqFrom
    <3>2. ~i.last.initial /\ i.last.seq = HighSequenceNumber(j.incomplete[t])
      BY <1>1, <1>6, <2>2
    <3> QED BY <2>2, <3>1, <3>2 DEF SeqFrom
  <2> QED BY <1>4, <2>1, <2>2
<1> QED BY <1>1, <1>2, <1>3, <1>4, <1>5, <1>8, <1>9 DEF k

\* ExtractAndSetDecode: no frame, or a complete one of decodable_frames_.
LEMMA ExtractResult ==
    ASSUME NEW j \in JB, NEW ts
    PROVE  LET r == ExtractAndSetDecode(j, ts)
               k == r.jb
           IN  /\ k.incomplete = j.incomplete /\ Sublist(k.decodable, j.decodable)
               /\ k.latest = j.latest /\ SameFlags(j, k)
               /\ \/ r.frames = {} /\ k.missing = j.missing /\ k.last = j.last
                  \/ \E t \in DOMAIN j.decodable :
                        /\ r.frames = {[ts |-> t, frame |-> j.decodable[t],
                              continuous |-> ContinuousFrame(j.last, j.decodable[t])]}
                        /\ j.decodable[t].state = "Complete"
                        /\ k.last = SetState(j.decodable[t], t)
                        /\ k.missing = DropPackets(j.missing, k.last.seq)
<1> DEFINE dcd == j.decodable
           keys == {t \in DOMAIN dcd : /\ t # ts
                                       /\ IsNewerTimestamp(t, ts)
                                       /\ dcd[t].type = "key"
                                       /\ dcd[t].state = "Complete"}
           next == {t \in keys : \A u \in keys : ~IsNewerTimestamp(t, u)}
           t == CHOOSE t \in next : TRUE
           State(u) == SetState(dcd[u], u)
           After1(u, K) == [j EXCEPT !.decodable = K, !.last = State(u),
                                     !.missing = DropPackets(@, State(u).seq)]
           Out(u) == [ts |-> u, frame |-> dcd[u],
                      continuous |-> ContinuousFrame(j.last, dcd[u])]
           one == Remove(dcd, {ts})
           rest == Remove(From(dcd, t), {t})
           none == [j EXCEPT !.decodable = EmptyList]
           r == ExtractAndSetDecode(j, ts)
<1>1. \/ r = [jb |-> j, frames |-> {}]
      \/ /\ ts \in DOMAIN dcd /\ dcd[ts].state = "Complete"
         /\ r = [jb |-> After1(ts, one), frames |-> {Out(ts)}]
      \/ r = [jb |-> none, frames |-> {}]
      \/ /\ next # {}
         /\ r = [jb |-> After1(t, rest), frames |-> {Out(t)}]
  BY DEF ExtractAndSetDecode
<1>2. \A u \in next : u \in DOMAIN dcd /\ dcd[u].state = "Complete"
  OBVIOUS
<1> HIDE DEF next
<1>3. next # {} => t \in DOMAIN dcd /\ dcd[t].state = "Complete"
  BY <1>2
<1>4. dcd \in FrameList
  BY CountType
<1>5. Sublist(one, dcd) /\ Sublist(dcd, dcd) /\ Sublist(EmptyList, dcd)
  BY <1>4, SublistFacts
<1>6. Sublist(rest, dcd)
  <2>1. From(dcd, t) \in FrameList /\ Sublist(From(dcd, t), dcd)
    BY <1>4, FromType, SublistFacts
  <2>2. Sublist(rest, From(dcd, t))
    BY <2>1, SublistFacts
  <2> QED BY <2>1, <2>2 DEF Sublist
<1>7. ASSUME NEW u \in DOMAIN dcd, NEW K
      PROVE  LET k == After1(u, K)
             IN  /\ k.incomplete = j.incomplete /\ k.decodable = K
                 /\ k.latest = j.latest /\ SameFlags(j, k) /\ k.last = State(u)
                 /\ k.missing = DropPackets(j.missing, State(u).seq)
  BY DEF JB, SameFlags
<1>8. /\ none.incomplete = j.incomplete /\ none.decodable = EmptyList
      /\ none.latest = j.latest /\ SameFlags(j, none) /\ none.last = j.last
      /\ none.missing = j.missing
  BY DEF JB, SameFlags
<1>9. CASE r = [jb |-> j, frames |-> {}]
  <2>1. r.jb = j /\ r.frames = {}
    BY <1>9
  <2> HIDE DEF r
  <2> QED BY <1>5, <2>1 DEF r, SameFlags
<1>10. CASE /\ ts \in DOMAIN dcd /\ dcd[ts].state = "Complete"
            /\ r = [jb |-> After1(ts, one), frames |-> {Out(ts)}]
  <2>1. r.jb = After1(ts, one) /\ r.frames = {Out(ts)}
    BY <1>10
  <2> HIDE DEF After1, r, one, State
  <2> QED BY <1>5, <1>7, <1>10, <2>1 DEF r, State
<1>11. CASE r = [jb |-> none, frames |-> {}]
  <2>1. r.jb = none /\ r.frames = {}
    BY <1>11
  <2> HIDE DEF none, r
  <2> QED BY <1>5, <1>8, <2>1 DEF r
<1>12. CASE next # {} /\ r = [jb |-> After1(t, rest), frames |-> {Out(t)}]
  <2>1. r.jb = After1(t, rest) /\ r.frames = {Out(t)} /\ t \in DOMAIN dcd
        /\ dcd[t].state = "Complete"
    BY <1>3, <1>12
  <2> HIDE DEF After1, r, rest, State, t
  <2> QED BY <1>6, <1>7, <2>1 DEF r, State
<1> QED BY <1>1, <1>9, <1>10, <1>11, <1>12, SMTT(40)

\* The buffer once InsertPacket has counted the packet p, but not placed its
\* frame: ret is what VCMFrameBuffer::InsertPacket answered.
Counted(h, p, ret) ==
    IF ret = "kSizeError" THEN h
    ELSE IF h.fresh THEN [h EXCEPT !.latest = p.seq, !.fresh = FALSE]
    ELSE [UpdateNackList(h, p.seq).jb EXCEPT !.latest = LatestSequenceNumber(@, p.seq)]

\* InsertPacket for a packet that is not old: GetFrame, Counted, PlaceFrame.
LEMMA InsertNewPacketResult ==
    ASSUME NEW j \in JB, Sound(j), NEW p \in Packet
    PROVE  LET g == GetFrame([j EXCEPT !.old = 0], p.ts)
               i == FrameInsertPacket(g.frame, p)
               k == Counted(g.jb, p, i.ret)
               r == InsertNewPacket(j, p)
           IN  /\ g.jb \in JB /\ k \in JB /\ g.frame \in Frame
               /\ Reduced(j, g.jb) /\ FoundIn(j, p.ts, g.from, g.frame)
               /\ Sublist(k.incomplete, g.jb.incomplete)
               /\ Sublist(k.decodable, g.jb.decodable)
               /\ k.running = j.running /\ k.event = j.event
               /\ \/ r.jb = g.jb
                  \/ /\ Placed(k, r.jb, p.ts, i.frame)
                     /\ \A G : FramesIn(k, G) /\ <<p.ts, i.frame>> \in G
                                  => FramesIn(r.jb, G)
                     /\ \/ r.jb.decodable = k.decodable
                        \/ g.from = "decodable"
                        \/ i.ret = "kDecodableSession"
                        \/ /\ i.ret = "kCompleteSession"
                           /\ g.frame.state \notin {"Decodable", "Complete"}
                                 => r.jb.event
                     /\ i.ret = "kSizeError" => /\ r.jb.decodable = k.decodable
                                                /\ r.jb.incomplete = k.incomplete
<1> DEFINE j0 == [j EXCEPT !.old = 0]
           g == GetFrame(j0, p.ts)
           i == FrameInsertPacket(g.frame, p)
           counted == i.ret # "kSizeError"
           update == UpdateNackList(g.jb, p.seq)
           first == [g.jb EXCEPT !.latest = p.seq, !.fresh = FALSE]
           next == [update.jb EXCEPT !.latest = LatestSequenceNumber(@, p.seq)]
           k == Counted(g.jb, p, i.ret)
           ret == IF counted /\ ~g.jb.fresh /\ ~update.key /\ p.type # "key"
                  THEN "kFlushIndicator" ELSE i.ret
           r == InsertNewPacket(j, p)
<1>1. /\ j0 \in JB /\ j0.incomplete = j.incomplete /\ j0.decodable = j.decodable
      /\ j0.missing = j.missing /\ j0.latest = j.latest /\ j0.last = j.last
      /\ SameFlags(j, j0)
  BY DEF JB, SameFlags
<1>2. /\ r = IF g.ret # "kNoError" THEN [jb |-> g.jb, ret |-> g.ret]
             ELSE PlaceFrame(k, i.frame, p, g.from, g.frame.state, ret)
      /\ k = IF ~counted THEN g.jb ELSE IF g.jb.fresh THEN first ELSE next
  BY DEF InsertNewPacket, InsertIntoFrame, Counted
<1> HIDE DEF j0
<1>3. Sound(j0) /\ p.ts \in Timestamp /\ p.seq \in SeqNum
  BY <1>1 DEF Sound, Apart, OnlyComplete, Packet
<1>4. /\ g.jb \in JB /\ g.frame \in Frame
      /\ g.from \in {"incomplete", "decodable", "none"}
      /\ p.ts \notin DOMAIN g.jb.decodable
      /\ p.ts \notin DOMAIN g.jb.incomplete
  BY <1>1, <1>3, GetFrameTakes
<1>5. Reduced(j, g.jb) /\ FoundIn(j, p.ts, g.from, g.frame)
  <2>1. Reduced(j0, g.jb) /\ FoundIn(j0, p.ts, g.from, g.frame)
    BY <1>1, GetFrameReduces
  <2> HIDE DEF g
  <2> QED BY <1>1, <2>1 DEF Reduced, FoundIn, SameFlags
<1> HIDE DEF g, k, r
<1>6. /\ i.frame \in Frame
      /\ i.ret \in {"kSizeError", "kDuplicatePacket", "kCompleteSession",
                    "kDecodableSession", "kIncomplete"}
      /\ i.ret # "kSizeError" => i.frame \in FilledFrame
  BY <1>4, FrameInsertPacketType
<1> HIDE DEF i
<1>7. /\ update.jb \in JB
      /\ Sublist(update.jb.incomplete, g.jb.incomplete)
      /\ Sublist(update.jb.decodable, g.jb.decodable)
      /\ SameFlags(g.jb, update.jb)
  BY <1>3, <1>4, UpdateNackListResult
<1> HIDE DEF update
<1>8. /\ first \in JB /\ first.incomplete = g.jb.incomplete
      /\ first.decodable = g.jb.decodable
      /\ first.running = g.jb.running /\ first.event = g.jb.event
  BY <1>3, <1>4 DEF JB
<1>9. /\ next \in JB /\ next.incomplete = update.jb.incomplete
      /\ next.decodable = update.jb.decodable
      /\ next.running = update.jb.running /\ next.event = update.jb.event
  <2> DEFINE l == LatestSequenceNumber(update.jb.latest, p.seq)
  <2>1. l \in SeqNum
    BY <1>3, <1>7, RingTypes DEF JB
  <2>2. next = [update.jb EXCEPT !.latest = l]
    OBVIOUS
  <2> HIDE DEF l, next
  <2> QED BY <1>7, <2>1, <2>2 DEF JB
<1> HIDE DEF first, next
<1>10. Sublist(g.jb.incomplete, g.jb.incomplete)
       /\ Sublist(g.jb.decodable, g.jb.decodable)
  BY <1>4, CountType, SublistFacts
<1>11. /\ k \in JB /\ Sublist(k.incomplete, g.jb.incomplete)
       /\ Sublist(k.decodable, g.jb.decodable)
       /\ k.running = j.running /\ k.event = j.event
  BY <1>2, <1>4, <1>5, <1>7, <1>8, <1>9, <1>10 DEF Reduced, SameFlags
<1>12. /\ ret \in {"kSizeError", "kDuplicatePacket", "kCompleteSession",
                   "kDecodableSession", "kIncomplete", "kFlushIndicator"}
       /\ ret \in {i.ret, "kFlushIndicator"}
       /\ i.ret = "kSizeError" => ret = "kSizeError"
  BY <1>6
<1> HIDE DEF ret
<1>13. CASE g.ret # "kNoError"
  <2>1. r.jb = g.jb
    BY <1>2, <1>13, SMTT(40)
  <2> QED BY <1>4, <1>5, <1>11, <2>1 DEF r, k, g, i, j0
<1>14. CASE g.ret = "kNoError"
  <2>1. r = PlaceFrame(k, i.frame, p, g.from, g.frame.state, ret)
    BY <1>2, <1>14
  <2>2. p.ts \notin DOMAIN k.decodable /\ p.ts \notin DOMAIN k.incomplete
    BY <1>4, <1>11 DEF Sublist
  <2>3. ret \notin {"kSizeError", "kFlushIndicator"} => i.frame \in FilledFrame
    BY <1>6, <1>12
  <2>4. /\ Placed(k, r.jb, p.ts, i.frame)
        /\ \A G : FramesIn(k, G) /\ <<p.ts, i.frame>> \in G => FramesIn(r.jb, G)
        /\ \/ r.jb.decodable = k.decodable
           \/ ret = "kDuplicatePacket" /\ g.from = "decodable"
           \/ ret = "kDecodableSession"
           \/ /\ ret = "kCompleteSession"
              /\ g.frame.state \notin {"Decodable", "Complete"} => r.jb.event
    <3> DEFINE f == i.frame
               from == g.from
               prev == g.frame.state
               q == PlaceFrame(k, f, p, from, prev, ret)
    <3>1. /\ k \in JB /\ f \in Frame
          /\ from \in {"incomplete", "decodable", "none"}
          /\ ret \notin {"kSizeError", "kFlushIndicator"} => f \in FilledFrame
      BY <1>4, <1>6, <1>11, <2>3
    <3> HIDE DEF f, from, prev
    <3>2. /\ Placed(k, q.jb, p.ts, f)
          /\ \A G : FramesIn(k, G) /\ <<p.ts, f>> \in G => FramesIn(q.jb, G)
          /\ \/ q.jb.decodable = k.decodable
             \/ ret = "kDuplicatePacket" /\ from = "decodable"
             \/ ret = "kDecodableSession"
             \/ /\ ret = "kCompleteSession"
                /\ prev \notin {"Decodable", "Complete"} => q.jb.event
      BY <1>12, <2>2, <3>1, PlaceFrameResult, SMTT(40)
    <3> HIDE DEF q
    <3> QED BY <2>1, <3>2 DEF f, from, prev, q
  <2>5. \/ r.jb.decodable = k.decodable
        \/ g.from = "decodable"
        \/ i.ret = "kDecodableSession"
        \/ /\ i.ret = "kCompleteSession"
           /\ g.frame.state \notin {"Decodable", "Complete"} => r.jb.event
    BY <1>12, <2>4
  <2>6. i.ret = "kSizeError" => /\ r.jb.decodable = k.decodable
                                /\ r.jb.incomplete = k.incomplete
    <3> DEFINE f == i.frame
               from == g.from
               prev == g.frame.state
               q == PlaceFrame(k, f, p, from, prev, "kSizeError")
    <3> HIDE DEF f, from, prev
    <3>1. q.jb.decodable = k.decodable /\ q.jb.incomplete = k.incomplete
      BY <1>11, PlaceOversized
    <3> HIDE DEF q
    <3> QED BY <1>12, <2>1, <3>1 DEF f, from, prev, q
  <2> QED BY <1>4, <1>5, <1>11, <2>4, <2>5, <2>6 DEF r, k, g, i, j0
<1> QED BY <1>13, <1>14

-----------------------------------------------------------------------------
(***************************************************************************)
(* The frames of the jitter buffer, and the one at the decoder, have been  *)
(* assembled from packets of the stream with their timestamp.              *)
(***************************************************************************)
StreamInv ==
    /\ FramesIn(jb, StreamFrames)
    /\ \A h \in held : /\ <<h.ts, h.frame>> \in StreamFrames
                       /\ h.frame.state = "Complete"

\* The decode thread does not wait, unsignaled, while a frame is decodable.
WakeInv == dec = "wait" => jb.event \/ IsEmpty(jb.decodable)

\* The frame that GetFrame has found was assembled.
LEMMA FoundAssembled ==
    ASSUME NEW j, FramesIn(j, StreamFrames), NEW ts, NEW from, NEW f,
           FoundIn(j, ts, from, f)
    PROVE  f \in Assembled(ts)
  BY EmptyAssembled DEF FoundIn, FramesIn, StreamFrames

\* Empty lists hold frames of any kind.
LEMMA EmptyFramesIn ==
    ASSUME NEW j, j.decodable = EmptyList, j.incomplete = EmptyList, NEW G
    PROVE  FramesIn(j, G)
  BY EmptyListType DEF FramesIn

\* InsertPacket keeps the frames assembled, and signals a decodable frame.
LEMMA InsertPacketStream ==
    ASSUME ShortFrames, MarkedFrames, NEW j \in JB, Sound(j),
           FramesIn(j, StreamFrames), NEW p \in Packets
    PROVE  LET k == InsertPacket(j, p).jb
           IN  /\ FramesIn(k, StreamFrames)
               /\ j.event => k.event
               /\ DecodeErrorMode = "kNoErrors" /\ PaddingApart
                  /\ IsEmpty(j.decodable) => k.event \/ IsEmpty(k.decodable)
<1> DEFINE x == InsertPacket(j, p).jb
<1>1. p \in Packet /\ p.ts \in Times
  BY VideoReceiverAssumption DEF Times
<1>2. CASE IsOldTimestamp(j.last, p.ts)
  <2>1. x = InsertOldPacket(j, p).jb
    BY <1>2 DEF InsertPacket
  <2>2. \/ \E l \in JB : x = Flush(l) /\ l.running = j.running /\ l.event = j.event
        \/ /\ x.incomplete = j.incomplete /\ x.decodable = j.decodable
           /\ SameFlags(j, x)
    BY <1>1, <2>1, InsertOldPacketResult
  <2> HIDE DEF x
  <2>3. ASSUME NEW l \in JB, x = Flush(l), l.event = j.event
        PROVE  FramesIn(x, StreamFrames) /\ x.event = j.event /\ IsEmpty(x.decodable)
    BY <2>3, FlushResult, EmptyFramesIn, EmptyListType DEF IsEmpty
  <2> QED BY <2>2, <2>3 DEF FramesIn, SameFlags, x
<1>3. CASE ~IsOldTimestamp(j.last, p.ts)
  <2> DEFINE g == GetFrame([j EXCEPT !.old = 0], p.ts)
             i == FrameInsertPacket(g.frame, p)
             k == Counted(g.jb, p, i.ret)
             r == InsertNewPacket(j, p)
  <2>1. x = r.jb
    BY <1>3 DEF InsertPacket
  <2>2. /\ g.frame \in Frame
        /\ Reduced(j, g.jb) /\ FoundIn(j, p.ts, g.from, g.frame)
        /\ Sublist(k.incomplete, g.jb.incomplete)
        /\ Sublist(k.decodable, g.jb.decodable)
        /\ k.event = j.event
        /\ \/ r.jb = g.jb
           \/ /\ Placed(k, r.jb, p.ts, i.frame)
              /\ \A G : FramesIn(k, G) /\ <<p.ts, i.frame>> \in G
                           => FramesIn(r.jb, G)
              /\ \/ r.jb.decodable = k.decodable
                 \/ g.from = "decodable"
                 \/ i.ret = "kDecodableSession"
                 \/ /\ i.ret = "kCompleteSession"
                    /\ g.frame.state \notin {"Decodable", "Complete"} => r.jb.event
    BY <1>1, InsertNewPacketResult
  <2>3. g.frame \in Assembled(p.ts)
    BY <2>2, FoundAssembled
  <2> HIDE DEF x, g
  <2>4. /\ i.frame \in Assembled(p.ts)
        /\ g.frame.state = "Complete" /\ i.ret = "kCompleteSession"
              => p.type = "empty"
    BY <2>3, InsertAssembled
  <2>5. DecodeErrorMode = "kNoErrors" => i.ret # "kDecodableSession"
    <3>1. DecodeErrorMode = "kNoErrors" => g.frame.state # "Decodable"
      BY <2>2 DEF FoundIn, Sound, OnlyComplete, EmptyFrame
    <3> QED BY <1>1, <2>2, <3>1, FrameInsertPacketState
  <2> HIDE DEF i, k, r
  <2>6. <<p.ts, i.frame>> \in StreamFrames
    BY <1>1, <2>4 DEF StreamFrames, Assembled
  <2>7. FramesIn(g.jb, StreamFrames) /\ FramesIn(k, StreamFrames)
    BY <2>2, ReducedFrames DEF Reduced
  <2>8. FramesIn(x, StreamFrames)
    BY <2>1, <2>2, <2>6, <2>7
  <2>9. j.event => x.event
    BY <2>1, <2>2 DEF Reduced, SameFlags, Placed
  <2>10. ASSUME DecodeErrorMode = "kNoErrors", PaddingApart, IsEmpty(j.decodable)
         PROVE  x.event \/ IsEmpty(x.decodable)
    <3>1. IsEmpty(g.jb.decodable) /\ IsEmpty(k.decodable) /\ g.from # "decodable"
      BY <2>2, <2>10 DEF Reduced, Sublist, IsEmpty, FoundIn
    <3>2. g.frame.state # "Decodable"
      BY <2>2, <2>10 DEF FoundIn, Sound, OnlyComplete, EmptyFrame
    <3>3. ~(g.frame.state = "Complete" /\ i.ret = "kCompleteSession")
      <4> SUFFICES ASSUME g.frame.state = "Complete", i.ret = "kCompleteSession"
                   PROVE  FALSE
        OBVIOUS
      <4>1. PacketsOf(p.ts) = {}
        BY <2>4, <2>10 DEF PaddingApart
      <4>2. g.frame.pkts = {} /\ SessionComplete(g.frame)
        BY <2>3, <4>1 DEF Assembled
      <4> QED BY <4>2 DEF SessionComplete, HaveFirstPacket
    <3> QED BY <2>1, <2>2, <2>5, <2>10, <3>1, <3>2, <3>3
  <2> QED BY <2>8, <2>9, <2>10 DEF x
<1> QED BY <1>2, <1>3

\* CleanUpOldOrEmptyFrames, once or twice.
LEMMA CleanUpTwice ==
    ASSUME NEW j \in JB, NEW k,
           k \in {CleanUpOldOrEmptyFrames(j),
                  CleanUpOldOrEmptyFrames(CleanUpOldOrEmptyFrames(j))}
    PROVE  /\ k \in JB
           /\ Sublist(k.incomplete, j.incomplete)
           /\ Sublist(k.decodable, j.decodable)
           /\ SameFlags(j, k)
<1> DEFINE c == CleanUpOldOrEmptyFrames(j)
           d == CleanUpOldOrEmptyFrames(c)
<1>1. /\ c \in JB /\ Sublist(c.incomplete, j.incomplete)
      /\ Sublist(c.decodable, j.decodable) /\ SameFlags(j, c)
  BY CleanUpResult
<1>2. k \in {c, d}
  OBVIOUS
<1> HIDE DEF c
<1>3. /\ d \in JB /\ Sublist(d.incomplete, c.incomplete)
      /\ Sublist(d.decodable, c.decodable) /\ SameFlags(c, d)
  BY <1>1, CleanUpResult
<1> HIDE DEF d
<1> QED BY <1>1, <1>2, <1>3 DEF Sublist, SameFlags

\* What the steps other than InsertPacket and Extract may do to the buffer.
LEMMA OtherSteps ==
    ASSUME IInv, Next, ~(\E p \in Packets : IncomingPacket(p)), ~Extract
    PROVE  /\ held' = held \/ held' = {}
           /\ \/ jb'.event = jb.event \/ jb'.event
              \/ dec' # "wait"
           /\ Sublist(jb'.incomplete, jb.incomplete)
           /\ Sublist(jb'.decodable, jb.decodable)
           /\ \/ dec' # "wait" \/ dec = "wait"
              \/ /\ CompleteFront(CleanUpOldOrEmptyFrames(jb)) = {}
                 /\ jb' = CleanUpOldOrEmptyFrames(jb)
<1>1. jb \in JB
  BY JBDef DEF IInv, MainInv, TypeOK
<1>2. Sublist(jb.incomplete, jb.incomplete) /\ Sublist(jb.decodable, jb.decodable)
  BY <1>1, CountType, SublistFacts
<1>3. CASE AdmitPacket \/ ResetKeyRequest \/ WaitTimedOut \/ NotDueYet
            \/ StopReceive \/ JoinDecodeThread \/ StartDecodeThread \/ StartReceive
  BY <1>2, <1>3 DEF AdmitPacket, ResetKeyRequest, WaitTimedOut, NotDueYet,
     StopReceive, JoinDecodeThread, StartDecodeThread, StartReceive
<1>4. CASE FlushIndicated \/ ResetAfterStop
  <2>1. jb' \in {jb, Start(jb), Flush(jb)} /\ held' = held /\ dec' = dec
    BY <1>4 DEF FlushIndicated, ResetAfterStop, ResetDecoder
  <2>2. Shrinks(jb, Start(jb)) /\ Shrinks(jb, Flush(jb))
    BY <1>1, StartShrinks, StopFlushShrink
  <2>3. Start(jb).event = jb.event
    BY <1>1 DEF Start, JB
  <2>4. Flush(jb).event = jb.event
    BY <1>1, FlushResult
  <2> QED BY <1>2, <2>1, <2>2, <2>3, <2>4 DEF Shrinks
<1>5. CASE NextComplete
  <2> DEFINE j == CleanUpOldOrEmptyFrames(jb)
             k == CleanUpOldOrEmptyFrames(j)
  <2>1. held' = held
    BY <1>5 DEF NextComplete
  <2>2. /\ jb' \in {jb, j, k}
        /\ \/ dec' # "wait"
           \/ CompleteFront(j) = {} /\ jb' = j
    BY <1>5 DEF NextComplete, ReturnTimestamp
  <2>3. /\ Sublist(j.incomplete, jb.incomplete) /\ Sublist(j.decodable, jb.decodable)
        /\ Sublist(k.incomplete, jb.incomplete) /\ Sublist(k.decodable, jb.decodable)
        /\ SameFlags(jb, j) /\ SameFlags(jb, k)
    BY <1>1, CleanUpTwice
  <2> HIDE DEF j, k
  <2> QED BY <1>2, <2>1, <2>2, <2>3 DEF SameFlags, j
<1>6. CASE LastLook
  <2>1. /\ held' = held /\ jb' = CleanUpOldOrEmptyFrames(jb) /\ dec' # "wait"
    BY <1>6 DEF LastLook, ReturnTimestamp
  <2>2. Sublist(jb'.incomplete, jb.incomplete) /\ Sublist(jb'.decodable, jb.decodable)
    BY <1>1, <2>1, CleanUpTwice
  <2> QED BY <2>1, <2>2
<1>7. CASE WaitSignaled
  <2>1. held' = held /\ dec' = "check" /\ jb' = [jb EXCEPT !.event = FALSE]
    BY <1>7 DEF WaitSignaled
  <2>2. jb'.incomplete = jb.incomplete /\ jb'.decodable = jb.decodable
    BY <1>1, <2>1 DEF JB
  <2> QED BY <1>2, <2>1, <2>2
<1>8. CASE TimingError
  <2>1. held' = held /\ dec' = "idle" /\ jb' = Flush(jb)
    BY <1>8 DEF TimingError
  <2>2. Shrinks(jb, Flush(jb))
    BY <1>1, StopFlushShrink
  <2> QED BY <2>1, <2>2 DEF Shrinks
<1>9. CASE DecodeFrame
  <2>1. held' = {} /\ dec' = "idle" /\ jb' = ReleaseFrame(jb)
    BY <1>9 DEF DecodeFrame
  <2>2. jb'.incomplete = jb.incomplete /\ jb'.decodable = jb.decodable
    BY <1>1, <2>1 DEF JB, ReleaseFrame
  <2> QED BY <1>2, <2>1, <2>2
<1>10. CASE ProcessNackList
  <2>1. held' = held /\ dec' = dec /\ jb' = GetNackList(jb).jb
    BY <1>10 DEF ProcessNackList
  <2>2. Reduced(jb, jb')
    BY <1>1, <2>1, GetNackListReduces
  <2> QED BY <2>1, <2>2 DEF Reduced, SameFlags
<1>11. CASE TriggerDecoderShutdown
  <2>1. held' = held /\ dec' = dec /\ jb' = Stop(jb)
    BY <1>11 DEF TriggerDecoderShutdown
  <2>2. Shrinks(jb, Stop(jb))
    BY <1>1, StopFlushShrink
  <2>3. Stop(jb).event = TRUE
    BY <1>1, FreeAllFramesType DEF Stop, JB
  <2> QED BY <2>1, <2>2, <2>3 DEF Shrinks
<1> QED BY <1>3, <1>4, <1>5, <1>6, <1>7, <1>8, <1>9, <1>10, <1>11
        DEF Next, Network, DecodeThread, ApiThread

\* Both hold initially.
LEMMA StreamInit == Init => StreamInv /\ WakeInv
<1> SUFFICES ASSUME Init PROVE StreamInv /\ WakeInv
  OBVIOUS
<1>1. jb.decodable = EmptyList /\ jb.incomplete = EmptyList
  BY DEF Init, Start, NewJB
<1>2. held = {} /\ dec = "idle"
  BY DEF Init
<1> QED BY <1>1, <1>2, EmptyFramesIn DEF StreamInv, WakeInv

\* Every step keeps the frames assembled.
LEMMA StreamStep ==
    ASSUME ShortFrames, MarkedFrames, IInv, StreamInv, Next
    PROVE  StreamInv'
<1>1. jb \in JB /\ Sound(jb)
  BY JBDef DEF IInv, MainInv, TypeOK, BufferInv
<1>2. ASSUME NEW p \in Packets, IncomingPacket(p)
      PROVE  StreamInv'
  <2>1. jb' = InsertPacket(jb, p).jb /\ held' = held
    BY <1>2 DEF IncomingPacket
  <2>2. FramesIn(jb', StreamFrames)
    BY <1>1, <2>1, InsertPacketStream DEF StreamInv
  <2> QED BY <2>1, <2>2 DEF StreamInv
<1>3. CASE Extract
  <2> DEFINE r == ExtractAndSetDecode(jb, decTs)
  <2>1. jb' = r.jb /\ held' = r.frames
    BY <1>3 DEF Extract
  <2>2. /\ r.jb.incomplete = jb.incomplete /\ Sublist(r.jb.decodable, jb.decodable)
        /\ \/ r.frames = {}
           \/ \E t \in DOMAIN jb.decodable :
                 /\ r.frames = {[ts |-> t, frame |-> jb.decodable[t],
                       continuous |-> ContinuousFrame(jb.last, jb.decodable[t])]}
                 /\ jb.decodable[t].state = "Complete"
    BY <1>1, ExtractResult
  <2> HIDE DEF r
  <2>3. FramesIn(jb', StreamFrames)
    BY <2>1, <2>2 DEF StreamInv, FramesIn, Sublist
  <2>4. \A h \in held' : /\ <<h.ts, h.frame>> \in StreamFrames
                         /\ h.frame.state = "Complete"
    <3>1. ASSUME NEW t \in DOMAIN jb.decodable, NEW c,
                 r.frames = {[ts |-> t, frame |-> jb.decodable[t], continuous |-> c]},
                 jb.decodable[t].state = "Complete"
          PROVE  \A h \in r.frames : /\ <<h.ts, h.frame>> \in StreamFrames
                                     /\ h.frame.state = "Complete"
      <4>1. <<t, jb.decodable[t]>> \in StreamFrames
        BY DEF StreamInv, FramesIn
      <4>2. \A h \in r.frames : h.ts = t /\ h.frame = jb.decodable[t]
        BY <3>1
      <4> QED BY <3>1, <4>1, <4>2
    <3>2. CASE r.frames = {}
      BY <2>1, <3>2
    <3> QED BY <2>1, <2>2, <3>1, <3>2
  <2> QED BY <2>3, <2>4 DEF StreamInv
<1>4. CASE ~(\E p \in Packets : IncomingPacket(p)) /\ ~Extract
  <2>1. /\ held' = held \/ held' = {}
        /\ Sublist(jb'.incomplete, jb.incomplete)
        /\ Sublist(jb'.decodable, jb.decodable)
    BY <1>4, OtherSteps
  <2>2. FramesIn(jb', StreamFrames)
    BY <2>1, ReducedFrames DEF StreamInv
  <2> QED BY <2>1, <2>2 DEF StreamInv
<1> QED BY <1>2, <1>3, <1>4

\* In decodable_frames_ every frame is complete, so one of them is at the front.
LEMMA FrontExists ==
    ASSUME ShortTimes, DecodeErrorMode = "kNoErrors", NEW j, Sound(j),
           FramesIn(j, StreamFrames), CompleteFront(j) = {}
    PROVE  IsEmpty(j.decodable)
<1> SUFFICES ASSUME DOMAIN j.decodable # {} PROVE FALSE
  BY DEF IsEmpty
<1>1. DOMAIN j.decodable \subseteq Times
  BY DEF FramesIn, StreamFrames
<1>2. PICK t \in DOMAIN j.decodable :
         \A u \in DOMAIN j.decodable : ~IsNewerTimestamp(t, u)
  BY <1>1, OldestExists
<1>3. j.decodable[t].state = "Complete"
  BY DEF Sound, OnlyComplete
<1> QED BY <1>2, <1>3 DEF CompleteFront, IsFront

\* Every step keeps the decode thread from missing a frame.
LEMMA WakeStep ==
    ASSUME DecodeErrorMode = "kNoErrors", ShortFrames, MarkedFrames, PaddingApart,
           ShortTimes, IInv, StreamInv, WakeInv, Next
    PROVE  WakeInv'
<1>1. jb \in JB /\ Sound(jb)
  BY JBDef DEF IInv, MainInv, TypeOK, BufferInv
<1>2. ASSUME NEW p \in Packets, IncomingPacket(p)
      PROVE  WakeInv'
  <2>1. jb' = InsertPacket(jb, p).jb /\ dec' = dec
    BY <1>2 DEF IncomingPacket
  <2>2. /\ jb.event => jb'.event
        /\ IsEmpty(jb.decodable) => jb'.event \/ IsEmpty(jb'.decodable)
    BY <1>1, <2>1, InsertPacketStream DEF StreamInv
  <2> QED BY <2>1, <2>2 DEF WakeInv
<1>3. CASE Extract
  <2>1. dec' # "wait"
    BY <1>3 DEF Extract
  <2> QED BY <2>1 DEF WakeInv
<1>4. CASE ~(\E p \in Packets : IncomingPacket(p)) /\ ~Extract
  <2>1. /\ jb'.event = jb.event \/ jb'.event \/ dec' # "wait"
        /\ Sublist(jb'.incomplete, jb.incomplete)
        /\ Sublist(jb'.decodable, jb.decodable)
        /\ \/ dec' # "wait" \/ dec = "wait"
           \/ /\ CompleteFront(CleanUpOldOrEmptyFrames(jb)) = {}
              /\ jb' = CleanUpOldOrEmptyFrames(jb)
    BY <1>4, OtherSteps
  <2>2. FramesIn(jb', StreamFrames) /\ Sound(jb')
    BY <1>1, <2>1, ReducedFrames, SublistSound DEF StreamInv
  <2>3. CASE dec' # "wait"
    BY <2>3 DEF WakeInv
  <2>4. CASE dec = "wait"
    BY <2>1, <2>4 DEF WakeInv, Sublist, IsEmpty
  <2>5. CASE CompleteFront(jb') = {}
    BY <2>2, <2>5, FrontExists DEF WakeInv
  <2> QED BY <2>1, <2>3, <2>4, <2>5
<1> QED BY <1>2, <1>3, <1>4

\* What the decoder gets is a whole frame: ExtractAndSetDecode hands out no frame
\* that lacks one of its packets, in both decode error modes and however the
\* packets are lost, duplicated or reordered, as long as the sender marks the
\* ends of its frames and no frame spans half of the sequence numbers.
THEOREM FramesAreWhole ==
    ASSUME ShortFrames, MarkedFrames
    PROVE  Spec => []DecodedWhole
<1>1. Init => StreamInv
  BY StreamInit
<1>2. IInv /\ StreamInv /\ [Next]_vars => StreamInv'
  <2>1. CASE Next
    BY <2>1, StreamStep
  <2>2. CASE UNCHANGED vars
    BY <2>2 DEF vars, StreamInv, FramesIn
  <2> QED BY <2>1, <2>2
<1>3. StreamInv => DecodedWhole
  <2> SUFFICES ASSUME StreamInv, NEW h \in held, NEW p \in Packets,
                      p.ts = h.ts, p.type # "empty"
               PROVE  p.seq \in h.frame.pkts
    BY DEF DecodedWhole
  <2>1. /\ h.frame \in Assembled(h.ts) /\ h.frame.state = "Complete"
    BY DEF StreamInv, StreamFrames
  <2>2. SessionComplete(h.frame) /\ p \in PacketsOf(h.ts)
    BY <2>1 DEF Assembled, PacketsOf, Media
  <2>3. h.ts \in Timestamp
    BY VideoReceiverAssumption DEF Packet
  <2> QED BY <2>1, <2>2, <2>3, WholeFrame
<1> QED BY <1>1, <1>2, <1>3, Invariance, PTL DEF Spec

\* The decode thread never waits for frame_event_ while a complete frame is at
\* the front of decodable_frames_: what NextCompleteTimestamp has looked at
\* before its wait is still true, or InsertPacket has set the event since.
\* Padding must not carry the timestamp of a frame: InsertPacket sets no event
\* when padding makes it move a frame that was complete before.
THEOREM NoFrameIsMissed ==
    ASSUME DecodeErrorMode = "kNoErrors", ShortFrames, MarkedFrames, PaddingApart,
           ShortTimes
    PROVE  Spec => []NoLostWakeup
<1>1. Init => StreamInv /\ WakeInv
  BY StreamInit
<1>2. IInv /\ StreamInv /\ WakeInv /\ [Next]_vars => StreamInv' /\ WakeInv'
  <2>1. CASE Next
    BY <2>1, StreamStep, WakeStep
  <2>2. CASE UNCHANGED vars
    BY <2>2 DEF vars, StreamInv, FramesIn, WakeInv
  <2> QED BY <2>1, <2>2
<1>3. WakeInv => NoLostWakeup
  BY DEF WakeInv, NoLostWakeup, CompleteFront, IsEmpty
<1> QED BY <1>1, <1>2, <1>3, Invariance, PTL DEF Spec

-----------------------------------------------------------------------------
(***************************************************************************)
(* The NACK list, up to the first StopReceive and for a stream of less     *)
(* than half of the sequence numbers.                                      *)
(***************************************************************************)
ShortNumbers ==
    \E b \in SeqNum : \A p \in Packets : Ahead(p.seq, b, SeqMod) < SeqMod \div 2

\* The place of s in a stream that starts at b, and the half that it spans.
At(s, b) == Ahead(s, b, SeqMod)

Near(b) == {s \in SeqNum : At(s, b) < SeqMod \div 2}

\* The numbers up to n.
NotAfter(b, n) == {s \in Near(b) : At(s, b) <= At(n, b)}

\* Frames, with their timestamps, of packets up to n that are not in M.
Received(b, n, M) ==
    {tf \in Times \X Frame :
        /\ tf[2].pkts \subseteq NotAfter(b, n) \ M
        /\ tf[2].pkts # {} => tf[2].back \in NotAfter(b, n)
        /\ tf[2].ehigh # NoSeq => tf[2].ehigh \in NotAfter(b, n)}

NackGood(j, b) ==
    \* Nothing is known after a reset.
    /\ j.fresh => /\ IsEmpty(j.decodable) /\ IsEmpty(j.incomplete)
                  /\ j.missing = {} /\ j.last.initial
    /\ ~j.fresh => j.latest \in Near(b)
    /\ NackMode = "kNoNack" => j.missing = {}
    \* The packets that wait were received and are not missing.
    /\ FramesIn(j, Received(b, j.latest, j.missing))
    \* What is missing is older than what was received, and not too old.
    /\ j.missing \subseteq NotAfter(b, j.latest) \ {j.latest}
    /\ ShortTimes => YoungEnough(j.missing, j.latest)
    \* A late packet can take the decoding state beyond latest.
    /\ ~j.last.initial => /\ j.last.seq \in Near(b)
                          /\ j.last.seq \in NotAfter(b, j.latest) \/ j.missing = {}

\* On its half of the ring, the place decides which number is newer.
LEMMA NearOrder ==
    ASSUME NEW b \in SeqNum, NEW x \in Near(b), NEW y \in Near(b)
    PROVE  /\ x \in SeqNum /\ At(x, b) \in Nat
           /\ IsNewerSequenceNumber(x, y) <=> At(y, b) < At(x, b)
           /\ At(x, b) = At(y, b) => x = y
           /\ At(y, b) <= At(x, b) => Ahead(x, y, SeqMod) = At(x, b) - At(y, b)
           /\ LatestSequenceNumber(x, y) \in {x, y}
           /\ At(x, b) <= At(LatestSequenceNumber(x, y), b)
           /\ At(y, b) <= At(LatestSequenceNumber(x, y), b)
<1>1. /\ x \in SeqNum /\ y \in SeqNum
      /\ Ahead(x, b, SeqMod) < SeqMod \div 2 /\ Ahead(y, b, SeqMod) < SeqMod \div 2
  BY DEF Near, At
<1>2. /\ At(x, b) \in Nat /\ At(y, b) \in Nat
      /\ IsNewerSequenceNumber(x, y) <=> At(y, b) < At(x, b)
      /\ At(x, b) = At(y, b) => x = y
      /\ At(y, b) <= At(x, b) => Ahead(x, y, SeqMod) = At(x, b) - At(y, b)
  BY <1>1, SeqOrder DEF At
<1>3. LatestSequenceNumber(x, y) = IF IsNewerSequenceNumber(x, y) THEN x ELSE y
  BY DEF LatestSequenceNumber
<1>4. /\ LatestSequenceNumber(x, y) \in {x, y}
      /\ At(x, b) <= At(LatestSequenceNumber(x, y), b)
      /\ At(y, b) <= At(LatestSequenceNumber(x, y), b)
  BY <1>2, <1>3
<1> QED BY <1>1, <1>2, <1>4

\* The remainder of a number in the second round of the ring.
LEMMA SecondRound ==
    ASSUME NEW m \in Nat, m > 1, NEW a \in 0 .. m - 1, NEW n \in 0 .. m - 1,
           a + n >= m
    PROVE  (a + n) % m = a + n - m
<1> DEFINE b == m - n
<1>1. b \in 0 .. m /\ a - b \in 0 .. m - 1 /\ a - b + m = a + n
  OBVIOUS
<1>2. (a - b) % m = a - b
  BY <1>1
<1>3. (a - b + m) % m = (a - b) % m
  BY <1>1
<1> QED BY <1>1, <1>2, <1>3

\* What lies between two numbers of the half.
LEMMA BetweenNear ==
    ASSUME NEW b \in SeqNum, NEW x \in Near(b), NEW y \in Near(b),
           At(x, b) < At(y, b), NEW s \in SeqBetween(x, y)
    PROVE  s \in Near(b) /\ At(x, b) < At(s, b) /\ At(s, b) < At(y, b)
<1> DEFINE m == SeqMod
           h == m \div 2
<1>1. m \in Nat /\ m > 1 /\ h \in Nat /\ 2 * h <= m
  BY ModAssumption
<1>2. /\ b \in 0 .. m - 1 /\ x \in 0 .. m - 1 /\ y \in 0 .. m - 1
      /\ At(x, b) < h /\ At(y, b) < h
  BY DEF Near, SeqNum
<1>3. Ahead(y, x, m) = At(y, b) - At(x, b) /\ At(x, b) \in Nat /\ At(y, b) \in Nat
  BY NearOrder
<1>4. PICK n \in 1 .. (Ahead(y, x, m) - 1) : s = (x + n) % m
  BY DEF SeqBetween
<1>5. n \in Nat /\ n >= 1 /\ n < At(y, b) - At(x, b)
  BY <1>3, <1>4
<1>6. At(x, b) = IF x >= b THEN x - b ELSE x - b + m
  BY <1>1, <1>2, AheadValue DEF At
<1> HIDE DEF m, h
<1>7. s = IF x + n < m THEN x + n ELSE x + n - m
  <2>1. CASE x + n < m
    BY <1>1, <1>2, <1>4, <1>5, <2>1
  <2>2. CASE x + n >= m
    <3>1. n \in 0 .. m - 1
      BY <1>1, <1>2, <1>3, <1>5
    <3>2. (x + n) % m = x + n - m
      BY <1>1, <1>2, <2>2, <3>1, SecondRound
    <3> QED BY <1>1, <1>2, <1>4, <1>5, <2>2, <3>2
  <2> QED BY <1>1, <1>2, <1>5, <2>1, <2>2
<1>8. s \in 0 .. m - 1
  BY <1>1, <1>2, <1>3, <1>5, <1>7
<1>9. At(s, b) = IF s >= b THEN s - b ELSE s - b + m
  BY <1>1, <1>2, <1>8, AheadValue DEF At, m
<1>10. At(s, b) = At(x, b) + n
  BY <1>1, <1>2, <1>3, <1>5, <1>6, <1>7, <1>8, <1>9
<1>11. s \in SeqNum /\ At(s, b) < h /\ At(x, b) < At(s, b) /\ At(s, b) < At(y, b)
  BY <1>1, <1>2, <1>3, <1>5, <1>8, <1>10 DEF SeqNum, m
<1> QED BY <1>11 DEF Near, m, h

\* What was received stays received, and does not become missing.
LEMMA ReceivedGrows ==
    ASSUME NEW b \in SeqNum, NEW n \in Near(b), NEW q \in Near(b),
           At(n, b) <= At(q, b), NEW M, NEW N,
           \A s \in N : s \in M \/ s \notin NotAfter(b, n)
    PROVE  NotAfter(b, n) \subseteq NotAfter(b, q)
           /\ Received(b, n, M) \subseteq Received(b, q, N)
<1>1. NotAfter(b, n) \subseteq NotAfter(b, q)
  <2>1. ASSUME NEW s \in Near(b), At(s, b) <= At(n, b)
        PROVE  At(s, b) <= At(q, b)
    BY <2>1, NearOrder
  <2> QED BY <2>1 DEF NotAfter
<1> QED BY <1>1 DEF Received

\* The highest number of a frame was received.
LEMMA HighReceived ==
    ASSUME NEW b, NEW n, NEW M, NEW tf \in Received(b, n, M),
           tf[2] \in FilledFrame
    PROVE  HighSequenceNumber(tf[2]) \in NotAfter(b, n)
  BY DEF Received, HighSequenceNumber, LatestSequenceNumber, FilledFrame, HasSeqNum

\* Inserting a packet into a frame.
LEMMA InsertReceived ==
    ASSUME NEW b \in SeqNum, NEW p \in Packet, NEW f, NEW n, NEW M,
           <<p.ts, f>> \in Received(b, n, M)
    PROVE  LET r == FrameInsertPacket(f, p)
           IN  IF r.ret = "kSizeError" THEN <<p.ts, r.frame>> \in Received(b, n, M)
               ELSE p.seq \in NotAfter(b, n) \ M
                       => <<p.ts, r.frame>> \in Received(b, n, M)
<1> DEFINE r == FrameInsertPacket(f, p)
           f0 == [f EXCEPT !.state = IF @ = "Empty" /\ p.type # "empty"
                                     THEN "Incomplete" ELSE @]
           f1 == IF p.type = "empty" THEN InformOfEmptyPacket(f0, p.seq)
                                     ELSE InsertMediaPacket(f0, p)
           Alike(g) == g.pkts = f.pkts /\ g.back = f.back /\ g.ehigh = f.ehigh
<1>1. /\ f \in Frame /\ p.ts \in Times /\ f.pkts \subseteq NotAfter(b, n) \ M
      /\ f.pkts # {} => f.back \in NotAfter(b, n)
      /\ f.ehigh # NoSeq => f.ehigh \in NotAfter(b, n)
  BY DEF Received
<1>2. r.frame \in Frame
  BY <1>1, FrameInsertPacketType
<1>3. \/ r.frame = f0
      \/ r.ret # "kSizeError" /\ r.frame \in {f1, [f1 EXCEPT !.state = "Complete"],
                                              [f1 EXCEPT !.state = "Decodable"]}
  BY DEF FrameInsertPacket
<1>4. f0 \in Frame /\ f0.pkts = f.pkts /\ f0.back = f.back /\ f0.ehigh = f.ehigh
  BY <1>1 DEF Frame, FrameState
<1> HIDE DEF r, f0
<1>5. f1 \in Frame
  BY <1>4, InformOfEmptyPacketType, InsertMediaPacketType DEF Packet, FilledFrame
<1>6. /\ f1.pkts \in {f.pkts, f.pkts \cup {p.seq}}
      /\ \/ f1.pkts = f.pkts /\ f1.back = f.back
         \/ f1.back = p.seq
         \/ f.pkts # {} /\ f1.back = f.back
      /\ f1.ehigh \in {f.ehigh, p.seq}
  <2>1. CASE p.type = "empty"
    BY <1>4, <2>1 DEF InformOfEmptyPacket, Frame, LatestSequenceNumber
  <2>2. CASE p.type # "empty"
    BY <1>4, <2>2 DEF InsertMediaPacket, Frame, LatestSequenceNumber
  <2> QED BY <2>1, <2>2
<1> HIDE DEF f1
<1>7. /\ [f1 EXCEPT !.state = "Complete"].pkts = f1.pkts
      /\ [f1 EXCEPT !.state = "Complete"].back = f1.back
      /\ [f1 EXCEPT !.state = "Complete"].ehigh = f1.ehigh
      /\ [f1 EXCEPT !.state = "Decodable"].pkts = f1.pkts
      /\ [f1 EXCEPT !.state = "Decodable"].back = f1.back
      /\ [f1 EXCEPT !.state = "Decodable"].ehigh = f1.ehigh
  BY <1>5 DEF Frame
<1>8. CASE r.frame = f0
  <2>1. <<p.ts, f0>> \in Received(b, n, M)
    BY <1>1, <1>4 DEF Received
  <2> QED BY <1>8, <2>1 DEF r
<1>9. CASE r.ret # "kSizeError" /\ r.frame \in {f1, [f1 EXCEPT !.state = "Complete"],
                                              [f1 EXCEPT !.state = "Decodable"]}
  <2>1. r.frame.pkts = f1.pkts /\ r.frame.back = f1.back /\ r.frame.ehigh = f1.ehigh
    BY <1>7, <1>9
  <2>2. p.seq \in NotAfter(b, n) \ M => <<p.ts, r.frame>> \in Received(b, n, M)
    BY <1>1, <1>2, <1>6, <2>1 DEF Received
  <2> QED BY <1>9, <2>2 DEF r
<1> QED BY <1>3, <1>8, <1>9

\* Frames and missing packets may go, and the decoding state may move to
\* what was received, or beyond it when nothing is missing.
LEMMA NackReduced ==
    ASSUME NEW b \in SeqNum, NEW j, NackGood(j, b), NEW k,
           Sublist(k.incomplete, j.incomplete), Sublist(k.decodable, j.decodable),
           k.missing \subseteq j.missing, k.latest = j.latest, k.fresh = j.fresh,
           j.fresh => k.last.initial,
           ~k.last.initial => /\ k.last.seq \in Near(b)
                              /\ \/ k.last.seq \in NotAfter(b, j.latest)
                                 \/ k.missing = {}
    PROVE  NackGood(k, b)
<1>1. Received(b, j.latest, j.missing) \subseteq Received(b, k.latest, k.missing)
  BY DEF Received
<1>2. FramesIn(j, Received(b, k.latest, k.missing))
  BY <1>1 DEF NackGood, FramesIn
<1>3. FramesIn(k, Received(b, k.latest, k.missing))
  BY <1>2, ReducedFrames
<1>4. IsEmpty(j.decodable) => IsEmpty(k.decodable)
  BY DEF IsEmpty, Sublist
<1>5. IsEmpty(j.incomplete) => IsEmpty(k.incomplete)
  BY DEF IsEmpty, Sublist
<1>6. YoungEnough(j.missing, j.latest) => YoungEnough(k.missing, k.latest)
  BY DEF YoungEnough
<1> QED BY <1>3, <1>4, <1>5, <1>6 DEF NackGood

\* After Reset, Flush or Start.
LEMMA NackFresh ==
    ASSUME NEW b, NEW k, k.decodable = EmptyList, k.incomplete = EmptyList,
           k.missing = {}, k.last.initial, k.fresh
    PROVE  NackGood(k, b)
<1>1. FramesIn(k, Received(b, k.latest, k.missing))
  BY EmptyFramesIn
<1>2. YoungEnough(k.missing, k.latest)
  BY DEF YoungEnough
<1> QED BY <1>1, <1>2, EmptyListType DEF NackGood, IsEmpty

\* What is older than a decoded number leaves the list; beyond latest, all do.
LEMMA DropReceived ==
    ASSUME NEW b \in SeqNum, NEW n \in Near(b), NEW M, M \subseteq NotAfter(b, n),
           NEW s \in Near(b)
    PROVE  s \in NotAfter(b, n) \/ DropPackets(M, s) = {}
<1> SUFFICES ASSUME s \notin NotAfter(b, n), NEW m \in M,
                    IsNewerSequenceNumber(m, s)
             PROVE  FALSE
  BY DEF DropPackets
<1>1. m \in Near(b) /\ At(m, b) <= At(n, b)
  BY DEF NotAfter
<1>2. At(s, b) < At(m, b)
  BY <1>1, NearOrder
<1>3. At(s, b) \in Nat /\ At(m, b) \in Nat /\ At(n, b) \in Nat
  BY <1>1, NearOrder
<1> QED BY <1>1, <1>2, <1>3 DEF NotAfter

\* The position that UpdateNackList counts from.
LEMMA ReachedNear ==
    ASSUME NEW b \in SeqNum, NEW h, NackGood(h, b), ~h.fresh
    PROVE  /\ h.latest \in Near(b) /\ Reached(h) \in Near(b)
           /\ At(h.latest, b) <= At(Reached(h), b)
           /\ ~h.last.initial => /\ h.last.seq \in Near(b)
                                 /\ At(h.last.seq, b) <= At(Reached(h), b)
           /\ Reached(h) = h.latest \/ h.missing = {}
<1>1. h.latest \in Near(b)
  BY DEF NackGood
<1>2. CASE h.last.initial
  <2>1. Reached(h) = h.latest /\ At(h.latest, b) \in Nat
    BY <1>1, <1>2, NearOrder DEF Reached
  <2> QED BY <1>1, <1>2, <2>1
<1>3. CASE ~h.last.initial
  <2>1. /\ Reached(h) = LatestSequenceNumber(h.latest, h.last.seq)
        /\ h.last.seq \in Near(b)
        /\ h.last.seq \in NotAfter(b, h.latest) \/ h.missing = {}
    BY <1>3 DEF Reached, NackGood
  <2>2. /\ Reached(h) \in {h.latest, h.last.seq}
        /\ At(h.latest, b) <= At(Reached(h), b)
        /\ At(h.last.seq, b) <= At(Reached(h), b)
        /\ At(h.latest, b) \in Nat /\ At(h.last.seq, b) \in Nat
        /\ At(h.latest, b) = At(h.last.seq, b) => h.latest = h.last.seq
    BY <1>1, <2>1, NearOrder
  <2>3. h.last.seq \in NotAfter(b, h.latest) => Reached(h) = h.latest
    BY <2>2 DEF NotAfter
  <2> QED BY <1>1, <1>3, <2>1, <2>2, <2>3
<1> QED BY <1>2, <1>3

\* The NACK list once UpdateNackList and the new latest number are in place.
LEMMA UpdateCounts ==
    ASSUME NEW b \in SeqNum, NEW h \in JB, NackGood(h, b), ~h.fresh,
           NackMode # "kNoNack", NEW seq \in Near(b)
    PROVE  LET u == UpdateNackList(h, seq).jb
               M == u.missing
               n == LatestSequenceNumber(u.latest, seq)
           IN  /\ n \in Near(b)
               /\ At(Reached(h), b) <= At(n, b) /\ At(seq, b) <= At(n, b)
               /\ M \subseteq NotAfter(b, n) \ {n, seq}
               /\ \A s \in M : s \in h.missing \/ s \notin NotAfter(b, h.latest)
               /\ ShortTimes => YoungEnough(M, n)
<1> DEFINE u == UpdateNackList(h, seq).jb
           M == u.missing
           n == LatestSequenceNumber(u.latest, seq)
           R == Reached(h)
<1>1. /\ h.latest \in Near(b) /\ R \in Near(b) /\ At(h.latest, b) <= At(R, b)
      /\ R = h.latest \/ h.missing = {}
  BY ReachedNear
<1>2. seq \in SeqNum /\ DOMAIN h.incomplete \subseteq Times
  BY DEF Near, NackGood, FramesIn, Received
<1>3. /\ u.latest = R
      /\ IF IsNewerSequenceNumber(seq, R)
         THEN M \subseteq h.missing \cup SeqBetween(R, seq)
         ELSE M = h.missing \ {seq}
      /\ IsNewerSequenceNumber(seq, R) /\ ShortTimes => YoungEnough(M, seq)
      /\ n = LatestSequenceNumber(R, seq)
  BY <1>2, UpdateNackListResult
<1> HIDE DEF R, u, M, n
<1>4. /\ At(R, b) \in Nat /\ At(seq, b) \in Nat /\ At(h.latest, b) \in Nat
      /\ IsNewerSequenceNumber(seq, R) <=> At(R, b) < At(seq, b)
      /\ IsNewerSequenceNumber(R, seq) <=> At(seq, b) < At(R, b)
      /\ At(R, b) = At(seq, b) => R = seq
      /\ At(R, b) = At(h.latest, b) => R = h.latest
  BY <1>1, NearOrder
<1>5. ASSUME NEW s \in h.missing
      PROVE  s \in Near(b) /\ At(s, b) \in Nat /\ At(s, b) < At(h.latest, b)
  <2>1. s \in Near(b) /\ At(s, b) <= At(h.latest, b) /\ s # h.latest
    BY DEF NackGood, NotAfter
  <2>2. At(s, b) \in Nat /\ (At(s, b) = At(h.latest, b) => s = h.latest)
    BY <1>1, <2>1, NearOrder
  <2> QED BY <1>4, <2>1, <2>2
<1>6. CASE IsNewerSequenceNumber(seq, R)
  <2>1. n = seq
    BY <1>3, <1>4, <1>6 DEF LatestSequenceNumber
  <2>2. ASSUME NEW s \in M
        PROVE  /\ s \in Near(b) /\ At(s, b) < At(seq, b)
               /\ s \in h.missing \/ s \notin NotAfter(b, h.latest)
    <3>1. CASE s \in h.missing
      BY <1>1, <1>4, <1>5, <1>6, <3>1
    <3>2. CASE s \in SeqBetween(R, seq)
      <4>1. s \in Near(b) /\ At(R, b) < At(s, b) /\ At(s, b) < At(seq, b)
        BY <1>1, <1>4, <1>6, <3>2, BetweenNear
      <4>2. At(s, b) \in Nat
        BY <4>1, NearOrder
      <4>3. s \notin NotAfter(b, h.latest)
        BY <1>1, <1>4, <4>1, <4>2 DEF NotAfter
      <4> QED BY <4>1, <4>3
    <3> QED BY <1>3, <1>6, <3>1, <3>2
  <2>3. ASSUME NEW s \in M PROVE s \in NotAfter(b, n) \ {n, seq}
    <3>1. At(s, b) \in Nat /\ s \in Near(b) /\ At(s, b) < At(seq, b)
      BY <2>2, NearOrder
    <3> QED BY <1>4, <2>1, <3>1 DEF NotAfter
  <2> QED BY <1>3, <1>4, <1>6, <2>1, <2>2, <2>3 DEF R, u, M, n
<1>7. CASE ~IsNewerSequenceNumber(seq, R)
  <2>1. n = R
    BY <1>3, <1>4, <1>7 DEF LatestSequenceNumber
  <2>2. M = h.missing \ {seq}
    BY <1>3, <1>7
  <2>3. ASSUME NEW s \in M PROVE s \in NotAfter(b, n) \ {n, seq}
    <3>1. s \in Near(b) /\ At(s, b) \in Nat /\ At(s, b) < At(h.latest, b) /\ s # seq
      BY <1>5, <2>2
    <3> QED BY <1>1, <1>4, <2>1, <3>1 DEF NotAfter
  <2>4. ShortTimes => YoungEnough(M, n)
    <3>1. CASE h.missing = {}
      BY <2>2, <3>1 DEF YoungEnough
    <3>2. CASE R = h.latest
      BY <2>1, <2>2, <3>2 DEF YoungEnough, NackGood
    <3> QED BY <1>1, <3>1, <3>2
  <2> QED BY <1>1, <1>4, <1>7, <2>1, <2>2, <2>3, <2>4 DEF R, u, M, n
<1> QED BY <1>6, <1>7

\* InsertPacket counts the packet before it places the frame.
LEMMA NackCounted ==
    ASSUME NEW b \in SeqNum, NEW h \in JB, NackGood(h, b), NEW p \in Packets,
           p.seq \in Near(b), NEW f, <<p.ts, f>> \in Received(b, h.latest, h.missing),
           h.fresh => f = EmptyFrame
    PROVE  LET i == FrameInsertPacket(f, p)
               k == Counted(h, p, i.ret)
           IN  /\ NackGood(k, b)
               /\ <<p.ts, i.frame>> \in Received(b, k.latest, k.missing)
<1> DEFINE i == FrameInsertPacket(f, p)
           u == UpdateNackList(h, p.seq).jb
           k == Counted(h, p, i.ret)
<1>1. p \in Packet /\ p.seq \in SeqNum /\ p.ts \in Times
  BY VideoReceiverAssumption DEF Packet, Times
<1>2. \A n, M : <<p.ts, f>> \in Received(b, n, M)
                /\ (i.ret = "kSizeError" \/ p.seq \in NotAfter(b, n) \ M)
                   => <<p.ts, i.frame>> \in Received(b, n, M)
  BY <1>1, InsertReceived
<1>3. At(p.seq, b) \in Nat
  BY NearOrder
<1> HIDE DEF i
<1>4. CASE i.ret = "kSizeError"
  <2>1. k = h
    BY <1>4 DEF Counted
  <2> HIDE DEF k
  <2> QED BY <1>2, <1>4, <2>1 DEF k, i
<1>5. CASE i.ret # "kSizeError" /\ h.fresh
  <2>1. k = [h EXCEPT !.latest = p.seq, !.fresh = FALSE]
    BY <1>5 DEF Counted
  <2> HIDE DEF k
  <2>2. /\ k.latest = p.seq /\ ~k.fresh /\ k.decodable = h.decodable
        /\ k.incomplete = h.incomplete /\ k.missing = h.missing /\ k.last = h.last
    BY <2>1 DEF JB
  <2>3. /\ IsEmpty(k.decodable) /\ IsEmpty(k.incomplete) /\ k.missing = {}
        /\ k.last.initial
    BY <1>5, <2>2 DEF NackGood
  <2>4. FramesIn(k, Received(b, k.latest, k.missing)) /\ YoungEnough(k.missing, k.latest)
    BY <2>3 DEF FramesIn, IsEmpty, YoungEnough
  <2>5. NackGood(k, b)
    BY <2>2, <2>3, <2>4 DEF NackGood
  <2>6. <<p.ts, f>> \in Received(b, k.latest, k.missing)
    <3>1. f \in Frame /\ f.pkts = {} /\ f.ehigh = NoSeq
      BY <1>5 DEF EmptyFrame, Received
    <3> QED BY <1>1, <3>1 DEF Received
  <2>7. p.seq \in NotAfter(b, k.latest) \ k.missing
    BY <1>3, <2>2, <2>3 DEF NotAfter
  <2> QED BY <1>2, <2>5, <2>6, <2>7 DEF k, i
<1>6. CASE i.ret # "kSizeError" /\ ~h.fresh
  <2> DEFINE n == LatestSequenceNumber(u.latest, p.seq)
  <2>1. k = [u EXCEPT !.latest = n]
    BY <1>6 DEF Counted
  <2>2. /\ u \in JB
        /\ Sublist(u.incomplete, h.incomplete) /\ Sublist(u.decodable, h.decodable)
        /\ u.last \in {h.last, InitialDecodingState} /\ SameFlags(h, u)
        /\ NackMode = "kNoNack" => u.missing = h.missing /\ u.latest = h.latest
    BY <1>1, UpdateNackListResult
  <2>3. NackMode # "kNoNack" =>
           /\ n \in Near(b)
           /\ At(Reached(h), b) <= At(n, b) /\ At(p.seq, b) <= At(n, b)
           /\ u.missing \subseteq NotAfter(b, n) \ {n, p.seq}
           /\ \A s \in u.missing : s \in h.missing \/ s \notin NotAfter(b, h.latest)
           /\ ShortTimes => YoungEnough(u.missing, n)
    BY <1>6, UpdateCounts
  <2>4. /\ h.latest \in Near(b) /\ Reached(h) \in Near(b)
        /\ At(h.latest, b) <= At(Reached(h), b)
        /\ ~h.last.initial => /\ h.last.seq \in Near(b)
                              /\ At(h.last.seq, b) <= At(Reached(h), b)
    BY <1>6, ReachedNear
  <2>5. NackMode = "kNoNack" => /\ n \in Near(b) /\ At(h.latest, b) <= At(n, b)
                                /\ At(p.seq, b) <= At(n, b) /\ u.missing = {}
    BY <2>2, <2>4, NearOrder DEF NackGood
  <2>6. /\ k.latest = n /\ k.missing = u.missing /\ k.incomplete = u.incomplete
        /\ k.decodable = u.decodable /\ k.last = u.last /\ ~k.fresh
    <3> HIDE DEF u, n, k
    <3> QED BY <1>6, <2>1, <2>2 DEF JB, SameFlags
  <2> HIDE DEF u, n, k
  <2>7. /\ n \in Near(b) /\ At(h.latest, b) <= At(n, b) /\ At(p.seq, b) <= At(n, b)
        /\ u.missing \subseteq NotAfter(b, n) \ {n, p.seq}
        /\ \A s \in u.missing : s \in h.missing \/ s \notin NotAfter(b, h.latest)
        /\ ShortTimes => YoungEnough(u.missing, n)
    <3>1. CASE NackMode = "kNoNack"
      BY <2>5, <3>1 DEF YoungEnough
    <3>2. CASE NackMode # "kNoNack"
      <4>1. At(h.latest, b) \in Nat /\ At(Reached(h), b) \in Nat /\ At(n, b) \in Nat
        BY <2>3, <2>4, <3>2, NearOrder
      <4> QED BY <2>3, <2>4, <3>2, <4>1
    <3> QED BY <3>1, <3>2
  <2>8. /\ NotAfter(b, h.latest) \subseteq NotAfter(b, n)
        /\ Received(b, h.latest, h.missing) \subseteq Received(b, n, u.missing)
    <3> DEFINE q == h.latest
               M == h.missing
               N == u.missing
    <3>1. /\ q \in Near(b) /\ n \in Near(b) /\ At(q, b) <= At(n, b)
          /\ \A s \in N : s \in M \/ s \notin NotAfter(b, q)
      BY <2>4, <2>7
    <3> HIDE DEF q, M, N
    <3>2. /\ NotAfter(b, q) \subseteq NotAfter(b, n)
          /\ Received(b, q, M) \subseteq Received(b, n, N)
      BY <3>1, ReceivedGrows
    <3> QED BY <3>2 DEF q, M, N
  <2>9. FramesIn(k, Received(b, k.latest, k.missing))
    <3>1. FramesIn(h, Received(b, k.latest, k.missing))
      BY <2>6, <2>8 DEF NackGood, FramesIn
    <3> QED BY <2>2, <2>6, <3>1, ReducedFrames
  <2>10. ~k.last.initial => /\ k.last.seq \in Near(b)
                            /\ k.last.seq \in NotAfter(b, k.latest) \/ k.missing = {}
    <3> SUFFICES ASSUME ~k.last.initial
                 PROVE  /\ k.last.seq \in Near(b)
                        /\ k.last.seq \in NotAfter(b, k.latest) \/ k.missing = {}
      OBVIOUS
    <3>1. k.last = h.last
      BY <2>2, <2>6 DEF InitialDecodingState
    <3>2. h.last.seq \in Near(b) /\ At(h.last.seq, b) <= At(Reached(h), b)
      BY <2>4, <3>1
    <3>3. CASE NackMode = "kNoNack"
      BY <2>5, <2>6, <3>1, <3>2, <3>3
    <3>4. CASE NackMode # "kNoNack"
      <4>1. /\ At(Reached(h), b) \in Nat /\ At(n, b) \in Nat
            /\ At(h.last.seq, b) \in Nat
        BY <2>4, <2>7, <3>2, NearOrder
      <4> QED BY <2>3, <2>6, <3>1, <3>2, <3>4, <4>1 DEF NotAfter
    <3> QED BY <3>3, <3>4
  <2>11. NackMode = "kNoNack" => k.missing = {}
    BY <2>5, <2>6
  <2>12. NackGood(k, b)
    BY <2>6, <2>7, <2>9, <2>10, <2>11 DEF NackGood
  <2>13. p.seq \in NotAfter(b, k.latest) \ k.missing
    BY <2>6, <2>7 DEF NotAfter
  <2>14. <<p.ts, f>> \in Received(b, k.latest, k.missing)
    BY <2>6, <2>8
  <2> QED BY <1>2, <2>12, <2>13, <2>14 DEF k, i
<1> QED BY <1>4, <1>5, <1>6

\* InsertPacket.
LEMMA InsertPacketNack ==
    ASSUME NEW b \in SeqNum, \A q \in Packets : q.seq \in Near(b),
           NEW j \in JB, Sound(j), NackGood(j, b), NEW p \in Packets
    PROVE  NackGood(InsertPacket(j, p).jb, b)
<1> DEFINE x == InsertPacket(j, p).jb
<1>1. p \in Packet /\ p.seq \in Near(b) /\ p.ts \in Times
  BY VideoReceiverAssumption DEF Times
<1>2. CASE IsOldTimestamp(j.last, p.ts)
  <2> DEFINE last == UpdateOldPacket(j.last, p)
  <2>1. x = InsertOldPacket(j, p).jb
    BY <1>2 DEF InsertPacket
  <2>2. \/ \E l \in JB : x = Flush(l)
        \/ /\ x.incomplete = j.incomplete /\ x.decodable = j.decodable
           /\ x.missing = DropPackets(j.missing, last.seq)
           /\ x.latest = j.latest /\ x.last = last /\ x.fresh = j.fresh
    BY <1>1, <2>1, InsertOldPacketResult DEF SameFlags
  <2>3. ~j.last.initial /\ ~j.fresh /\ j.latest \in Near(b) /\ j.last.seq \in Near(b)
        /\ j.missing \subseteq NotAfter(b, j.latest)
    BY <1>2 DEF IsOldTimestamp, NackGood
  <2>4. last.seq \in Near(b) /\ ~last.initial
    <3>1. last.seq \in {j.last.seq, p.seq} /\ last.initial = j.last.initial
      BY DEF UpdateOldPacket, LatestSequenceNumber, JB, DecodingState
    <3> QED BY <1>1, <2>3, <3>1
  <2> HIDE DEF x, last
  <2>5. CASE \E l \in JB : x = Flush(l)
    <3>1. PICK l \in JB : x = Flush(l)
      BY <2>5
    <3>2. /\ x.decodable = EmptyList /\ x.incomplete = EmptyList
          /\ x.missing = {} /\ x.last = InitialDecodingState /\ x.fresh
      BY <3>1, FlushResult
    <3>3. x.last.initial
      BY <3>2 DEF InitialDecodingState
    <3> QED BY <3>2, <3>3, NackFresh DEF x
  <2>6. CASE /\ x.incomplete = j.incomplete /\ x.decodable = j.decodable
             /\ x.missing = DropPackets(j.missing, last.seq)
             /\ x.latest = j.latest /\ x.last = last /\ x.fresh = j.fresh
    <3>1. last.seq \in NotAfter(b, j.latest) \/ x.missing = {}
      BY <2>3, <2>4, <2>6, DropReceived
    <3>2. Sublist(x.incomplete, j.incomplete) /\ Sublist(x.decodable, j.decodable)
      BY <2>6, CountType, SublistFacts
    <3>3. x.missing \subseteq j.missing
      BY <2>6 DEF DropPackets
    <3>4. NackGood(x, b)
      BY <2>3, <2>4, <2>6, <3>1, <3>2, <3>3, NackReduced
    <3> QED BY <3>4 DEF x
  <2> QED BY <2>2, <2>5, <2>6
<1>3. CASE ~IsOldTimestamp(j.last, p.ts)
  <2> DEFINE g == GetFrame([j EXCEPT !.old = 0], p.ts)
             h == g.jb
             f == g.frame
             i == FrameInsertPacket(f, p)
             k == Counted(h, p, i.ret)
  <2>1. x = InsertNewPacket(j, p).jb
    BY <1>3 DEF InsertPacket
  <2>2. /\ h \in JB /\ f \in Frame /\ Reduced(j, h) /\ FoundIn(j, p.ts, g.from, f)
        /\ \/ x = h
           \/ /\ Placed(k, x, p.ts, i.frame)
              /\ \A G : FramesIn(k, G) /\ <<p.ts, i.frame>> \in G => FramesIn(x, G)
              /\ i.ret = "kSizeError" => /\ x.decodable = k.decodable
                                         /\ x.incomplete = k.incomplete
    BY <1>1, <2>1, InsertNewPacketResult
  <2> HIDE DEF x, g
  <2>3. NackGood(h, b)
    <3>1. j.fresh => h.last.initial
      BY <2>2 DEF Reduced, NackGood, InitialDecodingState
    <3>2. ~h.last.initial => /\ h.last.seq \in Near(b)
                             /\ \/ h.last.seq \in NotAfter(b, j.latest)
                                \/ h.missing = {}
      BY <2>2 DEF Reduced, NackGood, InitialDecodingState
    <3> HIDE DEF h
    <3> QED BY <2>2, <3>1, <3>2, NackReduced DEF Reduced, SameFlags
  <2>4. <<p.ts, EmptyFrame>> \in Received(b, h.latest, h.missing)
    <3>1. EmptyFrame \in Frame /\ EmptyFrame.pkts = {} /\ EmptyFrame.ehigh = NoSeq
      BY EmptyAssembled DEF EmptyFrame, Assembled
    <3> QED BY <1>1, <3>1 DEF Received
  <2>5. /\ <<p.ts, f>> \in Received(b, h.latest, h.missing)
        /\ h.fresh => f = EmptyFrame
    <3>1. Received(b, j.latest, j.missing) \subseteq Received(b, h.latest, h.missing)
      BY <2>2 DEF Received, Reduced
    <3>2. FramesIn(j, Received(b, h.latest, h.missing))
      BY <3>1 DEF NackGood, FramesIn
    <3>3. h.fresh => IsEmpty(j.decodable) /\ IsEmpty(j.incomplete)
      BY <2>2 DEF NackGood, Reduced, SameFlags
    <3> HIDE DEF h, f
    <3> QED BY <2>2, <2>4, <3>2, <3>3 DEF FoundIn, FramesIn, IsEmpty
  <2> HIDE DEF h, f
  <2>6. /\ NackGood(k, b)
        /\ <<p.ts, i.frame>> \in Received(b, k.latest, k.missing)
    BY <1>1, <2>2, <2>3, <2>5, NackCounted
  <2>7. k.fresh => i.ret = "kSizeError"
    <3>1. SameFlags(h, UpdateNackList(h, p.seq).jb) /\ UpdateNackList(h, p.seq).jb \in JB
      BY <1>1, <2>2, UpdateNackListResult DEF Packet
    <3>2. ASSUME i.ret # "kSizeError" PROVE ~k.fresh
      <4>1. CASE h.fresh
        BY <2>2, <3>2, <4>1 DEF Counted, JB
      <4>2. CASE ~h.fresh
        BY <3>1, <3>2, <4>2 DEF Counted, JB, SameFlags
      <4> QED BY <4>1, <4>2
    <3> QED BY <3>2
  <2> HIDE DEF i, k
  <2>8. CASE x = h
    BY <2>3, <2>8 DEF x
  <2>9. CASE /\ Placed(k, x, p.ts, i.frame)
             /\ \A G : FramesIn(k, G) /\ <<p.ts, i.frame>> \in G => FramesIn(x, G)
             /\ i.ret = "kSizeError" => /\ x.decodable = k.decodable
                                        /\ x.incomplete = k.incomplete
    <3>1. FramesIn(x, Received(b, k.latest, k.missing))
      BY <2>6, <2>9 DEF NackGood
    <3>2. /\ x.missing = k.missing /\ x.latest = k.latest /\ x.fresh = k.fresh
          /\ \/ x.last = k.last
             \/ /\ i.frame \in FilledFrame
                /\ x.last = SkipEmptyFrame(k.last, i.frame, p.ts)
      BY <2>9, SMTT(40) DEF Placed
    <3>3. k.last \in DecodingState
      BY <1>1, <2>2, InsertNewPacketResult DEF JB, k, i, f, h, g
    <3>4. /\ x.last.initial = k.last.initial
          /\ ~x.last.initial => x.last.seq = k.last.seq
                                \/ x.last.seq \in NotAfter(b, k.latest)
      <4>1. CASE x.last = k.last
        BY <4>1
      <4>2. CASE /\ i.frame \in FilledFrame
                 /\ x.last = SkipEmptyFrame(k.last, i.frame, p.ts)
        <5>1. HighSequenceNumber(i.frame) \in NotAfter(b, k.latest)
          <6> DEFINE tf == <<p.ts, i.frame>>
          <6>1. tf \in Received(b, k.latest, k.missing) /\ tf[2] = i.frame
            BY <2>6
          <6> HIDE DEF tf
          <6> QED BY <4>2, <6>1, HighReceived
        <5>2. /\ x.last.initial = k.last.initial
              /\ ~k.last.initial => x.last.seq = HighSequenceNumber(i.frame)
          BY <3>3, <4>2 DEF SkipEmptyFrame, DecodingState
        <5> QED BY <5>1, <5>2
      <4> QED BY <3>2, <4>1, <4>2
    <3>5. x.fresh => IsEmpty(x.decodable) /\ IsEmpty(x.incomplete)
      BY <2>6, <2>7, <2>9, <3>2 DEF NackGood
    <3>6. ~x.last.initial => /\ x.last.seq \in Near(b)
                             /\ x.last.seq \in NotAfter(b, x.latest) \/ x.missing = {}
      BY <2>6, <3>2, <3>4 DEF NackGood, NotAfter
    <3>7. NackGood(x, b)
      BY <2>6, <3>1, <3>2, <3>4, <3>5, <3>6 DEF NackGood
    <3> QED BY <3>7 DEF x
  <2> QED BY <2>2, <2>8, <2>9
<1> QED BY <1>2, <1>3

\* InsertPacket neither starts nor stops the jitter buffer.
LEMMA InsertPacketRuns ==
    ASSUME NEW j \in JB, Sound(j), NEW p \in Packets
    PROVE  InsertPacket(j, p).jb.running = j.running
<1>1. p \in Packet
  BY VideoReceiverAssumption
<1>2. CASE IsOldTimestamp(j.last, p.ts)
  <2> DEFINE x == InsertOldPacket(j, p).jb
  <2>1. \/ \E l \in JB : x = Flush(l) /\ l.running = j.running
        \/ SameFlags(j, x)
    BY <1>1, InsertOldPacketResult
  <2>2. InsertPacket(j, p).jb = x
    BY <1>2 DEF InsertPacket
  <2> HIDE DEF x
  <2> QED BY <2>1, <2>2, FlushResult DEF SameFlags
<1>3. CASE ~IsOldTimestamp(j.last, p.ts)
  <2> DEFINE g == GetFrame([j EXCEPT !.old = 0], p.ts)
             i == FrameInsertPacket(g.frame, p)
             k == Counted(g.jb, p, i.ret)
             x == InsertNewPacket(j, p).jb
  <2>1. /\ Reduced(j, g.jb) /\ k.running = j.running
        /\ x = g.jb \/ Placed(k, x, p.ts, i.frame)
    BY <1>1, InsertNewPacketResult
  <2>2. InsertPacket(j, p).jb = x
    BY <1>3 DEF InsertPacket
  <2> HIDE DEF g, i, k, x
  <2> QED BY <2>1, <2>2 DEF Reduced, SameFlags, Placed
<1> QED BY <1>2, <1>3

\* CleanUpOldOrEmptyFrames.
LEMMA CleanUpNack ==
    ASSUME NEW b \in SeqNum, NEW j \in JB, NackGood(j, b)
    PROVE  NackGood(CleanUpOldOrEmptyFrames(j), b)
<1> DEFINE k == CleanUpOldOrEmptyFrames(j)
<1>1. /\ Sublist(k.incomplete, j.incomplete) /\ Sublist(k.decodable, j.decodable)
      /\ k.missing \subseteq j.missing
      /\ ~k.last.initial => k.missing = DropPackets(j.missing, k.last.seq)
      /\ k.latest = j.latest /\ SameFlags(j, k) /\ SeqFrom(j, k.last)
  BY CleanUpResult
<1> HIDE DEF k
<1>2. \A t \in DOMAIN j.decodable : j.decodable[t] \in FilledFrame
  BY DEF JB, FrameList
<1>3. \A t \in DOMAIN j.incomplete : j.incomplete[t] \in FilledFrame
  BY DEF JB, FrameList
<1>4. \A t \in DOMAIN j.decodable :
         HighSequenceNumber(j.decodable[t]) \in NotAfter(b, j.latest)
  <2> SUFFICES ASSUME NEW t \in DOMAIN j.decodable
               PROVE  HighSequenceNumber(j.decodable[t]) \in NotAfter(b, j.latest)
    OBVIOUS
  <2> DEFINE tf == <<t, j.decodable[t]>>
  <2>1. tf \in Received(b, j.latest, j.missing) /\ tf[2] = j.decodable[t]
    BY DEF NackGood, FramesIn
  <2> HIDE DEF tf
  <2> QED BY <1>2, <2>1, HighReceived
<1>5. \A t \in DOMAIN j.incomplete :
         HighSequenceNumber(j.incomplete[t]) \in NotAfter(b, j.latest)
  <2> SUFFICES ASSUME NEW t \in DOMAIN j.incomplete
               PROVE  HighSequenceNumber(j.incomplete[t]) \in NotAfter(b, j.latest)
    OBVIOUS
  <2> DEFINE tf == <<t, j.incomplete[t]>>
  <2>1. tf \in Received(b, j.latest, j.missing) /\ tf[2] = j.incomplete[t]
    BY DEF NackGood, FramesIn
  <2> HIDE DEF tf
  <2> QED BY <1>3, <2>1, HighReceived
<1>6. /\ j.fresh => k.last.initial
      /\ ~k.last.initial => /\ k.last.seq \in Near(b)
                            /\ \/ k.last.seq \in NotAfter(b, j.latest)
                               \/ k.missing = {}
  <2>1. CASE k.last.initial = j.last.initial /\ k.last.seq = j.last.seq
    BY <1>1, <2>1 DEF NackGood
  <2>2. CASE /\ ~j.last.initial /\ ~k.last.initial
             /\ k.last.seq \in NotAfter(b, j.latest)
    BY <2>2 DEF NackGood, NotAfter
  <2> QED BY <1>1, <1>4, <1>5, <2>1, <2>2 DEF SeqFrom
<1>7. NackGood(k, b)
  BY <1>1, <1>6, NackReduced DEF SameFlags
<1> QED BY <1>7 DEF k

\* ExtractAndSetDecode.
LEMMA ExtractNack ==
    ASSUME NEW b \in SeqNum, NEW j \in JB, NackGood(j, b), NEW ts
    PROVE  NackGood(ExtractAndSetDecode(j, ts).jb, b)
<1> DEFINE r == ExtractAndSetDecode(j, ts)
           k == r.jb
<1>1. /\ k.incomplete = j.incomplete /\ Sublist(k.decodable, j.decodable)
      /\ k.latest = j.latest /\ SameFlags(j, k)
      /\ \/ k.missing = j.missing /\ k.last = j.last
         \/ \E t \in DOMAIN j.decodable :
               /\ k.last = SetState(j.decodable[t], t)
               /\ k.missing = DropPackets(j.missing, k.last.seq)
  BY ExtractResult
<1> HIDE DEF r, k
<1>2. Sublist(k.incomplete, j.incomplete)
  BY <1>1, CountType, SublistFacts
<1>3. CASE k.missing = j.missing /\ k.last = j.last
  <2>1. NackGood(k, b)
    BY <1>1, <1>2, <1>3, NackReduced DEF SameFlags, NackGood
  <2> QED BY <2>1 DEF k, r
<1>4. ASSUME NEW t \in DOMAIN j.decodable, k.last = SetState(j.decodable[t], t),
             k.missing = DropPackets(j.missing, k.last.seq)
      PROVE  NackGood(k, b)
  <2> DEFINE tf == <<t, j.decodable[t]>>
  <2>1. /\ tf \in Received(b, j.latest, j.missing) /\ tf[2] = j.decodable[t]
        /\ tf[2] \in FilledFrame
    BY DEF NackGood, FramesIn, JB, FrameList
  <2>2. HighSequenceNumber(j.decodable[t]) \in NotAfter(b, j.latest)
    <3> HIDE DEF tf
    <3> QED BY <2>1, HighReceived
  <2>3. k.last.seq \in NotAfter(b, j.latest) /\ k.last.seq \in Near(b)
    BY <1>4, <2>2 DEF SetState, NotAfter
  <2>4. k.missing \subseteq j.missing /\ ~j.fresh
    BY <1>4 DEF DropPackets, NackGood, IsEmpty
  <2> QED BY <1>1, <1>2, <2>3, <2>4, NackReduced DEF SameFlags
<1> QED BY <1>1, <1>3, <1>4 DEF k, r

\* Up to the first StopReceive the jitter buffer runs and its NACK list is good.
NackInv(b) == restarts = 0 => api = "receiving" /\ jb.running /\ NackGood(jb, b)

\* The NACK list is good initially.
LEMMA NackInit ==
    ASSUME NEW b
    PROVE  Init => NackInv(b)
<1> SUFFICES ASSUME Init PROVE NackInv(b)
  OBVIOUS
<1>1. /\ jb.decodable = EmptyList /\ jb.incomplete = EmptyList /\ jb.missing = {}
      /\ jb.last.initial /\ jb.fresh /\ jb.running /\ api = "receiving"
  BY DEF Init, Start, NewJB, InitialDecodingState
<1> QED BY <1>1, NackFresh DEF NackInv

\* Every step keeps the NACK list good.
LEMMA NackStep ==
    ASSUME NEW b \in SeqNum, \A q \in Packets : q.seq \in Near(b),
           IInv, NackInv(b), Next
    PROVE  NackInv(b)'
<1> SUFFICES ASSUME restarts' = 0
             PROVE  api' = "receiving" /\ jb'.running /\ NackGood(jb, b)'
  BY DEF NackInv
<1>1. jb \in JB /\ Sound(jb) /\ restarts \in Nat
  BY JBDef, VideoReceiverAssumption DEF IInv, MainInv, TypeOK, BufferInv
<1>2. ~StopReceive /\ restarts = 0
  <2>1. StopReceive => restarts' = restarts + 1
    BY DEF StopReceive
  <2>2. Next /\ ~StopReceive => restarts' = restarts
    BY DEF Next, Network, DecodeThread, ApiThread, AdmitPacket, IncomingPacket,
       FlushIndicated, ResetKeyRequest, NextComplete, WaitSignaled, WaitTimedOut,
       LastLook, TimingError, NotDueYet, Extract, DecodeFrame, ProcessNackList,
       TriggerDecoderShutdown, JoinDecodeThread, ResetAfterStop, StartDecodeThread,
       StartReceive
  <2> QED BY <1>1, <2>1, <2>2
<1>3. api = "receiving" /\ jb.running /\ NackGood(jb, b)
  BY <1>2 DEF NackInv
<1>4. ASSUME NEW k, k.running, NackGood(k, b), jb' = k, api' = api
      PROVE  api' = "receiving" /\ jb'.running /\ NackGood(jb, b)'
  BY <1>3, <1>4 DEF NackGood, FramesIn, Received
<1>5. CASE AdmitPacket \/ ResetKeyRequest \/ WaitTimedOut \/ NotDueYet
  <2>1. jb' = jb /\ api' = api
    BY <1>5 DEF AdmitPacket, ResetKeyRequest, WaitTimedOut, NotDueYet
  <2> QED BY <1>3, <1>4, <2>1
<1>6. ASSUME NEW p \in Packets, IncomingPacket(p)
      PROVE  api' = "receiving" /\ jb'.running /\ NackGood(jb, b)'
  <2> DEFINE k == InsertPacket(jb, p).jb
  <2>1. jb' = k /\ api' = api
    BY <1>6 DEF IncomingPacket
  <2>2. NackGood(k, b)
    BY <1>1, <1>3, InsertPacketNack
  <2>3. k.running = jb.running
    BY <1>1, InsertPacketRuns
  <2> HIDE DEF k
  <2> QED BY <1>3, <1>4, <2>1, <2>2, <2>3
<1>7. CASE FlushIndicated \/ TimingError
  <2>1. jb' \in {jb, Flush(jb)} /\ api' = api
    BY <1>3, <1>7 DEF FlushIndicated, ResetDecoder, TimingError
  <2>2. LET k == Flush(jb)
        IN  /\ k.decodable = EmptyList /\ k.incomplete = EmptyList
            /\ k.missing = {} /\ k.last = InitialDecodingState /\ k.fresh
            /\ k.running = jb.running
    BY <1>1, FlushResult
  <2>3. NackGood(Flush(jb), b) /\ Flush(jb).running
    BY <1>3, <2>2, NackFresh DEF InitialDecodingState
  <2> QED BY <1>3, <1>4, <2>1, <2>3
<1>8. CASE NextComplete \/ LastLook
  <2> DEFINE j == CleanUpOldOrEmptyFrames(jb)
             k == CleanUpOldOrEmptyFrames(j)
  <2>1. jb' \in {jb, j, k} /\ api' = api
    BY <1>8 DEF NextComplete, LastLook
  <2>2. j \in JB /\ SameFlags(jb, j) /\ NackGood(j, b)
    BY <1>1, <1>3, CleanUpResult, CleanUpNack
  <2> HIDE DEF j
  <2>3. SameFlags(j, k) /\ NackGood(k, b)
    BY <2>2, CleanUpResult, CleanUpNack
  <2> HIDE DEF k
  <2> QED BY <1>3, <1>4, <2>1, <2>2, <2>3 DEF SameFlags
<1>9. CASE WaitSignaled \/ DecodeFrame
  <2>1. jb' \in {[jb EXCEPT !.event = FALSE], ReleaseFrame(jb)} /\ api' = api
    BY <1>9 DEF WaitSignaled, DecodeFrame
  <2>2. /\ jb'.incomplete = jb.incomplete /\ jb'.decodable = jb.decodable
        /\ jb'.missing = jb.missing /\ jb'.latest = jb.latest /\ jb'.last = jb.last
        /\ jb'.fresh = jb.fresh /\ jb'.running = jb.running
    BY <1>1, <2>1 DEF JB, ReleaseFrame
  <2>3. NackGood(jb', b)
    BY <1>3, <2>2 DEF NackGood, FramesIn
  <2> QED BY <1>3, <1>4, <2>1, <2>2, <2>3
<1>10. CASE Extract
  <2> DEFINE k == ExtractAndSetDecode(jb, decTs).jb
  <2>1. jb' = k /\ api' = api
    BY <1>10 DEF Extract
  <2>2. NackGood(k, b) /\ SameFlags(jb, k)
    BY <1>1, <1>3, ExtractNack, ExtractResult
  <2> HIDE DEF k
  <2> QED BY <1>3, <1>4, <2>1, <2>2 DEF SameFlags
<1>11. CASE ProcessNackList
  <2> DEFINE k == GetNackList(jb).jb
  <2>1. jb' = k /\ api' = api
    BY <1>11 DEF ProcessNackList
  <2>2. Reduced(jb, k)
    BY <1>1, GetNackListReduces
  <2> HIDE DEF k
  <2>3. /\ k.last.initial \/ k.last = jb.last
        /\ k.missing \subseteq jb.missing /\ k.fresh = jb.fresh
        /\ k.latest = jb.latest /\ k.running = jb.running
        /\ Sublist(k.incomplete, jb.incomplete) /\ Sublist(k.decodable, jb.decodable)
    BY <2>2 DEF Reduced, SameFlags, InitialDecodingState
  <2>4. NackGood(k, b)
    <3>1. /\ jb.fresh => k.last.initial
          /\ ~k.last.initial => /\ k.last.seq \in Near(b)
                                /\ \/ k.last.seq \in NotAfter(b, jb.latest)
                                   \/ k.missing = {}
      BY <1>3, <2>3 DEF NackGood
    <3> QED BY <1>3, <2>3, <3>1, NackReduced
  <2> QED BY <1>3, <1>4, <2>1, <2>3, <2>4
<1>12. CASE TriggerDecoderShutdown \/ JoinDecodeThread \/ ResetAfterStop
            \/ StartDecodeThread \/ StartReceive
  BY <1>3, <1>12 DEF TriggerDecoderShutdown, JoinDecodeThread, ResetAfterStop,
     StartDecodeThread, StartReceive
<1> QED BY <1>2, <1>5, <1>6, <1>7, <1>8, <1>9, <1>10, <1>11, <1>12
        DEF Next, Network, DecodeThread, ApiThread

\* The NACK list asks for packets that are missing: a packet that waits in the
\* jitter buffer is never asked for again.  StopReceive and StartReceive keep
\* the list and forget the packets, so this ends with the first of them.
THEOREM NacksAreMissing ==
    ASSUME ShortNumbers
    PROVE  Spec => [](restarts = 0 => NackOnlyMissing)
<1>1. PICK b \in SeqNum : \A p \in Packets : Ahead(p.seq, b, SeqMod) < SeqMod \div 2
  BY DEF ShortNumbers
<1>2. \A p \in Packets : p.seq \in Near(b)
  BY <1>1, VideoReceiverAssumption DEF Near, At, Packet
<1>3. Init => NackInv(b)
  BY NackInit
<1>4. IInv /\ NackInv(b) /\ [Next]_vars => NackInv(b)'
  <2>1. CASE Next
    BY <1>2, <2>1, NackStep
  <2>2. CASE UNCHANGED vars
    BY <2>2 DEF vars, NackInv, NackGood, FramesIn, Received
  <2> QED BY <2>1, <2>2
<1>5. NackInv(b) => (restarts = 0 => NackOnlyMissing)
  BY DEF NackInv, NackGood, FramesIn, Received, NackOnlyMissing, Buffered
<1> QED BY <1>3, <1>4, <1>5, Invariance, PTL DEF Spec

\* Between any two calls, what is on the NACK list is at most
\* max_packet_age_to_nack_ older than the newest packet received: UpdateNackList
\* recycles frames until HandleTooOldPackets has nothing left to drop.
THEOREM NacksAreYoung ==
    ASSUME ShortNumbers, ShortTimes
    PROVE  Spec => [](restarts = 0 => NackAgeBounded)
<1>1. PICK b \in SeqNum : \A p \in Packets : Ahead(p.seq, b, SeqMod) < SeqMod \div 2
  BY DEF ShortNumbers
<1>2. \A p \in Packets : p.seq \in Near(b)
  BY <1>1, VideoReceiverAssumption DEF Near, At, Packet
<1>3. Init => NackInv(b)
  BY NackInit
<1>4. IInv /\ NackInv(b) /\ [Next]_vars => NackInv(b)'
  <2>1. CASE Next
    BY <1>2, <2>1, NackStep
  <2>2. CASE UNCHANGED vars
    BY <2>2 DEF vars, NackInv, NackGood, FramesIn, Received
  <2> QED BY <2>1, <2>2
<1>5. NackInv(b) => (restarts = 0 => NackAgeBounded)
  BY DEF NackInv, NackGood, NackAgeBounded, YoungEnough
<1> QED BY <1>3, <1>4, <1>5, Invariance, PTL DEF Spec

-----------------------------------------------------------------------------
(***************************************************************************)
(* A stream that is sent in order.                                         *)
(***************************************************************************)
\* Every packet carries a part of a frame.
NoPadding == \A p \in Packets : p.type # "empty"

\* Newer frames have newer sequence numbers.
SentInOrder ==
    \A p, q \in Packets :
        IsNewerTimestamp(p.ts, q.ts) => IsNewerSequenceNumber(p.seq, q.seq)

OrderedStream ==
    ShortNumbers /\ ShortTimes /\ MarkedFrames /\ NoPadding /\ SentInOrder

\* The timestamps of a short stream are ordered.
LEMMA TimesOrdered ==
    ASSUME ShortTimes, NEW t \in Times, NEW u \in Times, NEW v \in Times
    PROVE  /\ t \in Timestamp
           /\ t # u => IsNewerTimestamp(t, u) \/ IsNewerTimestamp(u, t)
           /\ ~(IsNewerTimestamp(t, u) /\ IsNewerTimestamp(u, t))
           /\ ~IsNewerTimestamp(t, t)
           /\ IsNewerTimestamp(t, u) /\ IsNewerTimestamp(u, v)
                 => IsNewerTimestamp(t, v)
<1>1. PICK b \in Timestamp : \A p \in Packets : Ahead(p.ts, b, TsMod) < TsMod \div 2
  BY DEF ShortTimes
<1> DEFINE At2(s) == Ahead(s, b, TsMod)
<1>2. ASSUME NEW x \in Times, NEW y \in Times
      PROVE  /\ x \in Timestamp /\ At2(x) \in Int
             /\ IsNewerTimestamp(x, y) <=> At2(y) < At2(x)
             /\ At2(x) = At2(y) => x = y
  <2>1. /\ x \in Timestamp /\ y \in Timestamp
        /\ Ahead(x, b, TsMod) < TsMod \div 2 /\ Ahead(y, b, TsMod) < TsMod \div 2
    BY <1>1, VideoReceiverAssumption DEF Times, Packet
  <2> QED BY <2>1, TimeOrder
<1> HIDE DEF At2
<1>3. /\ At2(t) \in Int /\ At2(u) \in Int /\ At2(v) \in Int
      /\ IsNewerTimestamp(t, u) <=> At2(u) < At2(t)
      /\ IsNewerTimestamp(u, t) <=> At2(t) < At2(u)
      /\ IsNewerTimestamp(t, t) <=> At2(t) < At2(t)
      /\ IsNewerTimestamp(u, v) <=> At2(v) < At2(u)
      /\ IsNewerTimestamp(t, v) <=> At2(v) < At2(t)
      /\ At2(t) = At2(u) => t = u
      /\ t \in Timestamp
  BY <1>2
<1> QED BY <1>3

\* The sequence numbers of the frame with timestamp t.
Numbers(t) == {p.seq : p \in PacketsOf(t)}

\* In a stream sent in order, the numbers of frames do not mix.
LEMMA NumbersOrdered ==
    ASSUME OrderedStream, NEW t \in Times, NEW u \in Times, NEW v \in Times,
           NEW x \in Numbers(t), NEW y \in Numbers(u), NEW z \in Numbers(v)
    PROVE  /\ x \in SeqNum
           /\ y = SeqInc(x) => IsNewerSequenceNumber(y, x)
           /\ IsNewerTimestamp(t, u) => x # y /\ y # SeqInc(x)
           /\ IsNewerTimestamp(u, v) /\ IsNewerTimestamp(v, t) => y # SeqInc(x)
           /\ ~IsNewerSequenceNumber(x, y) /\ ~IsNewerSequenceNumber(y, x) => x = y
<1>1. PICK b \in SeqNum : \A p \in Packets : Ahead(p.seq, b, SeqMod) < SeqMod \div 2
  BY DEF OrderedStream, ShortNumbers
<1>2. /\ \E p \in Packets : p.ts = t /\ p.seq = x
      /\ \E p \in Packets : p.ts = u /\ p.seq = y
      /\ \E p \in Packets : p.ts = v /\ p.seq = z
  BY DEF Numbers, PacketsOf, Media
<1>3. x \in Near(b) /\ y \in Near(b) /\ z \in Near(b)
  BY <1>1, <1>2, VideoReceiverAssumption DEF Near, At, Packet
<1>4. /\ IsNewerTimestamp(t, u) => IsNewerSequenceNumber(x, y)
      /\ IsNewerTimestamp(u, v) => IsNewerSequenceNumber(y, z)
      /\ IsNewerTimestamp(v, t) => IsNewerSequenceNumber(z, x)
  BY <1>2 DEF OrderedStream, SentInOrder
<1>5. /\ x \in SeqNum /\ y \in SeqNum
      /\ At(x, b) \in Nat /\ At(y, b) \in Nat /\ At(z, b) \in Nat
      /\ IsNewerSequenceNumber(x, y) <=> At(y, b) < At(x, b)
      /\ IsNewerSequenceNumber(y, x) <=> At(x, b) < At(y, b)
      /\ IsNewerSequenceNumber(y, z) <=> At(z, b) < At(y, b)
      /\ IsNewerSequenceNumber(z, x) <=> At(x, b) < At(z, b)
      /\ At(x, b) = At(y, b) => x = y
  BY <1>3, NearOrder
<1>6. y = SeqInc(x) => At(y, b) = At(x, b) + 1
  <2>1. /\ x \in 0 .. SeqMod - 1 /\ y \in 0 .. SeqMod - 1 /\ b \in 0 .. SeqMod - 1
        /\ At(x, b) < SeqMod \div 2 /\ At(y, b) < SeqMod \div 2
    BY <1>3 DEF Near, SeqNum
  <2> QED BY <2>1, NextIsFurther, ModAssumption DEF SeqInc, At
<1>7. /\ y = SeqInc(x) => At(x, b) < At(y, b)
      /\ At(y, b) < At(x, b) => x # y /\ y # SeqInc(x)
      /\ At(z, b) < At(y, b) /\ At(x, b) < At(z, b) => y # SeqInc(x)
      /\ ~(At(y, b) < At(x, b)) /\ ~(At(x, b) < At(y, b)) => At(x, b) = At(y, b)
  BY <1>5, <1>6
<1> QED BY <1>4, <1>5, <1>7

-----------------------------------------------------------------------------
(***************************************************************************)
(* Frames that hold media packets only, which is all there is without      *)
(* padding.                                                                *)
(***************************************************************************)
Solid(f) ==
    f.pkts # {} /\ f.front \in f.pkts /\ f.ehigh = NoSeq /\ f.state # "Empty"

SolidFrames == {tf \in StreamFrames : Solid(tf[2])}

\* g begins where f ends.
Follows(f, g) == g.front = SeqInc(f.back)

\* The ends of a solid frame are numbers of its packets.
LEMMA SolidEnds ==
    ASSUME NEW t, NEW f, <<t, f>> \in SolidFrames
    PROVE  /\ t \in Times /\ f \in Assembled(t) /\ f \in Frame
           /\ LowSequenceNumber(f) = f.front /\ HighSequenceNumber(f) = f.back
           /\ f.front \in Numbers(t) /\ f.back \in Numbers(t)
           /\ f.front \in f.pkts /\ f.back \in f.pkts
           /\ ~IsNewerSequenceNumber(f.front, f.back)
<1>1. t \in Times /\ f \in Assembled(t) /\ Solid(f)
  BY DEF SolidFrames, StreamFrames
<1>2. f \in Frame /\ f.pkts \subseteq Numbers(t) /\ HasBack(f)
  BY <1>1 DEF Assembled, Numbers
<1> QED BY <1>1, <1>2
        DEF Solid, HasBack, LowSequenceNumber, HighSequenceNumber

\* Without padding every timestamp of the stream has numbers.
LEMMA TimesHaveNumbers ==
    ASSUME NoPadding, NEW t \in Times
    PROVE  Numbers(t) # {}
  BY DEF NoPadding, Times, Numbers, PacketsOf, Media

\* A frame follows an older one, and no frame of the stream is between them.
LEMMA FollowsOrder ==
    ASSUME OrderedStream, NEW t, NEW f, <<t, f>> \in SolidFrames,
           NEW u, NEW g, <<u, g>> \in SolidFrames, Follows(f, g)
    PROVE  /\ f # g
           /\ t # u => IsNewerTimestamp(u, t)
           /\ \A v \in Times : ~(IsNewerTimestamp(v, t) /\ IsNewerTimestamp(u, v))
<1>1. /\ t \in Times /\ f.back \in Numbers(t) /\ u \in Times /\ g.front \in Numbers(u)
      /\ ~IsNewerSequenceNumber(f.front, f.back) /\ f.front \in Numbers(t)
  BY SolidEnds
<1>2. g.front = SeqInc(f.back)
  BY DEF Follows
<1>3. f # g
  BY <1>1, <1>2, NumbersOrdered
<1>4. t # u => IsNewerTimestamp(u, t)
  <2>1. ~IsNewerTimestamp(t, u)
    BY <1>1, <1>2, NumbersOrdered
  <2> QED BY <1>1, <2>1, TimesOrdered DEF OrderedStream
<1>5. ASSUME NEW v \in Times, IsNewerTimestamp(v, t), IsNewerTimestamp(u, v)
      PROVE  FALSE
  <2>1. PICK z \in Numbers(v) : TRUE
    BY TimesHaveNumbers DEF OrderedStream
  <2> QED BY <1>1, <1>2, <1>5, <2>1, NumbersOrdered
<1> QED BY <1>3, <1>4, <1>5

\* Frames that begin with the same packet have the same timestamp.
LEMMA SameFront ==
    ASSUME OrderedStream, NEW t, NEW f, <<t, f>> \in SolidFrames,
           NEW u, NEW g, <<u, g>> \in SolidFrames, f.front = g.front
    PROVE  t = u
<1>1. /\ t \in Times /\ f.front \in Numbers(t) /\ u \in Times /\ g.front \in Numbers(u)
  BY SolidEnds
<1>2. ~IsNewerTimestamp(t, u) /\ ~IsNewerTimestamp(u, t)
  BY <1>1, NumbersOrdered
<1> QED BY <1>1, <1>2, TimesOrdered DEF OrderedStream

\* The frames of an ordered stream are short.
LEMMA OrderedIsShort ==
    ASSUME OrderedStream
    PROVE  ShortFrames /\ MarkedFrames /\ ShortTimes /\ NoPadding
<1>1. PICK b \in SeqNum : \A p \in Packets : Ahead(p.seq, b, SeqMod) < SeqMod \div 2
  BY DEF OrderedStream, ShortNumbers
<1>2. ShortFrames
  BY <1>1 DEF ShortFrames, PacketsOf, Media
<1> QED BY <1>2 DEF OrderedStream

\* Two complete frames of one timestamp end with the same packet.
LEMMA SameBack ==
    ASSUME OrderedStream, NEW t, NEW f, <<t, f>> \in SolidFrames,
           NEW g, <<t, g>> \in SolidFrames,
           f.state = "Complete", g.state = "Complete"
    PROVE  f.back = g.back
<1>1. /\ t \in Times /\ f \in Assembled(t) /\ g \in Assembled(t)
      /\ f.back \in Numbers(t) /\ g.back \in Numbers(t)
  BY SolidEnds
<1>2. SessionComplete(f) /\ SessionComplete(g) /\ HasBack(f) /\ HasBack(g)
  BY <1>1 DEF Assembled
<1>3. t \in Timestamp
  BY <1>1, TimesOrdered DEF OrderedStream
<1>4. /\ \A p \in PacketsOf(t) : p.seq \in f.pkts
      /\ \A p \in PacketsOf(t) : p.seq \in g.pkts
  BY <1>1, <1>2, <1>3, WholeFrame, OrderedIsShort
<1>5. f.back \in g.pkts /\ g.back \in f.pkts
  BY <1>1, <1>4 DEF Numbers
<1>6. ~IsNewerSequenceNumber(f.back, g.back) /\ ~IsNewerSequenceNumber(g.back, f.back)
  BY <1>2, <1>5 DEF HasBack
<1> QED BY <1>1, <1>6, NumbersOrdered

-----------------------------------------------------------------------------
(***************************************************************************)
(* The walk of FindAndInsertContinuousFrames, from the frame f at ts on.   *)
(***************************************************************************)
\* The frames of inc the walk comes to.
WalkAhead(inc, ts) == {t \in DOMAIN inc : ~IsNewerTimestamp(ts, t)}

OlderIn(S, t) == {u \in S : IsNewerTimestamp(t, u)}

\* The frame at t continues the last frame moved before it, S being moved.
WalkContinues(inc, f, ts, S, t) ==
    IF OlderIn(S, t) = {} THEN IsContinuousInState(inc[t], SetState(f, ts))
    ELSE \E u \in OlderIn(S, t) :
            /\ \A v \in OlderIn(S, t) : ~IsNewerTimestamp(v, u)
            /\ IsContinuousInState(inc[t], SetState(inc[u], u))

WalkMoves(inc, f, ts, S) ==
    /\ S \subseteq WalkAhead(inc, ts)
    /\ \A t \in WalkAhead(inc, ts) : t \in S <=> WalkContinues(inc, f, ts, S, t)

\* What the walk does at a frame depends on the older frames only.
LEMMA WalkLocal ==
    ASSUME NEW inc, NEW f, NEW ts, NEW S, NEW T, NEW t, OlderIn(S, t) = OlderIn(T, t)
    PROVE  WalkContinues(inc, f, ts, S, t) <=> WalkContinues(inc, f, ts, T, t)
  BY DEF WalkContinues

\* The walk moves one set of frames ...
LEMMA WalkExists ==
    ASSUME ShortTimes, NEW inc, DOMAIN inc \subseteq Times, NEW f, NEW ts
    PROVE  \E S : WalkMoves(inc, f, ts, S)
<1>1. PICK b \in Timestamp : \A p \in Packets : Ahead(p.ts, b, TsMod) < TsMod \div 2
  BY DEF ShortTimes
<1> DEFINE A == WalkAhead(inc, ts)
           Pos(t) == Ahead(t, b, TsMod)
           C(S, t) == WalkContinues(inc, f, ts, S, t)
           Upto(n, S) == /\ S \subseteq {t \in A : Pos(t) < n}
                         /\ \A t \in A : Pos(t) < n => (t \in S <=> C(S, t))
           N == {n \in Nat : \E S : Upto(n, S)}
<1>2. ASSUME NEW x \in A, NEW y \in A
      PROVE  /\ Pos(x) \in Nat /\ Pos(x) < TsMod
             /\ IsNewerTimestamp(x, y) <=> Pos(y) < Pos(x)
             /\ Pos(x) = Pos(y) => x = y
  <2>1. /\ x \in Timestamp /\ y \in Timestamp
        /\ Ahead(x, b, TsMod) < TsMod \div 2 /\ Ahead(y, b, TsMod) < TsMod \div 2
    BY <1>1, VideoReceiverAssumption DEF WalkAhead, Times, Packet
  <2>2. TsMod \in Nat /\ TsMod > 1 /\ TsMod \div 2 <= TsMod
    BY ModAssumption
  <2>3. Pos(x) \in 0 .. TsMod
    BY <2>1, TimeOrder
  <2>4. Pos(x) \in Nat /\ Pos(x) < TsMod
    BY <2>1, <2>2, <2>3
  <2> QED BY <2>1, <2>4, TimeOrder
<1>3. 0 \in N
  <2>1. Upto(0, {})
    BY <1>2
  <2> QED BY <2>1
<1> HIDE DEF A, Pos, C
<1>4. ASSUME NEW n \in Nat, n \in N PROVE n + 1 \in N
  <2>1. PICK S : Upto(n, S)
    BY <1>4
  <2>2. CASE ~\E t \in A : Pos(t) = n
    <3>1. \A t \in A : Pos(t) < n + 1 => Pos(t) < n
      BY <1>2, <2>2
    <3>2. Upto(n + 1, S)
      BY <1>2, <2>1, <3>1
    <3> QED BY <3>2
  <2>3. ASSUME NEW t \in A, Pos(t) = n PROVE n + 1 \in N
    <3> DEFINE T == IF C(S, t) THEN S \cup {t} ELSE S
    <3>1. S \subseteq A /\ t \notin S /\ T \subseteq A
      BY <1>2, <2>1, <2>3
    <3>2. ASSUME NEW u \in A, Pos(u) < n + 1 PROVE OlderIn(T, u) = OlderIn(S, u)
      <4>1. ~IsNewerTimestamp(u, t)
        BY <1>2, <2>3, <3>2
      <4> QED BY <4>1 DEF OlderIn
    <3>3. ASSUME NEW u \in A, Pos(u) < n + 1 PROVE C(T, u) <=> C(S, u)
      <4> HIDE DEF T
      <4> QED BY <3>2, <3>3, WalkLocal DEF C
    <3>4. ASSUME NEW u \in A, Pos(u) < n + 1 PROVE u \in T <=> C(T, u)
      <4>1. CASE u = t
        BY <3>1, <3>3, <4>1, <3>4
      <4>2. CASE u # t
        <5>1. Pos(u) < n
          BY <1>2, <2>3, <3>4, <4>2
        <5> QED BY <2>1, <3>3, <3>4, <4>2, <5>1
      <4> QED BY <4>1, <4>2
    <3>5. T \subseteq {u \in A : Pos(u) < n + 1}
      BY <1>2, <2>1, <2>3, <3>1
    <3>6. Upto(n + 1, T)
      <4> HIDE DEF T
      <4> QED BY <3>4, <3>5
    <3> QED BY <3>6
  <2> QED BY <2>2, <2>3
<1>5. TsMod \in N
  <2> HIDE DEF N
  <2> QED BY <1>3, <1>4, LF!SetInduction, ModAssumption
<1>6. PICK S : Upto(TsMod, S)
  BY <1>5
<1>7. /\ S \subseteq A
      /\ \A t \in A : t \in S <=> C(S, t)
  BY <1>2, <1>6
<1> QED BY <1>7 DEF WalkMoves, A, C

\* ... and no other.
LEMMA WalkUnique ==
    ASSUME ShortTimes, NEW inc, DOMAIN inc \subseteq Times, NEW f, NEW ts,
           NEW S, WalkMoves(inc, f, ts, S), NEW T, WalkMoves(inc, f, ts, T)
    PROVE  S = T
<1> DEFINE A == WalkAhead(inc, ts)
           D == {t \in A : ~(t \in S <=> t \in T)}
<1>1. S \subseteq A /\ T \subseteq A /\ A \subseteq Times
  BY DEF WalkMoves, WalkAhead
<1>2. ASSUME D # {} PROVE FALSE
  <2>1. PICK t \in D : \A u \in D : ~IsNewerTimestamp(t, u)
    <3>1. D \subseteq Times
      BY <1>1
    <3> HIDE DEF D
    <3> QED BY <1>2, <3>1, OldestExists
  <2>2. OlderIn(S, t) = OlderIn(T, t)
    BY <1>1, <2>1 DEF OlderIn
  <2>3. t \in S <=> t \in T
    BY <2>1, <2>2, WalkLocal DEF WalkMoves
  <2> QED BY <2>1, <2>3
<1> QED BY <1>1, <1>2

\* j with the frames S moved to decodable_frames_.
WithMoved(j, S) ==
    [j EXCEPT !.decodable = [t \in DOMAIN j.decodable \cup S |->
                               IF t \in DOMAIN j.decodable THEN j.decodable[t]
                               ELSE j.incomplete[t]],
              !.incomplete = Remove(j.incomplete, S)]

\* FindAndInsertContinuousFrames moves the frames of its walk.
LEMMA FindAndInsertWalks ==
    ASSUME ShortTimes, NEW j \in JB, DOMAIN j.incomplete \subseteq Times, NEW f, NEW ts
    PROVE  LET k == FindAndInsertContinuousFrames(j, f, ts)
           IN  /\ k \in JB
               /\ \E S : /\ WalkMoves(j.incomplete, f, ts, S) /\ Moved(j, k, S)
                         /\ k = WithMoved(j, S)
<1> DEFINE inc == j.incomplete
           ahead == {t \in DOMAIN inc : ~IsNewerTimestamp(ts, t)}
           Before(S, t) == {u \in S : IsNewerTimestamp(t, u)}
           Continues(S, t) ==
               IF Before(S, t) = {}
               THEN IsContinuousInState(inc[t], SetState(f, ts))
               ELSE \E u \in Before(S, t) :
                       /\ \A v \in Before(S, t) : ~IsNewerTimestamp(v, u)
                       /\ IsContinuousInState(inc[t], SetState(inc[u], u))
           IsWalk(S) == \A t \in ahead : t \in S <=> Continues(S, t)
           moved == UNION {S \in SUBSET ahead : IsWalk(S)}
           D == [t \in DOMAIN j.decodable \cup moved |->
                   IF t \in DOMAIN j.decodable THEN j.decodable[t] ELSE inc[t]]
           I == Remove(inc, moved)
           k == FindAndInsertContinuousFrames(j, f, ts)
<1>1. k = [j EXCEPT !.decodable = D, !.incomplete = I]
  BY DEF FindAndInsertContinuousFrames, JB
<1>2. ASSUME NEW S \in SUBSET ahead PROVE IsWalk(S) <=> WalkMoves(inc, f, ts, S)
  BY DEF WalkMoves, WalkAhead, WalkContinues, OlderIn
<1>3. PICK S : WalkMoves(inc, f, ts, S)
  BY WalkExists
<1>4. S \in SUBSET ahead
  BY <1>3 DEF WalkMoves, WalkAhead
<1> HIDE DEF IsWalk, ahead
<1>5. \A T \in SUBSET ahead : IsWalk(T) => T = S
  BY <1>2, <1>3, WalkUnique
<1>6. moved = S
  BY <1>2, <1>3, <1>4, <1>5
<1>7. k \in JB
  BY FindAndInsertMoves
<1> HIDE DEF moved
<1>8. /\ k.decodable = D /\ k.incomplete = I /\ k.missing = j.missing
      /\ k.latest = j.latest /\ k.last = j.last /\ k.fresh = j.fresh
      /\ k.running = j.running /\ k.event = j.event
  <2> HIDE DEF D, I, k
  <2> QED BY <1>1 DEF JB
<1>10. k = WithMoved(j, S)
  <2> HIDE DEF k
  <2> QED BY <1>1, <1>6 DEF WithMoved
<1> HIDE DEF k
<1>9. Moved(j, k, S)
  BY <1>6, <1>8 DEF Moved, SameFlags
<1> QED BY <1>3, <1>7, <1>9, <1>10 DEF k

-----------------------------------------------------------------------------
(***************************************************************************)
(* Where PlaceFrame puts the frame f of a packet with timestamp ts.        *)
(***************************************************************************)
SameLists(j, k) == k.decodable = j.decodable /\ k.incomplete = j.incomplete

PutDecodable(j, k, ts, f) ==
    /\ k.incomplete = j.incomplete
    /\ DOMAIN k.decodable = DOMAIN j.decodable \cup {ts}
    /\ k.decodable[ts] = f
    /\ \A t \in DOMAIN j.decodable : k.decodable[t] = j.decodable[t]

PutIncomplete(j, k, ts, f) ==
    /\ k.decodable = j.decodable
    /\ DOMAIN k.incomplete = DOMAIN j.incomplete \cup {ts}
    /\ k.incomplete[ts] = f
    /\ \A t \in DOMAIN j.incomplete : k.incomplete[t] = j.incomplete[t]

\* f becomes decodable, and the frames S of the walk with it.
PutAndWalked(j, k, ts, f, S) ==
    /\ WalkMoves(j.incomplete, f, ts, S)
    /\ DOMAIN k.decodable = DOMAIN j.decodable \cup {ts} \cup S
    /\ k.decodable[ts] = f
    /\ \A t \in DOMAIN j.decodable : k.decodable[t] = j.decodable[t]
    /\ \A t \in S : k.decodable[t] = j.incomplete[t]
    /\ DOMAIN k.incomplete = DOMAIN j.incomplete \ S
    /\ \A t \in DOMAIN k.incomplete : k.incomplete[t] = j.incomplete[t]

PlacedWhere(j, k, ts, f, from, ret) ==
    \/ SameLists(j, k)
    \/ /\ PutDecodable(j, k, ts, f)
       /\ ret = "kDuplicatePacket" /\ from = "decodable"
    \/ /\ PutIncomplete(j, k, ts, f)
       /\ \/ ret = "kIncomplete"
          \/ ret = "kDuplicatePacket" /\ from = "incomplete"
          \/ /\ ret \in {"kCompleteSession", "kDecodableSession"}
             /\ ~IsContinuous(j, f, ts)
    \/ /\ ret \in {"kCompleteSession", "kDecodableSession"}
       /\ IsContinuous(j, f, ts)
       /\ \E S : PutAndWalked(j, k, ts, f, S)

\* PlaceFrame puts the frame in one of these places.
LEMMA PlaceFrameWhere ==
    ASSUME ShortTimes, NEW j \in JB, Apart(j), DOMAIN j.incomplete \subseteq Times,
           NEW p \in Packet, NEW f \in Frame,
           p.ts \notin DOMAIN j.decodable, p.ts \notin DOMAIN j.incomplete,
           NEW from \in {"incomplete", "decodable", "none"}, NEW prev,
           NEW ret \in {"kSizeError", "kDuplicatePacket", "kCompleteSession",
                        "kDecodableSession", "kIncomplete", "kFlushIndicator"},
           ret \notin {"kSizeError", "kFlushIndicator"} => f \in FilledFrame
    PROVE  PlacedWhere(j, PlaceFrame(j, f, p, from, prev, ret).jb, p.ts, f, from, ret)
<1> DEFINE ts == p.ts
           continuous == IsContinuous(j, f, ts)
           r == PlaceFrame(j, f, p, from, prev, ret)
           dcd == [j EXCEPT !.decodable = InsertFrame(@, ts, f)]
           inc == [j EXCEPT !.incomplete = InsertFrame(@, ts, f)]
           free == ReleaseFrame(j)
           event == SignalsFrame(ret, prev, continuous)
           Set(k) == [k EXCEPT !.event = @ \/ event]
<1>1. ts \in Timestamp
  BY DEF Packet
<1>2. f \in FilledFrame =>
         /\ dcd \in JB /\ dcd.decodable = InsertFrame(j.decodable, ts, f)
         /\ dcd.incomplete = j.incomplete
  <2> DEFINE D == InsertFrame(j.decodable, ts, f)
  <2>1. f \in FilledFrame => D \in FrameList
    BY <1>1, CountType, InsertFrameType
  <2>2. dcd = [j EXCEPT !.decodable = D]
    OBVIOUS
  <2> HIDE DEF D, dcd
  <2> QED BY <2>1, <2>2 DEF JB, D
<1>3. f \in FilledFrame =>
         /\ inc \in JB /\ inc.incomplete = InsertFrame(j.incomplete, ts, f)
         /\ inc.decodable = j.decodable
  <2> DEFINE I == InsertFrame(j.incomplete, ts, f)
  <2>1. f \in FilledFrame => I \in FrameList
    BY <1>1, CountType, InsertFrameType
  <2>2. inc = [j EXCEPT !.incomplete = I]
    OBVIOUS
  <2> HIDE DEF I, inc
  <2> QED BY <2>1, <2>2 DEF JB, I
<1>4. free.incomplete = j.incomplete /\ free.decodable = j.decodable
  BY DEF ReleaseFrame, JB
<1>5. ASSUME NEW L
      PROVE  LET D == InsertFrame(L, ts, f)
             IN  /\ DOMAIN D = DOMAIN L \cup {ts}
                 /\ ts \notin DOMAIN L => D[ts] = f
                 /\ \A t \in DOMAIN L : D[t] = L[t]
  BY DEF InsertFrame
<1>6. f \in FilledFrame => PutDecodable(j, dcd, ts, f)
  <2> DEFINE D == InsertFrame(j.decodable, ts, f)
  <2>1. /\ DOMAIN D = DOMAIN j.decodable \cup {ts} /\ D[ts] = f
        /\ \A t \in DOMAIN j.decodable : D[t] = j.decodable[t]
    BY <1>5
  <2> HIDE DEF D, dcd
  <2> QED BY <1>2, <2>1 DEF PutDecodable, D
<1>7. f \in FilledFrame => PutIncomplete(j, inc, ts, f)
  <2> DEFINE I == InsertFrame(j.incomplete, ts, f)
  <2>1. /\ DOMAIN I = DOMAIN j.incomplete \cup {ts} /\ I[ts] = f
        /\ \A t \in DOMAIN j.incomplete : I[t] = j.incomplete[t]
    BY <1>5
  <2> HIDE DEF I, inc
  <2> QED BY <1>3, <2>1 DEF PutIncomplete, I
<1>8. ASSUME NEW k \in JB
      PROVE  Set(k).incomplete = k.incomplete /\ Set(k).decodable = k.decodable
  BY DEF JB
<1>9. CASE ret \in {"kCompleteSession", "kDecodableSession"} /\ continuous
  <2> DEFINE k == FindAndInsertContinuousFrames(dcd, f, ts)
  <2>1. f \in FilledFrame
    BY <1>9
  <2>2. r.jb = Set(k)
    BY <1>9 DEF PlaceFrame
  <2>3. PutDecodable(j, dcd, ts, f) /\ dcd \in JB
    BY <1>2, <1>6, <2>1
  <2> HIDE DEF dcd, inc, free, event, continuous
  <2>4. DOMAIN dcd.incomplete \subseteq Times
    BY <2>3 DEF PutDecodable
  <2>5. PICK S : WalkMoves(dcd.incomplete, f, ts, S) /\ Moved(dcd, k, S)
    BY <2>3, <2>4, FindAndInsertWalks
  <2>6. k \in JB
    BY <2>3, <2>4, FindAndInsertWalks
  <2> HIDE DEF k
  <2>7. S \subseteq DOMAIN j.incomplete /\ WalkMoves(j.incomplete, f, ts, S)
        /\ dcd.incomplete = j.incomplete
    BY <2>3, <2>5 DEF WalkMoves, WalkAhead, PutDecodable
  <2>8. ts \notin S /\ S \cap DOMAIN j.decodable = {}
    BY <2>7 DEF Apart
  <2>9. /\ DOMAIN k.decodable = DOMAIN dcd.decodable \cup S
        /\ \A t \in DOMAIN dcd.decodable \cup S : k.decodable[t] =
              IF t \in DOMAIN dcd.decodable THEN dcd.decodable[t] ELSE j.incomplete[t]
    BY <2>5, <2>7 DEF Moved
  <2>10. /\ DOMAIN k.decodable = DOMAIN j.decodable \cup {ts} \cup S
         /\ k.decodable[ts] = f
         /\ \A t \in DOMAIN j.decodable : k.decodable[t] = j.decodable[t]
         /\ \A t \in S : k.decodable[t] = j.incomplete[t]
    BY <2>3, <2>8, <2>9 DEF PutDecodable
  <2>11. /\ DOMAIN k.incomplete = DOMAIN j.incomplete \ S
         /\ \A t \in DOMAIN k.incomplete : k.incomplete[t] = j.incomplete[t]
    <3>1. j.incomplete \in FrameList /\ k.incomplete = Remove(j.incomplete, S)
      BY <2>5, <2>7, CountType DEF Moved
    <3> DEFINE I == Remove(j.incomplete, S)
    <3>2. /\ DOMAIN I = DOMAIN j.incomplete \ S
          /\ \A t \in DOMAIN j.incomplete \ S : I[t] = j.incomplete[t]
      BY <3>1, RemoveType
    <3> HIDE DEF I
    <3> QED BY <3>1, <3>2 DEF I
  <2>12. SameLists(k, r.jb)
    <3> HIDE DEF r, Set
    <3> QED BY <1>8, <2>2, <2>6 DEF SameLists
  <2>13. PutAndWalked(j, r.jb, ts, f, S)
    <3> HIDE DEF r
    <3> QED BY <2>7, <2>10, <2>11, <2>12 DEF PutAndWalked, SameLists
  <2> QED BY <1>9, <2>13 DEF PlacedWhere, continuous
<1>10. CASE ret \in {"kCompleteSession", "kDecodableSession"} /\ ~continuous
  <2>1. r.jb = Set(inc) /\ f \in FilledFrame
    BY <1>10 DEF PlaceFrame
  <2>2. PutIncomplete(j, inc, ts, f) /\ inc \in JB
    BY <1>3, <1>7, <2>1
  <2> HIDE DEF inc, event, continuous
  <2>3. SameLists(inc, r.jb)
    <3> HIDE DEF r, Set
    <3> QED BY <1>8, <2>1, <2>2 DEF SameLists
  <2>4. PutIncomplete(j, r.jb, ts, f)
    <3> HIDE DEF r
    <3> QED BY <2>2, <2>3 DEF PutIncomplete, SameLists
  <2> QED BY <1>10, <2>4 DEF PlacedWhere, continuous
<1>11. CASE ret = "kIncomplete"
  <2>1. CASE f.state = "Empty" /\ CanSkipEmptyFrame(j.last, f)
    <3> DEFINE last == SkipEmptyFrame(j.last, f, ts)
               skip == [free EXCEPT !.last = last]
    <3>1. r.jb = skip
      BY <1>11, <2>1 DEF PlaceFrame, ReleaseFrame, JB
    <3>2. skip.incomplete = free.incomplete /\ skip.decodable = free.decodable
      BY DEF ReleaseFrame, JB
    <3> HIDE DEF r, skip, free
    <3>3. SameLists(j, r.jb)
      BY <1>4, <3>1, <3>2 DEF SameLists
    <3> QED BY <3>3 DEF PlacedWhere, r
  <2>2. CASE ~(f.state = "Empty" /\ CanSkipEmptyFrame(j.last, f))
    <3>1. r.jb = inc /\ f \in FilledFrame
      BY <1>11, <2>2 DEF PlaceFrame
    <3>2. PutIncomplete(j, inc, ts, f)
      BY <1>7, <3>1
    <3> HIDE DEF inc, r
    <3> QED BY <1>11, <3>1, <3>2 DEF PlacedWhere, r
  <2> QED BY <2>1, <2>2
<1>12. CASE ret = "kDuplicatePacket"
  <2>1. f \in FilledFrame
    BY <1>12
  <2>2. \/ r.jb = dcd /\ from = "decodable"
        \/ r.jb = inc /\ from = "incomplete"
        \/ r.jb = free
    BY <1>12 DEF PlaceFrame, ReleaseFrame
  <2>3. /\ PutDecodable(j, dcd, ts, f) /\ PutIncomplete(j, inc, ts, f)
        /\ SameLists(j, free)
    BY <1>4, <1>6, <1>7, <2>1 DEF SameLists
  <2> HIDE DEF dcd, inc, free, r
  <2> QED BY <1>12, <2>2, <2>3 DEF PlacedWhere, r
<1>13. CASE ret \in {"kSizeError", "kFlushIndicator"}
  <2>1. r.jb = free
    BY <1>13 DEF PlaceFrame, ReleaseFrame
  <2>2. SameLists(j, free)
    BY <1>4 DEF SameLists
  <2> HIDE DEF free, r
  <2> QED BY <2>1, <2>2 DEF PlacedWhere, r
<1> QED BY <1>9, <1>10, <1>11, <1>12, <1>13

\* InsertPacket for a packet that is not old: where its frame goes.
LEMMA InsertNewPacketWhere ==
    ASSUME ShortTimes, NEW j \in JB, Sound(j), DOMAIN j.incomplete \subseteq Times,
           NEW p \in Packet
    PROVE  LET g == GetFrame([j EXCEPT !.old = 0], p.ts)
               i == FrameInsertPacket(g.frame, p)
               k == Counted(g.jb, p, i.ret)
               r == InsertNewPacket(j, p)
           IN  /\ p.ts \notin DOMAIN g.jb.decodable /\ p.ts \notin DOMAIN g.jb.incomplete
               /\ g.from \in {"incomplete", "decodable", "none"}
               /\ k.last \in {j.last, InitialDecodingState}
               /\ \/ r.jb = g.jb
                  \/ PlacedWhere(k, r.jb, p.ts, i.frame, g.from, i.ret)
<1> DEFINE j0 == [j EXCEPT !.old = 0]
           g == GetFrame(j0, p.ts)
           i == FrameInsertPacket(g.frame, p)
           counted == i.ret # "kSizeError"
           update == UpdateNackList(g.jb, p.seq)
           first == [g.jb EXCEPT !.latest = p.seq, !.fresh = FALSE]
           next == [update.jb EXCEPT !.latest = LatestSequenceNumber(@, p.seq)]
           k == Counted(g.jb, p, i.ret)
           ret == IF counted /\ ~g.jb.fresh /\ ~update.key /\ p.type # "key"
                  THEN "kFlushIndicator" ELSE i.ret
           r == InsertNewPacket(j, p)
<1>1. j0 \in JB /\ j0.incomplete = j.incomplete /\ j0.decodable = j.decodable
  BY DEF JB
<1>2. /\ r = IF g.ret # "kNoError" THEN [jb |-> g.jb, ret |-> g.ret]
             ELSE PlaceFrame(k, i.frame, p, g.from, g.frame.state, ret)
      /\ k = IF ~counted THEN g.jb ELSE IF g.jb.fresh THEN first ELSE next
  BY DEF InsertNewPacket, InsertIntoFrame, Counted
<1>3. /\ g.jb \in JB /\ k \in JB /\ g.frame \in Frame
      /\ Reduced(j, g.jb)
      /\ Sublist(k.incomplete, g.jb.incomplete)
      /\ Sublist(k.decodable, g.jb.decodable)
  BY InsertNewPacketResult
<1> HIDE DEF j0
<1>4. Sound(j0) /\ p.ts \in Timestamp /\ p.seq \in SeqNum
  BY <1>1 DEF Sound, Apart, OnlyComplete, Packet
<1>5. /\ g.from \in {"incomplete", "decodable", "none"}
      /\ p.ts \notin DOMAIN g.jb.decodable
      /\ p.ts \notin DOMAIN g.jb.incomplete
  BY <1>1, <1>4, GetFrameTakes
<1> HIDE DEF g, k, r
<1>6. /\ i.frame \in Frame
      /\ i.ret \in {"kSizeError", "kDuplicatePacket", "kCompleteSession",
                    "kDecodableSession", "kIncomplete"}
      /\ i.ret # "kSizeError" => i.frame \in FilledFrame
  BY <1>3, FrameInsertPacketType
<1> HIDE DEF i
<1>7. update.jb.last \in {g.jb.last, InitialDecodingState} /\ update.jb \in JB
  BY <1>3, <1>4, UpdateNackListResult
<1> HIDE DEF update
<1>8. first.last = g.jb.last /\ next.last = update.jb.last
  BY <1>3, <1>7 DEF JB
<1> HIDE DEF first, next
<1>9. k.last \in {j.last, InitialDecodingState}
  BY <1>2, <1>3, <1>7, <1>8 DEF Reduced
<1>10. /\ ret \in {"kSizeError", "kDuplicatePacket", "kCompleteSession",
                   "kDecodableSession", "kIncomplete", "kFlushIndicator"}
       /\ ret \in {i.ret, "kFlushIndicator"}
       /\ ret \notin {"kSizeError", "kFlushIndicator"} => i.frame \in FilledFrame
  BY <1>6
<1> HIDE DEF ret
<1>11. ASSUME g.ret = "kNoError"
       PROVE  PlacedWhere(k, r.jb, p.ts, i.frame, g.from, i.ret)
  <2> DEFINE f == i.frame
             from == g.from
             prev == g.frame.state
             q == PlaceFrame(k, f, p, from, prev, ret)
  <2>1. r = q
    BY <1>2, <1>11
  <2>2. p.ts \notin DOMAIN k.decodable /\ p.ts \notin DOMAIN k.incomplete
        /\ DOMAIN k.incomplete \subseteq Times
    BY <1>3, <1>5 DEF Sublist, Reduced
  <2>3. Apart(k)
    BY <1>3 DEF Apart, Sound, Sublist, Reduced
  <2>4. /\ f \in Frame /\ from \in {"incomplete", "decodable", "none"}
        /\ ret \notin {"kSizeError", "kFlushIndicator"} => f \in FilledFrame
    BY <1>5, <1>6, <1>10
  <2> HIDE DEF f, from, prev
  <2>5. PlacedWhere(k, q.jb, p.ts, f, from, ret)
    BY <1>3, <1>10, <2>2, <2>3, <2>4, PlaceFrameWhere
  <2> HIDE DEF q
  <2>6. PlacedWhere(k, q.jb, p.ts, f, from, i.ret)
    BY <1>10, <2>5 DEF PlacedWhere
  <2> QED BY <2>1, <2>6 DEF f, from
<1>12. g.ret # "kNoError" => r.jb = g.jb
  BY <1>2
<1> QED BY <1>5, <1>9, <1>11, <1>12 DEF r, k, g, i, j0

\* VCMFrameBuffer::InsertPacket keeps a frame solid, and changes a complete one
\* in nothing.
LEMMA InsertSolid ==
    ASSUME OrderedStream, NEW p \in Packets, NEW f,
           f = EmptyFrame \/ <<p.ts, f>> \in SolidFrames
    PROVE  LET r == FrameInsertPacket(f, p)
           IN  /\ r.ret # "kSizeError" => <<p.ts, r.frame>> \in SolidFrames
               /\ r.ret = "kDuplicatePacket" => r.frame = f /\ f # EmptyFrame
               /\ f.state = "Complete" => r.ret \in {"kSizeError", "kDuplicatePacket"}
               /\ r.ret = "kIncomplete" => r.frame.state # "Complete"
<1> DEFINE r == FrameInsertPacket(f, p)
           f0 == [f EXCEPT !.state = IF @ = "Empty" THEN "Incomplete" ELSE @]
           f1 == InsertMediaPacket(f0, p)
<1>1. /\ p \in Packet /\ p.type # "empty" /\ p.ts \in Times /\ p.seq \in SeqNum
      /\ ShortFrames /\ MarkedFrames
  BY OrderedIsShort, VideoReceiverAssumption DEF NoPadding, Times, Packet
<1>2. f \in Assembled(p.ts) /\ f \in Frame
  BY EmptyAssembled, EmptyFrameType DEF SolidFrames, StreamFrames, Assembled
<1>3. /\ r.frame \in Assembled(p.ts)
      /\ f.state = "Complete" /\ r.ret = "kCompleteSession" => p.type = "empty"
      /\ f.state = "Complete" => r.frame.pkts = f.pkts
      /\ r.frame.state = "Complete" => r.ret = "kCompleteSession" \/ f.state = "Complete"
  BY <1>1, <1>2, InsertAssembled
<1>4. \/ r.ret = "kSizeError"
      \/ r.frame = f0 /\ r.ret = "kDuplicatePacket" /\ p.seq \in f.pkts
      \/ /\ p.seq \notin f.pkts
         /\ r.ret \in {"kCompleteSession", "kDecodableSession", "kIncomplete"}
         /\ r.frame \in {f1, [f1 EXCEPT !.state = "Complete"],
                         [f1 EXCEPT !.state = "Decodable"]}
  BY <1>1 DEF FrameInsertPacket
<1>5. /\ f0 \in Frame /\ f0.pkts = f.pkts /\ f0.front = f.front /\ f0.ehigh = f.ehigh
      /\ f0.state # "Empty"
      /\ f.state # "Empty" => f0 = f
  BY <1>2 DEF Frame, FrameState
<1> HIDE DEF f0
<1>6. /\ f1 \in Frame /\ f1.pkts = f0.pkts \cup {p.seq} /\ f1.ehigh = f0.ehigh
      /\ f1.state = f0.state
      /\ f1.front = p.seq \/ (f0.pkts # {} /\ f1.front = f0.front)
  <2>1. f1 \in Frame
    BY <1>1, <1>5, InsertMediaPacketType DEF FilledFrame
  <2>2. /\ f1.pkts = f0.pkts \cup {p.seq} /\ f1.ehigh = f0.ehigh
        /\ f1.state = f0.state
        /\ f1.front = IF \A s \in f0.pkts : LatestSequenceNumber(p.seq, s) # p.seq
                      THEN p.seq ELSE f0.front
    BY <1>5 DEF InsertMediaPacket, Frame
  <2> HIDE DEF f1
  <2>3. f0.pkts = {} => f1.front = p.seq
    BY <2>2, Zenon
  <2>4. f1.front = p.seq \/ f1.front = f0.front
    BY <2>2, Zenon
  <2> QED BY <2>1, <2>2, <2>3, <2>4, Zenon
<1>7. f = EmptyFrame \/ Solid(f)
  BY DEF SolidFrames
<1>8. /\ f = EmptyFrame => f.pkts = {} /\ f.ehigh = NoSeq
      /\ f.pkts # {} => f.front \in f.pkts /\ f.state # "Empty"
      /\ f.ehigh = NoSeq
  BY <1>7 DEF EmptyFrame, Solid
<1>9. Solid(f1)
  BY <1>5, <1>6, <1>8 DEF Solid
<1>10. ASSUME NEW g, g \in {f1, [f1 EXCEPT !.state = "Complete"],
                            [f1 EXCEPT !.state = "Decodable"]}
       PROVE  Solid(g) /\ g.pkts = f1.pkts
  <2> HIDE DEF f1
  <2> QED BY <1>6, <1>9, <1>10 DEF Solid, Frame
<1> HIDE DEF f1, r
<1>11. r.ret = "kDuplicatePacket" => r.frame = f /\ f # EmptyFrame
  BY <1>4, <1>5, <1>8
<1>12. r.ret # "kSizeError" => Solid(r.frame)
  BY <1>4, <1>7, <1>10, <1>11
<1>13. r.ret # "kSizeError" => <<p.ts, r.frame>> \in SolidFrames
  BY <1>1, <1>3, <1>12 DEF SolidFrames, StreamFrames, Assembled
<1>14. f.state = "Complete" => r.ret \in {"kSizeError", "kDuplicatePacket"}
  BY <1>3, <1>4, <1>6, <1>10
<1>15. r.ret = "kIncomplete" => r.frame.state # "Complete"
  BY <1>3, <1>14
<1> QED BY <1>11, <1>13, <1>14, <1>15 DEF r

-----------------------------------------------------------------------------
(***************************************************************************)
(* No complete frame is stranded: none of incomplete_frames_ continues the *)
(* last decoded frame or a frame of decodable_frames_.                     *)
(***************************************************************************)
\* The frame g of incomplete_frames_ waits for a frame that is not in j.
Waits(j, g) ==
    g.state = "Complete" =>
        /\ ~ContinuousFrame(j.last, g)
        /\ \A u \in DOMAIN j.decodable : ~Follows(j.decodable[u], g)

NoneStranded(j) == \A t \in DOMAIN j.incomplete : Waits(j, j.incomplete[t])

\* The decoding state is past every packet of its timestamp.
LastWhole(j) ==
    ~j.last.initial => \A p \in Packets :
        p.ts = j.last.ts => ~IsNewerSequenceNumber(p.seq, j.last.seq)

OrderGood(j) == FramesIn(j, SolidFrames) /\ NoneStranded(j) /\ LastWhole(j)

\* A frame that waits in a buffer waits after frames have gone.
LEMMA WaitsReduced ==
    ASSUME NEW j, NEW k, NEW g, Waits(j, g),
           Sublist(k.decodable, j.decodable), k.last \in {j.last, InitialDecodingState}
    PROVE  Waits(k, g)
  BY DEF Waits, Sublist, ContinuousFrame, InitialDecodingState

\* Operations that only take frames away strand none.
LEMMA OrderReduced ==
    ASSUME NEW j, NEW k, OrderGood(j), Sublist(k.incomplete, j.incomplete),
           Sublist(k.decodable, j.decodable), k.last \in {j.last, InitialDecodingState}
    PROVE  OrderGood(k)
<1>1. FramesIn(k, SolidFrames)
  BY ReducedFrames DEF OrderGood
<1>2. NoneStranded(k)
  BY WaitsReduced DEF OrderGood, NoneStranded, Sublist
<1>3. LastWhole(k)
  BY DEF OrderGood, LastWhole, InitialDecodingState
<1> QED BY <1>1, <1>2, <1>3 DEF OrderGood

\* A frame whose lists and decoding state are alike is as good.
LEMMA OrderSame ==
    ASSUME NEW j, NEW k, OrderGood(j), SameLists(j, k),
           k.last = j.last \/ k.last = InitialDecodingState
    PROVE  OrderGood(k)
  BY DEF OrderGood, FramesIn, NoneStranded, Waits, LastWhole, SameLists,
         ContinuousFrame, InitialDecodingState

\* What a solid frame continues: a decoding state it follows.
LEMMA ContinuesSolid ==
    ASSUME NEW t, NEW f, <<t, f>> \in SolidFrames, NEW u, NEW g, <<u, g>> \in SolidFrames
    PROVE  ContinuousFrame(SetState(f, t), g) <=> g.type = "key" \/ Follows(f, g)
<1>1. LowSequenceNumber(g) = g.front /\ HighSequenceNumber(f) = f.back
  BY SolidEnds
<1> QED BY <1>1 DEF ContinuousFrame, SetState, ContinuousSeqNum, Follows

\* PlaceFrame strands no frame.
LEMMA PlacedStrandsNone ==
    ASSUME OrderedStream, DecodeErrorMode = "kNoErrors",
           NEW j, Apart(j), FramesIn(j, SolidFrames), NoneStranded(j),
           NEW ts, NEW f, <<ts, f>> \in SolidFrames,
           ts \notin DOMAIN j.decodable, ts \notin DOMAIN j.incomplete,
           NEW x, x.last = j.last, NEW from, NEW ret,
           PlacedWhere(j, x, ts, f, from, ret),
           ret \in {"kDuplicatePacket", "kCompleteSession", "kIncomplete"},
           ret = "kIncomplete" => f.state # "Complete",
           ret = "kCompleteSession" => f.state = "Complete",
           ret = "kDuplicatePacket" /\ from = "incomplete" => Waits(j, f),
           ret = "kDuplicatePacket" /\ from = "decodable" =>
               \A t \in DOMAIN j.incomplete :
                  j.incomplete[t].state = "Complete" => ~Follows(f, j.incomplete[t])
    PROVE  NoneStranded(x)
<1>0. /\ \A t \in DOMAIN j.decodable : <<t, j.decodable[t]>> \in SolidFrames
      /\ \A t \in DOMAIN j.incomplete : <<t, j.incomplete[t]>> \in SolidFrames
      /\ ts \in Times
  BY SolidEnds DEF FramesIn
<1>1. CASE SameLists(j, x)
  BY <1>1 DEF NoneStranded, Waits, SameLists
<1>2. CASE /\ PutDecodable(j, x, ts, f)
           /\ ret = "kDuplicatePacket" /\ from = "decodable"
  BY <1>2 DEF NoneStranded, Waits, PutDecodable
<1>3. ASSUME PutIncomplete(j, x, ts, f), Waits(j, f)
      PROVE  NoneStranded(x)
  BY <1>3 DEF NoneStranded, Waits, PutIncomplete
<1>4. CASE ret = "kCompleteSession" /\ ~IsContinuous(j, f, ts)
  <2>1. f.state = "Complete" /\ ~IsContinuousInState(f, j.last)
        /\ \A d \in DOMAIN j.decodable : ~IsNewerTimestamp(d, ts)
              => ~IsContinuousInState(f, SetState(j.decodable[d], d))
    BY <1>4 DEF IsContinuous
  <2>2. ~ContinuousFrame(j.last, f)
    BY <2>1 DEF IsContinuousInState
  <2>3. ASSUME NEW u \in DOMAIN j.decodable, Follows(j.decodable[u], f) PROVE FALSE
    <3>1. u \in Times /\ u # ts /\ <<u, j.decodable[u]>> \in SolidFrames
      BY <1>0, SolidEnds
    <3>2. IsNewerTimestamp(ts, u)
      BY <2>3, <3>1, FollowsOrder
    <3>3. ~IsNewerTimestamp(u, ts)
      BY <1>0, <3>1, <3>2, TimesOrdered DEF OrderedStream
    <3>4. ~ContinuousFrame(SetState(j.decodable[u], u), f)
      BY <2>1, <3>3 DEF IsContinuousInState
    <3> QED BY <2>3, <3>1, <3>4, ContinuesSolid
  <2>4. Waits(j, f)
    BY <2>2, <2>3 DEF Waits
  <2>5. SameLists(j, x) \/ PutIncomplete(j, x, ts, f)
    BY <1>4 DEF PlacedWhere
  <2> QED BY <1>1, <1>3, <2>4, <2>5
<1>5. ASSUME NEW S, PutAndWalked(j, x, ts, f, S), f.state = "Complete"
      PROVE  NoneStranded(x)
  <2> DEFINE inc == j.incomplete
  <2>1. SUFFICES ASSUME NEW t \in DOMAIN x.incomplete, x.incomplete[t].state = "Complete",
                        NEW u \in {ts} \cup S, Follows(x.decodable[u], inc[t])
                 PROVE  FALSE
    BY <1>5 DEF NoneStranded, Waits, PutAndWalked
  <2>2. /\ WalkMoves(inc, f, ts, S) /\ x.decodable[ts] = f
        /\ \A v \in S : x.decodable[v] = inc[v]
        /\ t \in DOMAIN inc /\ t \notin S /\ x.incomplete[t] = inc[t]
    BY <1>5 DEF PutAndWalked
  <2>3. S \subseteq DOMAIN inc /\ \A v \in S : ~IsNewerTimestamp(ts, v)
    BY <2>2 DEF WalkMoves, WalkAhead
  <2>4. \A v \in S \cup {ts, t} : v \in Times
    BY <1>0, <2>2, <2>3, SolidEnds
  <2>5. <<u, x.decodable[u]>> \in SolidFrames /\ <<t, inc[t]>> \in SolidFrames
    BY <1>0, <2>2, <2>3
  <2>6. u # t
    BY <2>2
  <2>7. /\ IsNewerTimestamp(t, u)
        /\ \A v \in Times : ~(IsNewerTimestamp(v, u) /\ IsNewerTimestamp(t, v))
    <3> DEFINE a == x.decodable[u]
               g == inc[t]
    <3>1. <<u, a>> \in SolidFrames /\ <<t, g>> \in SolidFrames /\ Follows(a, g)
      BY <2>1, <2>5
    <3> HIDE DEF a, g
    <3> QED BY <2>6, <3>1, FollowsOrder
  <2>8. ~IsNewerTimestamp(ts, t)
    <3>1. CASE u = ts
      BY <2>4, <2>7, <3>1, TimesOrdered DEF OrderedStream
    <3>2. CASE u \in S
      BY <2>3, <2>4, <2>7, <3>2, TimesOrdered DEF OrderedStream
    <3> QED BY <3>1, <3>2
  <2>9. ~WalkContinues(inc, f, ts, S, t)
    BY <2>2, <2>8 DEF WalkMoves, WalkAhead
  <2>10. IsContinuousInState(inc[t], SetState(x.decodable[u], u))
    BY <2>1, <2>2, <2>5, ContinuesSolid DEF IsContinuousInState
  <2>11. CASE u \in S
    <3>1. u \in OlderIn(S, t)
      BY <2>7, <2>11 DEF OlderIn
    <3>2. ASSUME NEW v \in OlderIn(S, t) PROVE ~IsNewerTimestamp(v, u)
      BY <2>4, <2>7 DEF OlderIn
    <3>3. SetState(x.decodable[u], u) = SetState(inc[u], u)
      BY <2>2, <2>11
    <3> QED BY <2>9, <2>10, <3>1, <3>2, <3>3 DEF WalkContinues
  <2>12. CASE u = ts
    <3>1. ASSUME NEW v \in OlderIn(S, t) PROVE FALSE
      <4>1. v \in S /\ IsNewerTimestamp(t, v) /\ v # ts
        BY <2>3 DEF OlderIn
      <4>2. IsNewerTimestamp(v, ts)
        BY <2>3, <2>4, <4>1, TimesOrdered DEF OrderedStream
      <4> QED BY <2>4, <2>7, <2>12, <4>1, <4>2
    <3>2. SetState(x.decodable[u], u) = SetState(f, ts)
      BY <2>2, <2>12
    <3> QED BY <2>9, <2>10, <3>1, <3>2 DEF WalkContinues
  <2> QED BY <2>11, <2>12
<1>6. CASE ret = "kIncomplete" \/ (ret = "kDuplicatePacket" /\ from = "incomplete")
  <2>1. Waits(j, f)
    BY <1>6 DEF Waits
  <2>2. SameLists(j, x) \/ PutIncomplete(j, x, ts, f)
    BY <1>6 DEF PlacedWhere
  <2> QED BY <1>1, <1>3, <2>1, <2>2
<1>7. CASE ret = "kDuplicatePacket" /\ from # "incomplete"
  BY <1>1, <1>2, <1>7 DEF PlacedWhere
<1>8. CASE ret = "kCompleteSession" /\ IsContinuous(j, f, ts)
  BY <1>1, <1>5, <1>8 DEF PlacedWhere
<1> QED BY <1>4, <1>6, <1>7, <1>8

\* InsertPacket strands no frame.
LEMMA InsertPacketOrder ==
    ASSUME OrderedStream, DecodeErrorMode = "kNoErrors", NEW j \in JB, Sound(j),
           OrderGood(j), NEW p \in Packets
    PROVE  OrderGood(InsertPacket(j, p).jb)
<1> DEFINE x == InsertPacket(j, p).jb
<1>1. p \in Packet /\ p.ts \in Times /\ ShortTimes
  BY VideoReceiverAssumption DEF Times, OrderedStream
<1>2. CASE IsOldTimestamp(j.last, p.ts)
  <2> DEFINE last == UpdateOldPacket(j.last, p)
  <2>1. x = InsertOldPacket(j, p).jb
    BY <1>2 DEF InsertPacket
  <2>2. \/ \E l \in JB : x = Flush(l)
        \/ /\ x.incomplete = j.incomplete /\ x.decodable = j.decodable
           /\ x.last = last
    BY <1>1, <2>1, InsertOldPacketResult
  <2>3. last = j.last
    <3>1. ~j.last.initial /\ j.last \in DecodingState
      BY <1>2 DEF IsOldTimestamp, JB
    <3>2. p.ts = j.last.ts => LatestSequenceNumber(p.seq, j.last.seq) = j.last.seq
      BY <3>1 DEF OrderGood, LastWhole, LatestSequenceNumber
    <3> QED BY <3>1, <3>2 DEF UpdateOldPacket, DecodingState
  <2> HIDE DEF x, last
  <2>4. ASSUME NEW l \in JB, x = Flush(l) PROVE OrderGood(x)
    <3>1. /\ x.decodable = EmptyList /\ x.incomplete = EmptyList
          /\ x.last = InitialDecodingState
      BY <2>4, FlushResult
    <3>2. FramesIn(x, SolidFrames)
      BY <3>1, EmptyFramesIn
    <3> QED BY <3>1, <3>2, EmptyListType
            DEF OrderGood, NoneStranded, LastWhole, InitialDecodingState
  <2> QED BY <2>2, <2>3, <2>4, OrderSame DEF SameLists, x
<1>3. CASE ~IsOldTimestamp(j.last, p.ts)
  <2> DEFINE g == GetFrame([j EXCEPT !.old = 0], p.ts)
             f == g.frame
             from == g.from
             i == FrameInsertPacket(f, p)
             k == Counted(g.jb, p, i.ret)
             r == InsertNewPacket(j, p)
  <2>1. x = r.jb
    BY <1>3 DEF InsertPacket
  <2>2. /\ g.frame \in Frame
        /\ Reduced(j, g.jb) /\ FoundIn(j, p.ts, g.from, g.frame)
        /\ Sublist(k.incomplete, g.jb.incomplete)
        /\ Sublist(k.decodable, g.jb.decodable)
        /\ \/ r.jb = g.jb
           \/ /\ Placed(k, r.jb, p.ts, i.frame)
              /\ \A G : FramesIn(k, G) /\ <<p.ts, i.frame>> \in G
                           => FramesIn(r.jb, G)
              /\ i.ret = "kSizeError" => /\ r.jb.decodable = k.decodable
                                         /\ r.jb.incomplete = k.incomplete
    BY <1>1, InsertNewPacketResult
  <2>3. DOMAIN j.incomplete \subseteq Times
    BY SolidEnds DEF OrderGood, FramesIn
  <2>4. /\ p.ts \notin DOMAIN g.jb.decodable /\ p.ts \notin DOMAIN g.jb.incomplete
        /\ k.last \in {j.last, InitialDecodingState}
        /\ \/ r.jb = g.jb
           \/ PlacedWhere(k, r.jb, p.ts, i.frame, from, i.ret)
    BY <1>1, <2>3, InsertNewPacketWhere
  <2>5. FoundIn(j, p.ts, from, f) /\ f \in Frame
    BY <2>2
  <2> HIDE DEF g, f, from, x
  <2>6. f = EmptyFrame \/ <<p.ts, f>> \in SolidFrames
    BY <2>5 DEF FoundIn, OrderGood, FramesIn
  <2>7. /\ i.ret # "kSizeError" => <<p.ts, i.frame>> \in SolidFrames
        /\ i.ret = "kDuplicatePacket" => i.frame = f /\ f # EmptyFrame
        /\ f.state = "Complete" => i.ret \in {"kSizeError", "kDuplicatePacket"}
        /\ i.ret = "kIncomplete" => i.frame.state # "Complete"
    BY <2>6, InsertSolid
  <2>8. f.state # "Decodable"
    BY <2>5 DEF FoundIn, Sound, OnlyComplete, EmptyFrame
  <2>9. /\ i.ret \in {"kSizeError", "kDuplicatePacket", "kCompleteSession", "kIncomplete"}
        /\ i.ret = "kCompleteSession" => i.frame.state = "Complete"
    BY <1>1, <2>5, <2>8, FrameInsertPacketType, FrameInsertPacketState
  <2> HIDE DEF i, k, r
  <2>10. OrderGood(g.jb) /\ OrderGood(k)
    <3>1. Sublist(k.incomplete, j.incomplete) /\ Sublist(k.decodable, j.decodable)
      BY <2>2 DEF Reduced, Sublist
    <3> QED BY <2>2, <2>4, <3>1, OrderReduced DEF Reduced
  <2>11. CASE r.jb = g.jb
    BY <2>1, <2>10, <2>11 DEF x
  <2>12. CASE r.jb # g.jb /\ i.ret = "kSizeError"
    <3>1. r.jb.decodable = k.decodable /\ r.jb.incomplete = k.incomplete
          /\ Placed(k, r.jb, p.ts, i.frame)
      BY <2>2, <2>12
    <3>2. r.jb.last = k.last \/ i.frame.state = "Empty"
      BY <3>1 DEF Placed
    <3>3. i.frame.state # "Empty"
      <4>1. p.type # "empty"
        BY OrderedIsShort DEF NoPadding
      <4>2. i.frame = [f EXCEPT !.state = IF @ = "Empty" THEN "Incomplete" ELSE @]
        BY <2>12, <4>1 DEF i, FrameInsertPacket
      <4> QED BY <2>5, <4>2 DEF Frame
    <3> QED BY <2>1, <2>10, <3>1, <3>2, <3>3, OrderSame DEF SameLists, x
  <2>13. CASE r.jb # g.jb /\ i.ret # "kSizeError"
    <3>1. <<p.ts, i.frame>> \in SolidFrames
      BY <2>7, <2>13
    <3>2. Placed(k, r.jb, p.ts, i.frame) /\ FramesIn(r.jb, SolidFrames)
      BY <2>2, <2>10, <2>13, <3>1 DEF OrderGood
    <3>3. i.frame.state # "Empty"
      BY <3>1 DEF SolidFrames, Solid
    <3>4. r.jb.last = k.last
      BY <3>2, <3>3 DEF Placed
    <3>5. LastWhole(r.jb)
      BY <2>10, <3>4 DEF OrderGood, LastWhole
    <3>6. p.ts \notin DOMAIN k.decodable /\ p.ts \notin DOMAIN k.incomplete
      BY <2>2, <2>4 DEF Sublist
    <3>7. Apart(k)
      BY <2>2 DEF Apart, Sound, Reduced, Sublist
    <3>8. i.ret = "kDuplicatePacket" /\ from = "incomplete" => Waits(k, i.frame)
      <4>1. SUFFICES ASSUME i.ret = "kDuplicatePacket", from = "incomplete"
                     PROVE  Waits(k, i.frame)
        OBVIOUS
      <4>2. i.frame = j.incomplete[p.ts] /\ p.ts \in DOMAIN j.incomplete
        BY <2>5, <2>7, <4>1 DEF FoundIn
      <4>3. Waits(j, i.frame)
        BY <4>2 DEF OrderGood, NoneStranded
      <4>4. Sublist(k.decodable, j.decodable)
        BY <2>2 DEF Reduced, Sublist
      <4> QED BY <2>4, <4>3, <4>4, WaitsReduced
    <3>9. i.ret = "kDuplicatePacket" /\ from = "decodable" =>
             \A t \in DOMAIN k.incomplete :
                k.incomplete[t].state = "Complete" => ~Follows(i.frame, k.incomplete[t])
      <4>1. SUFFICES ASSUME i.ret = "kDuplicatePacket", from = "decodable",
                            NEW t \in DOMAIN k.incomplete,
                            k.incomplete[t].state = "Complete"
                     PROVE  ~Follows(i.frame, k.incomplete[t])
        OBVIOUS
      <4>2. i.frame = j.decodable[p.ts] /\ p.ts \in DOMAIN j.decodable
        BY <2>5, <2>7, <4>1 DEF FoundIn
      <4>3. t \in DOMAIN j.incomplete /\ k.incomplete[t] = j.incomplete[t]
        BY <2>2 DEF Reduced, Sublist
      <4> QED BY <4>1, <4>2, <4>3 DEF OrderGood, NoneStranded, Waits
    <3>10. PlacedWhere(k, r.jb, p.ts, i.frame, from, i.ret)
      BY <2>4, <2>13
    <3>11. NoneStranded(r.jb)
      <4> DEFINE a == i.frame
                 ret == i.ret
                 y == r.jb
                 ts == p.ts
      <4>1. /\ <<ts, a>> \in SolidFrames /\ ts \notin DOMAIN k.decodable
            /\ ts \notin DOMAIN k.incomplete /\ y.last = k.last
            /\ PlacedWhere(k, y, ts, a, from, ret)
            /\ ret \in {"kDuplicatePacket", "kCompleteSession", "kIncomplete"}
            /\ ret = "kIncomplete" => a.state # "Complete"
            /\ ret = "kCompleteSession" => a.state = "Complete"
            /\ ret = "kDuplicatePacket" /\ from = "incomplete" => Waits(k, a)
            /\ ret = "kDuplicatePacket" /\ from = "decodable" =>
                  \A t \in DOMAIN k.incomplete :
                     k.incomplete[t].state = "Complete" => ~Follows(a, k.incomplete[t])
        BY <2>7, <2>9, <2>13, <3>1, <3>4, <3>6, <3>8, <3>9, <3>10
      <4>2. FramesIn(k, SolidFrames) /\ NoneStranded(k)
        BY <2>10 DEF OrderGood
      <4> HIDE DEF a, ret, y, ts
      <4>3. NoneStranded(y)
        BY <3>7, <4>1, <4>2, PlacedStrandsNone
      <4> QED BY <4>3 DEF y
    <3> QED BY <2>1, <3>2, <3>5, <3>11 DEF OrderGood, x
  <2> QED BY <2>11, <2>12, <2>13
<1> QED BY <1>2, <1>3

\* Without empty frames CleanUpOldOrEmptyFrames drops the frames that are old.
LEMMA CleanUpListSolid ==
    ASSUME NEW L \in FrameList, \A t \in DOMAIN L : L[t].state # "Empty", NEW st
    PROVE  LET c == CleanUpList(L, st)
           IN  /\ c.last = st
               /\ \A t \in DOMAIN L : t \notin DOMAIN c.list => IsOldTimestamp(st, t)
               /\ ShortTimes /\ DOMAIN L \subseteq Times /\ (~st.initial => st.ts \in Times)
                     => \A t \in DOMAIN c.list : ~IsOldTimestamp(st, t)
<1> DEFINE Older(t) == {u \in DOMAIN L : IsNewerTimestamp(t, u)}
           Void(S) == {u \in S : IsVoid(L, u)}
           StateAt(t) == StateAfterSkipping(L, st, Void(Older(t)))
           Removable(t) == IF IsVoid(L, t) THEN CanSkipEmptyFrame(StateAt(t), L[t])
                                           ELSE IsOldTimestamp(StateAt(t), t)
           gone == {t \in DOMAIN L :
                      Removable(t) /\ \A u \in Older(t) : Removable(u)}
           old == {t \in DOMAIN L : /\ IsOldTimestamp(st, t)
                                    /\ \A u \in Older(t) : IsOldTimestamp(st, u)}
           c == CleanUpList(L, st)
<1>1. \A S : S \subseteq DOMAIN L => Void(S) = {}
  BY DEF IsVoid
<1>2. StateAfterSkipping(L, st, {}) = st
  BY DEF StateAfterSkipping
<1>3. \A t \in DOMAIN L : Removable(t) <=> IsOldTimestamp(st, t)
  BY <1>1, <1>2 DEF IsVoid
<1>4. gone = old
  BY <1>3
<1>5. CleanUpList(L, st) = WithoutFrames(L, st, gone)
  BY DEF CleanUpList
<1> HIDE DEF gone, Removable, StateAt, Older
<1>6. c.list = Remove(L, old) /\ c.last = StateAfterSkipping(L, st, Void(old))
  BY <1>4, <1>5 DEF WithoutFrames
<1>7. c.last = st
  <2>1. Void(old) = {}
    BY <1>1
  <2> QED BY <1>2, <1>6, <2>1
<1> HIDE DEF c, Void
<1>8. DOMAIN c.list = DOMAIN L \ old
  <2> HIDE DEF old
  <2> QED BY <1>6, RemoveType
<1>9. ASSUME ShortTimes, DOMAIN L \subseteq Times, ~st.initial => st.ts \in Times,
             NEW t \in DOMAIN L, IsOldTimestamp(st, t)
      PROVE  t \in old
  <2>1. ~st.initial /\ ~IsNewerTimestamp(t, st.ts)
    BY <1>9 DEF IsOldTimestamp
  <2>2. ASSUME NEW u \in Older(t) PROVE IsOldTimestamp(st, u)
    <3>1. u \in Times /\ t \in Times /\ st.ts \in Times /\ IsNewerTimestamp(t, u)
      BY <1>9, <2>1 DEF Older
    <3>2. ~IsNewerTimestamp(u, st.ts)
      BY <1>9, <2>1, <3>1, TimesOrdered
    <3> QED BY <2>1, <3>2 DEF IsOldTimestamp
  <2> QED BY <1>9, <2>2
<1> QED BY <1>7, <1>8, <1>9 DEF c

\* The same for both lists.
LEMMA CleanUpSolid ==
    ASSUME NEW j \in JB, FramesIn(j, SolidFrames),
           NEW k, k = CleanUpOldOrEmptyFrames(j)
    PROVE  /\ k \in JB /\ k.last = j.last /\ FramesIn(k, SolidFrames) /\ SameFlags(j, k)
           /\ Sublist(k.incomplete, j.incomplete) /\ Sublist(k.decodable, j.decodable)
           /\ \A t \in DOMAIN j.decodable :
                 t \notin DOMAIN k.decodable => IsOldTimestamp(j.last, t)
           /\ ShortTimes /\ (~j.last.initial => j.last.ts \in Times)
                 => /\ \A t \in DOMAIN k.decodable : ~IsOldTimestamp(j.last, t)
                    /\ \A t \in DOMAIN k.incomplete : ~IsOldTimestamp(j.last, t)
<1> DEFINE d == CleanUpList(j.decodable, j.last)
           i == CleanUpList(j.incomplete, d.last)
<1>1. /\ k \in JB /\ SameFlags(j, k)
      /\ Sublist(k.incomplete, j.incomplete) /\ Sublist(k.decodable, j.decodable)
  BY CleanUpResult
<1>2. k.decodable = d.list /\ k.incomplete = i.list /\ k.last = i.last
  BY DEF CleanUpOldOrEmptyFrames, CleanedUp, JB
<1>3. /\ j.decodable \in FrameList /\ j.incomplete \in FrameList
      /\ \A t \in DOMAIN j.decodable : j.decodable[t].state # "Empty" /\ t \in Times
      /\ \A t \in DOMAIN j.incomplete : j.incomplete[t].state # "Empty" /\ t \in Times
  BY CountType, SolidEnds DEF FramesIn, SolidFrames, Solid
<1>4. /\ d.last = j.last
      /\ \A t \in DOMAIN j.decodable : t \notin DOMAIN d.list => IsOldTimestamp(j.last, t)
      /\ ShortTimes /\ (~j.last.initial => j.last.ts \in Times)
            => \A t \in DOMAIN d.list : ~IsOldTimestamp(j.last, t)
  BY <1>3, CleanUpListSolid
<1> HIDE DEF d
<1>5. /\ i.last = d.last
      /\ ShortTimes /\ (~j.last.initial => j.last.ts \in Times)
            => \A t \in DOMAIN i.list : ~IsOldTimestamp(j.last, t)
  BY <1>3, <1>4, CleanUpListSolid
<1> HIDE DEF i
<1>6. FramesIn(k, SolidFrames)
  BY <1>1, ReducedFrames
<1> QED BY <1>1, <1>2, <1>4, <1>5, <1>6

\* ExtractAndSetDecode strands no frame.
LEMMA ExtractOrder ==
    ASSUME OrderedStream, NEW j \in JB, OrderGood(j), NEW ts
    PROVE  OrderGood(ExtractAndSetDecode(j, ts).jb)
<1> DEFINE r == ExtractAndSetDecode(j, ts)
           k == r.jb
<1>1. /\ k.incomplete = j.incomplete /\ Sublist(k.decodable, j.decodable)
      /\ \/ k.last = j.last
         \/ \E t \in DOMAIN j.decodable : /\ j.decodable[t].state = "Complete"
                                          /\ k.last = SetState(j.decodable[t], t)
  BY ExtractResult
<1> HIDE DEF r
<1>2. Sublist(k.incomplete, j.incomplete)
  BY <1>1, CountType, SublistFacts
<1>3. CASE k.last = j.last
  BY <1>1, <1>2, <1>3, OrderReduced DEF r
<1>4. ASSUME NEW t \in DOMAIN j.decodable, j.decodable[t].state = "Complete",
             k.last = SetState(j.decodable[t], t)
      PROVE  OrderGood(k)
  <2> DEFINE f == j.decodable[t]
  <2>1. FramesIn(k, SolidFrames)
    BY <1>1, <1>2, ReducedFrames DEF OrderGood
  <2>2. <<t, f>> \in SolidFrames /\ f.state = "Complete"
    BY <1>4 DEF OrderGood, FramesIn
  <2>3. NoneStranded(k)
    <3>1. SUFFICES ASSUME NEW u \in DOMAIN j.incomplete,
                          j.incomplete[u].state = "Complete"
                   PROVE  ~ContinuousFrame(k.last, j.incomplete[u])
      BY <1>1 DEF NoneStranded, Waits, OrderGood, Sublist
    <3> DEFINE g == j.incomplete[u]
    <3>2. <<u, g>> \in SolidFrames /\ Waits(j, g) /\ g.state = "Complete"
      BY <3>1 DEF OrderGood, FramesIn, NoneStranded
    <3>3. g.type # "key" /\ ~Follows(f, g)
      BY <3>2 DEF Waits, ContinuousFrame
    <3> HIDE DEF f, g
    <3>4. ~ContinuousFrame(SetState(f, t), g)
      BY <2>2, <3>2, <3>3, ContinuesSolid
    <3> QED BY <1>4, <3>4 DEF f, g
  <2>4. LastWhole(k)
    <3>1. SUFFICES ASSUME NEW p \in Packets, p.ts = t
                   PROVE  ~IsNewerSequenceNumber(p.seq, HighSequenceNumber(f))
      BY <1>4 DEF LastWhole, SetState
    <3> HIDE DEF f
    <3>2. f \in Assembled(t) /\ t \in Times /\ HighSequenceNumber(f) = f.back
      BY <2>2, SolidEnds
    <3>3. t \in Timestamp
      BY <3>2, VideoReceiverAssumption DEF Times, Packet
    <3>4. SessionComplete(f) /\ HasBack(f) /\ f.pkts # {}
      BY <2>2, <3>2 DEF Assembled, SolidFrames, Solid
    <3>5. p \in PacketsOf(t)
      BY <3>1, OrderedIsShort DEF NoPadding, PacketsOf, Media
    <3>6. p.seq \in f.pkts
      BY <3>2, <3>3, <3>4, <3>5, WholeFrame, OrderedIsShort
    <3> QED BY <3>2, <3>4, <3>6 DEF HasBack
  <2> QED BY <2>1, <2>3, <2>4 DEF OrderGood
<1> QED BY <1>1, <1>3, <1>4 DEF r

\* What the steps other than InsertPacket and Extract do to the frames and the
\* decoding state of a solid buffer: frames go, and the state may be reset.
LEMMA OtherStepsOrder ==
    ASSUME IInv, Next, ~(\E p \in Packets : IncomingPacket(p)), ~Extract,
           FramesIn(jb, SolidFrames)
    PROVE  /\ Sublist(jb'.incomplete, jb.incomplete)
           /\ Sublist(jb'.decodable, jb.decodable)
           /\ jb'.last \in {jb.last, InitialDecodingState}
<1>1. jb \in JB
  BY JBDef DEF IInv, MainInv, TypeOK
<1>2. Sublist(jb'.incomplete, jb.incomplete) /\ Sublist(jb'.decodable, jb.decodable)
  BY OtherSteps
<1>3. CASE AdmitPacket \/ ResetKeyRequest \/ WaitTimedOut \/ NotDueYet
            \/ StopReceive \/ JoinDecodeThread \/ StartDecodeThread \/ StartReceive
  BY <1>2, <1>3 DEF AdmitPacket, ResetKeyRequest, WaitTimedOut, NotDueYet,
     StopReceive, JoinDecodeThread, StartDecodeThread, StartReceive
<1>4. CASE FlushIndicated \/ ResetAfterStop \/ TimingError
  <2>1. jb' \in {jb, Start(jb), Flush(jb)}
    BY <1>4 DEF FlushIndicated, ResetAfterStop, ResetDecoder, TimingError
  <2>2. Start(jb).last = InitialDecodingState
    BY <1>1 DEF Start, JB
  <2>3. Flush(jb).last = InitialDecodingState
    BY <1>1, FlushResult
  <2> QED BY <1>2, <2>1, <2>2, <2>3
<1>5. CASE NextComplete \/ LastLook
  <2> DEFINE j == CleanUpOldOrEmptyFrames(jb)
             k == CleanUpOldOrEmptyFrames(j)
  <2>1. jb' \in {jb, j, k}
    BY <1>5 DEF NextComplete, LastLook
  <2>2. j \in JB /\ j.last = jb.last /\ FramesIn(j, SolidFrames)
    BY <1>1, CleanUpSolid
  <2> HIDE DEF j
  <2>3. k.last = j.last
    BY <2>2, CleanUpSolid
  <2> QED BY <1>2, <2>1, <2>2, <2>3
<1>6. CASE WaitSignaled \/ DecodeFrame
  <2>1. jb' = [jb EXCEPT !.event = FALSE] \/ jb' = ReleaseFrame(jb)
    BY <1>6 DEF WaitSignaled, DecodeFrame
  <2>2. jb'.last = jb.last
    BY <1>1, <2>1 DEF JB, ReleaseFrame
  <2> QED BY <1>2, <2>2
<1>7. CASE ProcessNackList
  <2>1. Reduced(jb, jb')
    BY <1>1, <1>7, GetNackListReduces DEF ProcessNackList
  <2> QED BY <1>2, <2>1 DEF Reduced
<1>8. CASE TriggerDecoderShutdown
  <2>1. jb' = Stop(jb)
    BY <1>8 DEF TriggerDecoderShutdown
  <2>2. Stop(jb).last = InitialDecodingState
    BY <1>1, FreeAllFramesType DEF Stop, FreeAllFrames, JB
  <2> QED BY <1>2, <2>1, <2>2
<1> QED BY <1>3, <1>4, <1>5, <1>6, <1>7, <1>8
        DEF Next, Network, DecodeThread, ApiThread

\* Every step strands no frame.
LEMMA OrderStep ==
    ASSUME OrderedStream, DecodeErrorMode = "kNoErrors", IInv, OrderGood(jb), Next
    PROVE  OrderGood(jb)'
<1>1. jb \in JB /\ Sound(jb)
  BY JBDef DEF IInv, MainInv, TypeOK, BufferInv
<1>2. ASSUME NEW p \in Packets, IncomingPacket(p) PROVE OrderGood(jb')
  <2>1. jb' = InsertPacket(jb, p).jb
    BY <1>2 DEF IncomingPacket
  <2> QED BY <1>1, <2>1, InsertPacketOrder
<1>3. CASE Extract
  <2>1. jb' = ExtractAndSetDecode(jb, decTs).jb
    BY <1>3 DEF Extract
  <2> QED BY <1>1, <2>1, ExtractOrder
<1>4. CASE ~(\E p \in Packets : IncomingPacket(p)) /\ ~Extract
  <2>1. /\ Sublist(jb'.incomplete, jb.incomplete)
        /\ Sublist(jb'.decodable, jb.decodable)
        /\ jb'.last \in {jb.last, InitialDecodingState}
    BY <1>4, OtherStepsOrder DEF OrderGood
  <2> QED BY <2>1, OrderReduced
<1>5. OrderGood(jb')
  BY <1>2, <1>3, <1>4
<1> QED BY <1>5 DEF OrderGood, FramesIn, NoneStranded, Waits, LastWhole

\* No complete frame that continues the last decoded one is left in
\* incomplete_frames_, where NextCompleteTimestamp and ExtractAndSetDecode do not
\* look: IsContinuous and FindAndInsertContinuousFrames find every such frame,
\* although neither is called when a frame is decoded, recycled or cleaned up.
\* So it is for any number of restarts, and any loss, duplication and reordering.
THEOREM NoFrameIsStranded ==
    ASSUME DecodeErrorMode = "kNoErrors", OrderedStream
    PROVE  Spec => []NoStrandedFrame
<1>1. Init => OrderGood(jb)
  <2> SUFFICES ASSUME Init PROVE OrderGood(jb)
    OBVIOUS
  <2>1. /\ jb.decodable = EmptyList /\ jb.incomplete = EmptyList
        /\ jb.last = InitialDecodingState
    BY DEF Init, Start, NewJB
  <2>2. FramesIn(jb, SolidFrames)
    BY <2>1, EmptyFramesIn
  <2> QED BY <2>1, <2>2, EmptyListType
          DEF OrderGood, NoneStranded, LastWhole, InitialDecodingState
<1>2. IInv /\ OrderGood(jb) /\ [Next]_vars => OrderGood(jb)'
  <2>1. ASSUME IInv, OrderGood(jb), Next PROVE OrderGood(jb)'
    BY <2>1, OrderStep
  <2>2. ASSUME OrderGood(jb), UNCHANGED vars PROVE OrderGood(jb)'
    <3>1. jb' = jb
      BY <2>2 DEF vars
    <3> QED BY <2>2, <3>1 DEF OrderGood, FramesIn, NoneStranded, Waits, LastWhole
  <2> QED BY <2>1, <2>2
<1>3. OrderGood(jb) => NoStrandedFrame
  BY DEF OrderGood, NoneStranded, Waits, NoStrandedFrame
<1>4. Spec => []IInv
  BY Invariance
<1> QED BY <1>1, <1>2, <1>3, <1>4, PTL DEF Spec
=============================================================================
