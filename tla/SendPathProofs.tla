---------------------------- MODULE SendPathProofs ----------------------------
(***************************************************************************)
(* Proofs about SendPath, for any stream, history and rates.               *)
(***************************************************************************)
EXTENDS SendPath, ListFacts, FiniteSetTheorems

\* The packet that the process thread has taken out of prio_queue_.
Popped ==
    IF process.pc \in {"callback", "send", "sent", "refused"}
    THEN {process.packet} ELSE {}

Distinct(list) ==
    \A i, j \in DOMAIN list : list[i].seq = list[j].seq => i = j

\* The three views of the queue agree while the packets in out are popped, and
\* no number is in it twice.
GoodQueue(p, out) ==
    /\ IsPacer(p)
    /\ Distinct(p.packet_list)
    /\ out \cap p.prio_queue = {}
    /\ ToSet(p.packet_list) = p.prio_queue \cup out
    /\ p.dupe_set = {q.seq : q \in ToSet(p.packet_list)}

QueueInv == GoodQueue(pacer, Popped)

\* The ring fills from below: until it is full the slots below prev_index_ are
\* the ones in use, and the others are as vector::resize left them.
RingInv(h) ==
    /\ \A i \in Slots(h.size) : ~h.slot[i].stored => h.slot[i].seq = 0
    /\ \/ \A i \in Slots(h.size) : h.slot[i].stored
       \/ \A i \in Slots(h.size) : h.slot[i].stored <=> i < h.prev_index

\* crit_ of PayloadRouter is held while a frame or a packet goes through it.
RouterInv ==
    /\ router = "encoder" <=> encoder.pc # "idle"
    /\ router = "process" <=> process.pc = "send"

IInv == TypeOK /\ QueueInv /\ RingInv(history) /\ RouterInv

\* The positions that the encoder has brought to the pacer are below this one.
Horizon == IF encoder.pc \in {"pace", "send"} THEN encoder.pos ELSE rtp.pos

\* A packet from the encoder is queued under a number that it was given.
NumberInv ==
    /\ encoder.pc \in {"pace", "send"} => rtp.pos = encoder.pos + 1
    /\ \A q \in ToSet(pacer.packet_list) :
          ~q.retransmission => \E k \in 0 .. Horizon - 1 : q.seq = SeqAt(k)

Settled == handed \cup excused
Kept(s) == s \in Settled \/ s \in StoredSeqs(history)

\* The packet with this number may be sent again.
Resendable(s) == StorageOf(PosOf(s)) # "kDontRetransmit"

\* The slots have the storage type of their packets.
TypesAgree(h) ==
    \A i \in Slots(h.size) :
        h.slot[i].stored => h.slot[i].type = StorageOf(PosOf(h.slot[i].seq))

\* A packet that is queued, or on its way into the queue, and not accounted for
\* is in the history, and it may be fetched as what it is queued for.
LossInv ==
    /\ TypesAgree(history)
    /\ \A q \in ToSet(pacer.packet_list) :
          Kept(q.seq) /\ (q.retransmission => Resendable(q.seq))
    /\ process.pc = "sent" => process.packet.seq \in Settled
    /\ encoder.pc = "pace" => Kept(SeqAt(encoder.pos))
    /\ nack.pc = "pace" => Kept(Head(nack.list)) /\ Resendable(Head(nack.list))

Undisturbed == rtp.changes = 0 /\ pacer.enabled

Known(s) == s \in HistorySeq /\ PosOf(s) < Horizon
Done(s) == s \in handed \/ s \notin StoredSeqs(history)

\* Numbers known outside the encoder belong to positions below the horizon.
KnownInv ==
    /\ \A s \in handed \cup pacer.dupe_set \cup ToSet(nack.list) : Known(s)
    /\ \A s \in StoredSeqs(history) :
          Known(s) \/ (encoder.pc = "pace" /\ s = SeqAt(encoder.pos))

\* What the encoder has brought is handed over, gone from the history or queued;
\* what is queued as a retransmission is handed over or gone.
DoneInv ==
    /\ rtp.sending_media
    /\ encoder.pc # "send" /\ nack.pc # "send"
    /\ \A s : Known(s) => Done(s) \/ s \in pacer.dupe_set
    /\ \A q \in ToSet(pacer.packet_list) : q.retransmission => Done(q.seq)
    /\ process.pc = "sent" => Done(process.packet.seq)
    /\ process.pc = "send" /\ process.packet.retransmission =>
          process.packet.seq \in handed

Older(q, r) ==
    ~q.retransmission /\ ~r.retransmission => PosOf(q.seq) < PosOf(r.seq)

\* New packets are in the list in the order of their positions and frames.
Ordered(l, frame) ==
    /\ \A i, j \in DOMAIN l :
          i < j /\ ~l[i].retransmission /\ ~l[j].retransmission =>
             PosOf(l[i].seq) < PosOf(l[j].seq) /\ l[i].time <= l[j].time
    /\ \A i \in DOMAIN l : ~l[i].retransmission => l[i].time <= frame

\* The oldest new packet is popped first.
OrderInv ==
    /\ Ordered(pacer.packet_list, encoder.frame)
    /\ \A q \in Popped, r \in pacer.prio_queue : Older(q, r)

SettingsInv == Undisturbed => KnownInv /\ DoneInv /\ OrderInv

-----------------------------------------------------------------------------
(***************************************************************************)
(* The packet history.                                                     *)
(***************************************************************************)
GoodHistory(h) == IsHistory(h) /\ RingInv(h)

\* The same packets in the same slots; only send times differ.
SameSlots(h, g) ==
    /\ g.size = h.size /\ g.prev_index = h.prev_index
    /\ \A j \in Slots(h.size) :
          /\ g.slot[j].seq = h.slot[j].seq
          /\ g.slot[j].stored = h.slot[j].stored
          /\ g.slot[j].type = h.slot[j].type

\* FindSeqNum returns a slot that holds the number, or -1 if none does.
LEMMA FindFacts ==
    ASSUME NEW h, GoodHistory(h), NEW s
    PROVE  /\ FindSeqNum(h, s) \in Slots(h.size) \cup {-1}
           /\ FindSeqNum(h, s) # -1 => h.slot[FindSeqNum(h, s)].seq = s
           /\ \A i \in Slots(h.size) :
                 h.slot[i].stored /\ h.slot[i].seq = s => HasRTPPacket(h, s)
<1> USE DEF GoodHistory
<1> DEFINE match == {i \in Slots(h.size) : h.slot[i].seq = s}
<1>0. /\ h.size \in Nat /\ h.size > 0 /\ h.prev_index \in Slots(h.size)
      /\ h.slot \in [Slots(h.size) -> Slot]
  BY DEF IsHistory
<1>1. match # {} => Min(match) \in match /\ \A y \in match : Min(match) <= y
  <2>1. match \subseteq Nat
    BY <1>0 DEF Slots
  <2> HIDE DEF match
  <2> QED BY <2>1, MinFacts
<1>2. FindSeqNum(h, s) = IF match = {} THEN -1
                         ELSE IF FirstGuess(h, s) \in match THEN FirstGuess(h, s)
                         ELSE Min(match)
  BY DEF FindSeqNum
<1>3. match = {} \/ FindSeqNum(h, s) \in match
  <2> HIDE DEF match
  <2> QED BY <1>1, <1>2
<1>4. match = {} => FindSeqNum(h, s) = -1
  BY <1>2
<1>5. ASSUME NEW i \in Slots(h.size), h.slot[i].stored, h.slot[i].seq = s
      PROVE  HasRTPPacket(h, s)
  <2>1. i \in match /\ FindSeqNum(h, s) \in match
    BY <1>3, <1>5
  <2>2. FindSeqNum(h, s) \in Slots(h.size) /\ FindSeqNum(h, s) # -1
    BY <2>1, <1>0 DEF Slots
  <2> SUFFICES h.slot[FindSeqNum(h, s)].stored
    BY <2>2 DEF HasRTPPacket
  <2>3. CASE s # 0
    <3>1. h.slot[FindSeqNum(h, s)].seq # 0
      BY <2>1, <2>3
    <3> QED BY <2>2, <3>1 DEF RingInv
  <2>4. CASE \A j \in Slots(h.size) : h.slot[j].stored
    BY <2>2, <2>4
  <2>5. CASE s = 0 /\ \A j \in Slots(h.size) : h.slot[j].stored <=> j < h.prev_index
    <3>1. i < h.prev_index /\ h.prev_index > 0
      BY <1>0, <1>5, <2>5 DEF Slots
    <3>2. h.prev_index - 1 \in Slots(h.size)
      BY <1>0, <3>1 DEF Slots
    <3>3. h.slot[h.prev_index - 1].seq \in Nat
      <4>1. h.slot[h.prev_index - 1] \in Slot
        BY <1>0, <3>2
      <4> QED BY <4>1, HistoryAssumption DEF Slot, HistorySeq
    <3>4. FirstGuess(h, s) < h.prev_index
      BY <1>0, <2>5, <3>1, <3>3, SMTT(40) DEF FirstGuess, Slots
    <3>5. Min(match) <= i
      <4> HIDE DEF match
      <4> QED BY <1>1, <2>1
    <3>6. Min(match) < h.prev_index
      <4>1. Min(match) \in match
        <5> HIDE DEF match
        <5> QED BY <1>1, <2>1
      <4>2. Min(match) \in Nat
        BY <4>1, <1>0 DEF Slots
      <4> HIDE DEF match
      <4> QED BY <3>1, <3>5, <4>2, <1>0 DEF Slots
    <3>7. FindSeqNum(h, s) < h.prev_index
      <4> HIDE DEF match
      <4> QED BY <1>2, <2>1, <3>4, <3>6
    <3> QED BY <2>2, <2>5, <3>7
  <2> QED BY <2>3, <2>4, <2>5 DEF RingInv
<1>6. FindSeqNum(h, s) # -1 => FindSeqNum(h, s) \in match
  BY <1>3, <1>4
<1> QED BY <1>3, <1>4, <1>5, <1>6

\* Marking a slot as sent changes nothing else.
LEMMA MarkSlot ==
    ASSUME NEW h, GoodHistory(h), NEW i \in Slots(h.size)
    PROVE  /\ GoodHistory([h EXCEPT !.slot[i].sent = "recent"])
           /\ SameSlots(h, [h EXCEPT !.slot[i].sent = "recent"])
<1> USE DEF GoodHistory
<1> DEFINE e == [h.slot[i] EXCEPT !.sent = "recent"]
           g == [h EXCEPT !.slot[i].sent = "recent"]
<1>1. h.slot[i] \in Slot
  BY DEF IsHistory
<1>2. /\ e \in Slot /\ e.seq = h.slot[i].seq /\ e.stored = h.slot[i].stored
      /\ e.type = h.slot[i].type
  BY <1>1 DEF Slot, SendTime
<1>3. /\ g = [size |-> g.size, prev_index |-> g.prev_index, slot |-> g.slot]
      /\ g.size = h.size /\ g.prev_index = h.prev_index
      /\ g.slot = [h.slot EXCEPT ![i] = e]
  BY DEF IsHistory
<1> HIDE DEF e, g
<1>4. g.slot[i] = e /\ \A j \in Slots(h.size) : j # i => g.slot[j] = h.slot[j]
  BY <1>3 DEF IsHistory
<1>5. g.slot \in [Slots(h.size) -> Slot]
  BY <1>2, <1>3 DEF IsHistory
<1>6. IsHistory(g)
  BY <1>3, <1>5 DEF IsHistory
<1>7. SameSlots(h, g)
  BY <1>2, <1>3, <1>4 DEF SameSlots
<1>8. RingInv(g)
  BY <1>7 DEF RingInv, SameSlots
<1> QED BY <1>6, <1>7, <1>8 DEF g

\* SetSent leaves the packets where they are.
LEMMA SetSentFacts ==
    ASSUME NEW h, GoodHistory(h), NEW s
    PROVE  GoodHistory(SetSent(h, s)) /\ SameSlots(h, SetSent(h, s))
<1>1. CASE FindSeqNum(h, s) # -1 /\ h.slot[FindSeqNum(h, s)].sent = "unsent"
  <2>1. FindSeqNum(h, s) \in Slots(h.size) /\ h.slot[FindSeqNum(h, s)].seq = s
    BY <1>1, FindFacts
  <2>2. SetSent(h, s) = [h EXCEPT !.slot[FindSeqNum(h, s)].sent = "recent"]
    BY <1>1 DEF SetSent
  <2> QED BY <2>1, <2>2, MarkSlot
<1>2. CASE ~(FindSeqNum(h, s) # -1 /\ h.slot[FindSeqNum(h, s)].sent = "unsent")
  BY <1>2 DEF SetSent, SameSlots
<1> QED BY <1>1, <1>2

\* The send time that GetPacketAndSetSendTime sets marks s at most.
LEMMA SetSendTimeFacts ==
    ASSUME NEW h, GoodHistory(h), NEW s, HasRTPPacket(h, s)
    PROVE  GoodHistory(SetSendTime(h, s)) /\ SameSlots(h, SetSendTime(h, s))
<1>1. FindSeqNum(h, s) \in Slots(h.size) /\ h.slot[FindSeqNum(h, s)].seq = s
  BY FindFacts DEF HasRTPPacket
<1> QED BY <1>1, MarkSlot DEF SetSendTime

\* Time that passes changes neither the numbers stored nor what is unsent.
LEMMA AgeFacts ==
    ASSUME NEW h, GoodHistory(h)
    PROVE  GoodHistory(AgeSendTimes(h)) /\ SameSlots(h, AgeSendTimes(h))
<1> USE DEF GoodHistory
<1> DEFINE old(j) == IF h.slot[j].sent = "recent" THEN [h.slot[j] EXCEPT !.sent = "old"]
                     ELSE h.slot[j]
           g == AgeSendTimes(h)
<1>1. ASSUME NEW j \in Slots(h.size)
      PROVE  /\ old(j) \in Slot /\ old(j).seq = h.slot[j].seq
             /\ old(j).stored = h.slot[j].stored
             /\ old(j).type = h.slot[j].type
  <2>1. h.slot[j] \in Slot
    BY DEF IsHistory
  <2> QED BY <2>1 DEF Slot, SendTime
<1>2. /\ g = [size |-> g.size, prev_index |-> g.prev_index, slot |-> g.slot]
      /\ g.size = h.size /\ g.prev_index = h.prev_index
      /\ g.slot = [j \in Slots(h.size) |-> old(j)]
  BY DEF IsHistory, AgeSendTimes
<1> HIDE DEF old, g
<1>3. g.slot \in [Slots(h.size) -> Slot]
  BY <1>1, <1>2
<1>4. \A j \in Slots(h.size) : g.slot[j] = old(j)
  BY <1>2
<1>5. IsHistory(g)
  BY <1>2, <1>3 DEF IsHistory
<1>6. SameSlots(h, g)
  BY <1>1, <1>2, <1>4 DEF SameSlots
<1>7. RingInv(g)
  BY <1>6 DEF RingInv, SameSlots
<1> QED BY <1>5, <1>6, <1>7 DEF g

\* The history that SetStorePacketsStatus allocates is a good one.
LEMMA AllocatedFacts ==
    GoodHistory(Allocated(NumberToStore))
<1> DEFINE g == Allocated(NumberToStore)
<1>1. EmptySlot \in Slot
  BY HistoryAssumption DEF EmptySlot, Slot, SendTime, StorageType, HistorySeq
<1>2. /\ g = [size |-> g.size, prev_index |-> g.prev_index, slot |-> g.slot]
      /\ g.size = NumberToStore /\ g.prev_index = 0
      /\ g.slot = [i \in Slots(NumberToStore) |-> EmptySlot]
  BY DEF Allocated
<1>3. g.slot \in [Slots(NumberToStore) -> Slot]
  BY <1>1, <1>2
<1>4. \A i \in Slots(NumberToStore) : g.slot[i] = EmptySlot
  BY <1>2
<1> HIDE DEF g
<1>5. IsHistory(g)
  BY <1>2, <1>3, HistoryAssumption DEF IsHistory, Slots
<1>6. RingInv(g)
  BY <1>2, <1>4, HistoryAssumption DEF RingInv, EmptySlot, Slots
<1> QED BY <1>5, <1>6 DEF GoodHistory, g

\* The packet e is in slot k of g, and what was in h is where it was.
StoredAt(h, g, k, e) ==
    /\ k \in Slots(g.size) /\ g.slot[k] = e
    /\ \A i \in Slots(h.size) : i # k => i \in Slots(g.size) /\ g.slot[i] = h.slot[i]
    /\ \A i \in Slots(g.size) : i # k /\ i \notin Slots(h.size) => ~g.slot[i].stored
    /\ k \in Slots(h.size) => k = h.prev_index /\ (HoldsUnsent(h) => h.size = kMaxHistoryCapacity)

\* Storing a packet overwrites the slot at the write position.
LEMMA StoreFacts ==
    ASSUME NEW h, GoodHistory(h), NEW s \in HistorySeq, NEW time \in Nat,
           NEW type \in StorageType
    PROVE  /\ GoodHistory(StoreAtIndex(h, s, time, type))
           /\ StoreAtIndex(h, s, time, type).size = h.size
           /\ StoreAtIndex(h, s, time, type).slot =
                 [h.slot EXCEPT ![h.prev_index] =
                     [seq |-> s, stored |-> TRUE, sent |-> "unsent", type |-> type,
                      time |-> time]]
<1> USE DEF GoodHistory
<1> DEFINE e == [seq |-> s, stored |-> TRUE, sent |-> "unsent", type |-> type,
                 time |-> time]
           g == StoreAtIndex(h, s, time, type)
           k == h.prev_index
<1>1. e \in Slot /\ e.stored /\ e.seq = s
  BY DEF Slot, SendTime
<1>2. /\ g = [size |-> g.size, prev_index |-> g.prev_index, slot |-> g.slot]
      /\ g.size = h.size
      /\ g.prev_index = IF k + 1 >= h.size THEN 0 ELSE k + 1
      /\ g.slot = [h.slot EXCEPT ![k] = e]
  <2> DEFINE sl == [h.slot EXCEPT ![k] = e]
             nx == IF k + 1 >= h.size THEN 0 ELSE k + 1
  <2>1. h = [size |-> h.size, prev_index |-> h.prev_index, slot |-> h.slot]
    BY DEF IsHistory
  <2>2. g = [h EXCEPT !.slot = sl, !.prev_index = nx]
    BY <2>1 DEF StoreAtIndex
  <2> HIDE DEF sl, nx, g
  <2>3. g = [size |-> h.size, prev_index |-> nx, slot |-> sl]
    BY <2>1, <2>2
  <2> QED BY <2>3 DEF sl, nx
<1> HIDE DEF e, g
<1>3. /\ k \in Slots(h.size) /\ h.size \in Nat /\ h.size > 0
      /\ h.slot \in [Slots(h.size) -> Slot]
  BY DEF IsHistory
<1>4. g.slot \in [Slots(h.size) -> Slot]
  BY <1>1, <1>2, <1>3
<1>5. g.slot[k] = e /\ \A i \in Slots(h.size) : i # k => g.slot[i] = h.slot[i]
  BY <1>2, <1>3
<1>6. g.prev_index \in Slots(g.size)
  BY <1>2, <1>3 DEF Slots
<1>7. IsHistory(g)
  BY <1>2, <1>4, <1>6 DEF IsHistory
<1>8. RingInv(g)
  <2>1. \A i \in Slots(g.size) : ~g.slot[i].stored => g.slot[i].seq = 0
    BY <1>1, <1>2, <1>3, <1>5 DEF RingInv
  <2>2. CASE \A i \in Slots(h.size) : h.slot[i].stored
    <3>1. \A i \in Slots(g.size) : g.slot[i].stored
      BY <1>1, <1>2, <1>5, <2>2
    <3> QED BY <2>1, <3>1 DEF RingInv
  <2>3. CASE \A i \in Slots(h.size) : h.slot[i].stored <=> i < k
    <3>1. ASSUME NEW i \in Slots(h.size) PROVE g.slot[i].stored <=> i <= k
      <4>1. CASE i = k
        BY <1>1, <1>3, <1>5, <4>1 DEF Slots
      <4>2. CASE i # k
        <5>1. g.slot[i].stored <=> h.slot[i].stored
          BY <1>5, <4>2
        <5> QED BY <1>3, <2>3, <4>2, <5>1 DEF Slots
      <4> QED BY <4>1, <4>2
    <3>2. CASE k + 1 >= h.size
      <4>1. \A i \in Slots(g.size) : g.slot[i].stored
        BY <1>2, <1>3, <3>1, <3>2 DEF Slots
      <4> QED BY <2>1, <4>1 DEF RingInv
    <3>3. CASE ~(k + 1 >= h.size)
      <4>1. ASSUME NEW i \in Slots(g.size)
            PROVE  g.slot[i].stored <=> i < g.prev_index
        <5>1. i \in Slots(h.size) /\ (g.slot[i].stored <=> i <= k)
          BY <1>2, <3>1
        <5> QED BY <1>2, <1>3, <3>3, <5>1 DEF Slots
      <4> QED BY <2>1, <4>1 DEF RingInv
    <3> QED BY <3>2, <3>3
  <2> QED BY <2>2, <2>3 DEF RingInv
<1> QED BY <1>2, <1>7, <1>8 DEF g, e

\* Expanding the history keeps every packet.
LEMMA ExpandedFacts ==
    ASSUME NEW h, GoodHistory(h), HoldsUnsent(h), h.size < kMaxHistoryCapacity
    PROVE  /\ GoodHistory(Expanded(h))
           /\ Expanded(h).size > h.size /\ Expanded(h).prev_index = h.size
           /\ \A i \in Slots(h.size) : Expanded(h).slot[i] = h.slot[i]
           /\ \A i \in Slots(Expanded(h).size) :
                 i \notin Slots(h.size) => Expanded(h).slot[i] = EmptySlot
<1> USE DEF GoodHistory
<1> DEFINE g == Expanded(h)
           n == ExpandedSize(h.size)
<1>0. /\ h.size \in 1 .. kMaxHistoryCapacity /\ h.prev_index \in Slots(h.size)
      /\ h.slot \in [Slots(h.size) -> Slot]
  BY DEF IsHistory
<1>1. n \in 1 .. kMaxHistoryCapacity /\ n > h.size
  BY <1>0, HistoryAssumption DEF ExpandedSize, MinOf, MaxOf
<1>2. /\ g = [size |-> g.size, prev_index |-> g.prev_index, slot |-> g.slot]
      /\ g.size = n /\ g.prev_index = h.size
      /\ g.slot = [i \in Slots(n) |-> IF i < h.size THEN h.slot[i] ELSE EmptySlot]
  <2> DEFINE sl == [i \in Slots(n) |-> IF i < h.size THEN h.slot[i] ELSE EmptySlot]
  <2>1. h = [size |-> h.size, prev_index |-> h.prev_index, slot |-> h.slot]
    BY DEF IsHistory
  <2>2. g = [h EXCEPT !.size = n, !.prev_index = h.size, !.slot = sl]
    BY DEF Expanded
  <2> HIDE DEF sl, n, g
  <2>3. g = [size |-> n, prev_index |-> h.size, slot |-> sl]
    BY <2>1, <2>2
  <2> QED BY <2>3 DEF sl
<1>3. EmptySlot \in Slot /\ ~EmptySlot.stored /\ EmptySlot.seq = 0
  BY HistoryAssumption DEF EmptySlot, Slot, SendTime, StorageType, HistorySeq
<1> HIDE DEF g, n
<1>4. ASSUME NEW i \in Slots(n)
      PROVE  /\ i < h.size <=> i \in Slots(h.size)
             /\ i \in Slots(h.size) => g.slot[i] = h.slot[i]
             /\ i \notin Slots(h.size) => g.slot[i] = EmptySlot
             /\ g.slot[i] \in Slot
  <2>1. i < h.size <=> i \in Slots(h.size)
    BY <1>0, <1>1 DEF Slots
  <2>2. g.slot[i] = IF i < h.size THEN h.slot[i] ELSE EmptySlot
    BY <1>2
  <2> QED BY <1>0, <1>3, <2>1, <2>2
<1>5. g.slot \in [Slots(n) -> Slot]
  BY <1>2, <1>4
<1>6. IsHistory(g)
  BY <1>0, <1>1, <1>2, <1>5 DEF IsHistory, Slots
<1>7. \A i \in Slots(h.size) : i \in Slots(n)
  BY <1>0, <1>1 DEF Slots
<1>8. \A i \in Slots(h.size) : h.slot[i].stored
  <2>1. h.slot[h.prev_index].stored
    BY DEF HoldsUnsent
  <2>2. ~(h.prev_index < h.prev_index)
    BY <1>0 DEF Slots
  <2> QED BY <1>0, <2>1, <2>2 DEF RingInv
<1>9. RingInv(g)
  BY <1>2, <1>3, <1>4, <1>8 DEF RingInv
<1> QED BY <1>1, <1>2, <1>4, <1>6, <1>7, <1>9 DEF g

\* PutRTPPacket stores the packet in a slot, expanding the history if it must.
LEMMA PutFacts ==
    ASSUME NEW h, GoodHistory(h), NEW s \in HistorySeq, NEW time \in Nat,
           NEW type \in StorageType
    PROVE  /\ GoodHistory(PutRTPPacket(h, s, time, type))
           /\ \E k : StoredAt(h, PutRTPPacket(h, s, time, type), k,
                              [seq |-> s, stored |-> TRUE, sent |-> "unsent",
                               type |-> type, time |-> time])
<1> DEFINE e == [seq |-> s, stored |-> TRUE, sent |-> "unsent", type |-> type,
                 time |-> time]
           g == PutRTPPacket(h, s, time, type)
<1>1. CASE HoldsUnsent(h) /\ h.size < kMaxHistoryCapacity
  <2> DEFINE x == Expanded(h)
  <2>1. g = StoreAtIndex(x, s, time, type)
    BY <1>1 DEF PutRTPPacket
  <2>2. /\ GoodHistory(x) /\ x.size > h.size /\ x.prev_index = h.size
        /\ \A i \in Slots(h.size) : x.slot[i] = h.slot[i]
        /\ \A i \in Slots(x.size) : i \notin Slots(h.size) => x.slot[i] = EmptySlot
    BY <1>1, ExpandedFacts
  <2> HIDE DEF x
  <2>3. GoodHistory(g) /\ g.size = x.size /\ g.slot = [x.slot EXCEPT ![x.prev_index] = e]
    BY <2>1, <2>2, StoreFacts
  <2>4. /\ h.size \in Nat /\ x.size \in Nat /\ x.slot \in [Slots(x.size) -> Slot]
    BY <2>2 DEF GoodHistory, IsHistory
  <2> HIDE DEF e, g
  <2>5. StoredAt(h, g, h.size, e)
    <3>1. h.size \in Slots(g.size) /\ g.slot[h.size] = e /\ h.size \notin Slots(h.size)
      BY <2>2, <2>3, <2>4 DEF Slots
    <3>2. \A i \in Slots(h.size) : i \in Slots(g.size) /\ i # h.size
      BY <2>2, <2>3, <2>4 DEF Slots
    <3>3. \A i \in Slots(g.size) : i # h.size => g.slot[i] = x.slot[i]
      BY <2>2, <2>3, <2>4
    <3>4. \A i \in Slots(h.size) : g.slot[i] = h.slot[i]
      BY <2>2, <3>2, <3>3
    <3>5. ~EmptySlot.stored
      BY DEF EmptySlot
    <3>6. \A i \in Slots(g.size) :
             i # h.size /\ i \notin Slots(h.size) => ~g.slot[i].stored
      BY <2>2, <2>3, <3>3, <3>5
    <3> QED BY <3>1, <3>2, <3>4, <3>6 DEF StoredAt
  <2> QED BY <2>3, <2>5 DEF e, g
<1>2. CASE ~(HoldsUnsent(h) /\ h.size < kMaxHistoryCapacity)
  <2>1. g = StoreAtIndex(h, s, time, type)
    BY <1>2 DEF PutRTPPacket
  <2>2. GoodHistory(g) /\ g.size = h.size /\ g.slot = [h.slot EXCEPT ![h.prev_index] = e]
    BY <2>1, StoreFacts
  <2>3. /\ h.size \in 1 .. kMaxHistoryCapacity /\ h.prev_index \in Slots(h.size)
        /\ h.slot \in [Slots(h.size) -> Slot]
    BY DEF GoodHistory, IsHistory
  <2>4. HoldsUnsent(h) => h.size = kMaxHistoryCapacity
    BY <1>2, <2>3, HistoryAssumption
  <2> HIDE DEF e, g
  <2>5. StoredAt(h, g, h.prev_index, e)
    BY <2>2, <2>3, <2>4 DEF StoredAt
  <2> QED BY <2>2, <2>5 DEF e, g
<1> QED BY <1>1, <1>2

-----------------------------------------------------------------------------
(***************************************************************************)
(* The pacer and its queue.                                                *)
(***************************************************************************)
SameQueue(p, r) ==
    /\ r.packet_list = p.packet_list
    /\ r.prio_queue = p.prio_queue
    /\ r.dupe_set = p.dupe_set
    /\ r.enabled = p.enabled

\* A pacer with the same queue is as good.
LEMMA SameQueueIsGood ==
    ASSUME NEW p, NEW r, NEW out, GoodQueue(p, out), IsPacer(r), SameQueue(p, r)
    PROVE  GoodQueue(r, out)
  BY DEF GoodQueue, SameQueue

\* The queue of a new pacer is good.
LEMMA InitialPacerFacts ==
    ASSUME NEW b \in BOOLEAN
    PROVE  GoodQueue(InitialPacer(b), {})
<1> DEFINE r == InitialPacer(b)
<1>1. IsPacer(r)
  BY PacerAssumption DEF IsPacer, InitialPacer, ProbingState
<1>2. r.packet_list = <<>> /\ r.prio_queue = {} /\ r.dupe_set = {}
  BY DEF InitialPacer
<1> HIDE DEF r
<1>3. Distinct(r.packet_list) /\ ToSet(r.packet_list) = {}
  BY <1>2 DEF Distinct, ToSet
<1> QED BY <1>1, <1>2, <1>3 DEF GoodQueue, r

\* UpdateBytesPerInterval leaves the queue alone.
LEMMA UpdateFacts ==
    ASSUME NEW p, IsPacer(p)
    PROVE  /\ IsPacer(UpdateBytesPerInterval(p))
           /\ SameQueue(p, UpdateBytesPerInterval(p))
<1> DEFINE m == Increase(p.media, MediaRate)
           d == Increase(p.padding, PaddingRate)
<1>1. m \in -MaxDebt .. MediaRate /\ d \in -MaxDebt .. PaddingRate
  BY PacerAssumption DEF IsPacer, Increase
<1>2. UpdateBytesPerInterval(p) = [p EXCEPT !.media = m, !.padding = d]
  BY DEF UpdateBytesPerInterval, IsPacer
<1> HIDE DEF m, d
<1> QED BY <1>1, <1>2 DEF IsPacer, SameQueue

\* So does UseBudgets ...
LEMMA UseFacts ==
    ASSUME NEW p, IsPacer(p)
    PROVE  IsPacer(UseBudgets(p, 1)) /\ SameQueue(p, UseBudgets(p, 1))
<1> DEFINE m == Use(p.media, 1)
           d == Use(p.padding, 1)
<1>1. m \in -MaxDebt .. MediaRate /\ d \in -MaxDebt .. PaddingRate
  BY PacerAssumption DEF IsPacer, Use
<1>2. UseBudgets(p, 1) = [p EXCEPT !.media = m, !.padding = d]
  BY DEF UseBudgets, IsPacer
<1> HIDE DEF m, d
<1> QED BY <1>1, <1>2 DEF IsPacer, SameQueue

\* ... and so do the operations of the prober.
LEMMA ProbeFacts ==
    ASSUME NEW p, IsPacer(p), NEW tooLate
    PROVE  /\ IsPacer(MaybeInitializeProbe(p)) /\ SameQueue(p, MaybeInitializeProbe(p))
           /\ IsPacer(TimeUntilNextProbe(p, tooLate))
           /\ SameQueue(p, TimeUntilNextProbe(p, tooLate))
           /\ IsPacer(ProbePacketSent(p)) /\ SameQueue(p, ProbePacketSent(p))
<1>1. IsPacer(MaybeInitializeProbe(p)) /\ SameQueue(p, MaybeInitializeProbe(p))
  <2>1. ProbePackets \in 0 .. ProbePackets
    BY PacerAssumption
  <2> QED BY <2>1 DEF IsPacer, SameQueue, MaybeInitializeProbe, ProbingState
<1>2. /\ IsPacer(TimeUntilNextProbe(p, tooLate))
      /\ SameQueue(p, TimeUntilNextProbe(p, tooLate))
  BY DEF IsPacer, SameQueue, TimeUntilNextProbe, ProbingState
<1>3. IsPacer(ProbePacketSent(p)) /\ SameQueue(p, ProbePacketSent(p))
  <2> DEFINE n == IF IsProbing(p) /\ p.probes > 0 THEN p.probes - 1 ELSE p.probes
  <2>1. n \in 0 .. ProbePackets
    BY PacerAssumption DEF IsPacer
  <2>2. ProbePacketSent(p) = [p EXCEPT !.has_sent = TRUE, !.probes = n]
    BY DEF ProbePacketSent, IsPacer
  <2> HIDE DEF n
  <2> QED BY <2>1, <2>2 DEF IsPacer, SameQueue
<1> QED BY <1>1, <1>2, <1>3

\* A packet whose number is not in the queue goes to its end.
Pushed(p, r, q) ==
    /\ r.packet_list = Append(p.packet_list, q)
    /\ r.prio_queue = p.prio_queue \cup {q}
    /\ r.dupe_set = p.dupe_set \cup {q.seq}
    /\ r.enabled = p.enabled

\* Push adds the packet to list, heap and set, or drops a duplicate.
LEMMA PushFacts ==
    ASSUME NEW p, NEW out, GoodQueue(p, out), NEW q \in PacedPacket
    PROVE  /\ GoodQueue(Push(p, q), out)
           /\ q.seq \in p.dupe_set => Push(p, q) = p
           /\ q.seq \notin p.dupe_set => Pushed(p, Push(p, q), q)
<1>1. CASE q.seq \in p.dupe_set
  BY <1>1 DEF Push
<1>2. CASE q.seq \notin p.dupe_set
  <2> DEFINE r == Push(p, q)
             l == p.packet_list
  <2>0. IsPacer(p) /\ l \in Seq(PacedPacket) /\ q.seq \in Nat
    BY DEF GoodQueue, IsPacer, PacedPacket
  <2>1. Pushed(p, r, q)
    BY <1>2, <2>0 DEF Push, Pushed, IsPacer
  <2>2. IsPacer(r)
    <3>1. /\ Append(l, q) \in Seq(PacedPacket)
          /\ p.prio_queue \cup {q} \in SUBSET PacedPacket
          /\ p.dupe_set \cup {q.seq} \in SUBSET Nat
      BY <2>0 DEF IsPacer
    <3>2. r = [p EXCEPT !.packet_list = Append(l, q),
                        !.prio_queue = p.prio_queue \cup {q},
                        !.dupe_set = p.dupe_set \cup {q.seq}]
      BY <1>2, <2>0 DEF Push, IsPacer
    <3> HIDE DEF r
    <3> QED BY <2>0, <3>1, <3>2 DEF IsPacer
  <2> HIDE DEF r
  <2>3. ToSet(Append(l, q)) = ToSet(l) \cup {q}
    BY <2>0, AppendSet
  <2>4. \A e \in ToSet(l) : e.seq \in p.dupe_set /\ e # q
    BY <1>2 DEF GoodQueue
  <2>5. Distinct(Append(l, q))
    <3>1. /\ DOMAIN l = 1 .. Len(l) /\ Len(l) \in Nat
          /\ DOMAIN Append(l, q) = 1 .. Len(l) + 1
      BY <2>0
    <3>2. \A i \in 1 .. Len(l) : Append(l, q)[i] = l[i] /\ l[i] \in ToSet(l)
      BY <2>0 DEF ToSet
    <3>3. Append(l, q)[Len(l) + 1] = q
      BY <2>0
    <3>4. \A i, j \in 1 .. Len(l) : l[i].seq = l[j].seq => i = j
      BY <3>1 DEF GoodQueue, Distinct
    <3>5. ASSUME NEW i \in 1 .. Len(l) + 1, NEW j \in 1 .. Len(l) + 1,
                 Append(l, q)[i].seq = Append(l, q)[j].seq
          PROVE  i = j
      <4>1. CASE i \in 1 .. Len(l) /\ j \in 1 .. Len(l)
        BY <3>2, <3>4, <3>5, <4>1
      <4>2. CASE i = Len(l) + 1 /\ j = Len(l) + 1
        BY <4>2
      <4>3. CASE i \in 1 .. Len(l) /\ j = Len(l) + 1
        BY <1>2, <2>4, <3>2, <3>3, <3>5, <4>3
      <4>4. CASE i = Len(l) + 1 /\ j \in 1 .. Len(l)
        BY <1>2, <2>4, <3>2, <3>3, <3>5, <4>4
      <4> QED BY <3>1, <4>1, <4>2, <4>3, <4>4
    <3> QED BY <3>1, <3>5 DEF Distinct
  <2>6. out \cap r.prio_queue = {}
    <3>1. out \subseteq ToSet(l) /\ out \cap p.prio_queue = {}
      BY DEF GoodQueue
    <3> QED BY <2>1, <2>4, <3>1 DEF Pushed
  <2>7. ToSet(r.packet_list) = r.prio_queue \cup out
    BY <2>1, <2>3 DEF Pushed, GoodQueue
  <2>8. r.dupe_set = {e.seq : e \in ToSet(r.packet_list)}
    BY <2>1, <2>3 DEF Pushed, GoodQueue
  <2>9. Distinct(r.packet_list)
    BY <2>1, <2>5 DEF Pushed
  <2>10. GoodQueue(r, out)
    BY <2>2, <2>6, <2>7, <2>8, <2>9 DEF GoodQueue
  <2> QED BY <1>2, <2>1, <2>10 DEF r
<1> QED BY <1>1, <1>2

\* SendPacket of the pacer queues a packet that is not queued yet.
LEMMA EnqueueFacts ==
    ASSUME NEW p, NEW out, GoodQueue(p, out), NEW q \in PacedPacket
    PROVE  /\ GoodQueue(Enqueue(p, q), out)
           /\ q.seq \in p.dupe_set => SameQueue(p, Enqueue(p, q))
           /\ q.seq \notin p.dupe_set => Pushed(p, Enqueue(p, q), q)
<1> DEFINE m == MaybeInitializeProbe(p)
<1>1. IsPacer(m) /\ SameQueue(p, m)
  BY ProbeFacts DEF GoodQueue
<1>2. GoodQueue(m, out)
  BY <1>1, SameQueueIsGood
<1> HIDE DEF m
<1>3. /\ GoodQueue(Push(m, q), out)
      /\ q.seq \in m.dupe_set => Push(m, q) = m
      /\ q.seq \notin m.dupe_set => Pushed(m, Push(m, q), q)
  BY <1>2, PushFacts
<1>4. Enqueue(p, q) = Push(m, q)
  BY DEF Enqueue, m
<1> QED BY <1>1, <1>3, <1>4 DEF SameQueue, Pushed

\* BeginPop takes the packet off the heap only.
LEMMA BeginPopFacts ==
    ASSUME NEW p, GoodQueue(p, {}), NEW q \in p.prio_queue
    PROVE  /\ GoodQueue(BeginPop(p, q), {q}) /\ q \in PacedPacket
           /\ BeginPop(p, q).packet_list = p.packet_list
           /\ BeginPop(p, q).dupe_set = p.dupe_set
           /\ BeginPop(p, q).prio_queue = p.prio_queue \ {q}
           /\ BeginPop(p, q).enabled = p.enabled
  BY DEF GoodQueue, IsPacer, BeginPop

\* CancelPop puts it back.
LEMMA CancelPopFacts ==
    ASSUME NEW p, NEW q, GoodQueue(p, {q}), q \in PacedPacket
    PROVE  /\ GoodQueue(CancelPop(p, q), {})
           /\ CancelPop(p, q).packet_list = p.packet_list
           /\ CancelPop(p, q).dupe_set = p.dupe_set
           /\ CancelPop(p, q).prio_queue = p.prio_queue \cup {q}
           /\ CancelPop(p, q).enabled = p.enabled
  BY DEF GoodQueue, IsPacer, CancelPop

\* The list without its element q, which is in it once.
LEMMA DistinctRemoved ==
    ASSUME NEW s \in Seq(PacedPacket), Distinct(s), NEW k \in DOMAIN s,
           NEW t \in Seq(PacedPacket), RemovedAt(s, t, k)
    PROVE  /\ Distinct(t)
           /\ ToSet(t) = ToSet(s) \ {s[k]}
           /\ \A e \in ToSet(t) : e.seq # s[k].seq
<1> DEFINE up(i) == IF i < k THEN i ELSE i + 1
<1>1. /\ DOMAIN s = 1 .. Len(s) /\ Len(s) \in Nat /\ DOMAIN t = 1 .. Len(s) - 1
      /\ k \in 1 .. Len(s)
  BY DEF RemovedAt
<1>2. ASSUME NEW i \in DOMAIN t
      PROVE  t[i] = s[up(i)] /\ up(i) \in DOMAIN s /\ up(i) # k
  BY <1>1 DEF RemovedAt
<1>3. ASSUME NEW i \in DOMAIN t, NEW j \in DOMAIN t, up(i) = up(j) PROVE i = j
  BY <1>1, <1>3
<1>4. ASSUME NEW i \in DOMAIN s, i # k PROVE \E j \in DOMAIN t : up(j) = i
  <2>1. CASE i < k
    <3>1. i \in DOMAIN t /\ up(i) = i
      BY <1>1, <2>1
    <3> QED BY <3>1
  <2>2. CASE ~(i < k)
    <3>1. i - 1 \in DOMAIN t /\ up(i - 1) = i
      BY <1>1, <1>4, <2>2
    <3> QED BY <3>1
  <2> QED BY <2>1, <2>2
<1> HIDE DEF up
<1>5. Distinct(t)
  BY <1>2, <1>3 DEF Distinct
<1>6. \A i \in DOMAIN s : i # k => s[i] # s[k] /\ s[i].seq # s[k].seq
  BY DEF Distinct
<1>7. ToSet(t) = ToSet(s) \ {s[k]}
  <2>1. ASSUME NEW e \in ToSet(t) PROVE e \in ToSet(s) /\ e # s[k]
    <3>1. PICK i \in DOMAIN t : e = t[i]
      BY DEF ToSet
    <3> QED BY <1>2, <1>6, <3>1 DEF ToSet
  <2>2. ASSUME NEW e \in ToSet(s), e # s[k] PROVE e \in ToSet(t)
    <3>1. PICK i \in DOMAIN s : e = s[i]
      BY DEF ToSet
    <3>2. PICK j \in DOMAIN t : up(j) = i
      BY <1>4, <2>2, <3>1
    <3> QED BY <1>2, <3>1, <3>2 DEF ToSet
  <2> QED BY <2>1, <2>2
<1>8. ASSUME NEW e \in ToSet(t) PROVE e.seq # s[k].seq
  <2>1. PICK i \in DOMAIN t : e = t[i]
    BY DEF ToSet
  <2> QED BY <1>2, <1>6, <2>1
<1> QED BY <1>5, <1>7, <1>8

\* FinalizePop takes the packet off the list and the set.
LEMMA PacketSentFacts ==
    ASSUME NEW p, NEW q, GoodQueue(p, {q})
    PROVE  /\ GoodQueue(PacketSent(p, q), {})
           /\ PacketSent(p, q).prio_queue = p.prio_queue
           /\ PacketSent(p, q).dupe_set = p.dupe_set \ {q.seq}
           /\ PacketSent(p, q).enabled = p.enabled
           /\ \E k \in DOMAIN p.packet_list :
                 RemovedAt(p.packet_list, PacketSent(p, q).packet_list, k)
<1> DEFINE r == PacketSent(p, q)
           m == UseBudgets(ProbePacketSent(p), 1)
           l == p.packet_list
           t == RemoveFirst(l, q)
<1>1. IsPacer(m) /\ SameQueue(p, m)
  <2>1. IsPacer(ProbePacketSent(p)) /\ SameQueue(p, ProbePacketSent(p))
    BY ProbeFacts DEF GoodQueue
  <2>2. IsPacer(m) /\ SameQueue(ProbePacketSent(p), m)
    BY <2>1, UseFacts
  <2> QED BY <2>1, <2>2 DEF SameQueue
<1>2. l \in Seq(PacedPacket) /\ q \in ToSet(l) /\ Distinct(l)
  BY DEF GoodQueue, IsPacer
<1>3. t \in Seq(PacedPacket) /\ \E k \in DOMAIN l : l[k] = q /\ RemovedAt(l, t, k)
  BY <1>2, RemoveFirstFacts
<1>4. PICK k \in DOMAIN l : l[k] = q /\ RemovedAt(l, t, k)
  BY <1>3
<1>5. Distinct(t) /\ ToSet(t) = ToSet(l) \ {q} /\ \A e \in ToSet(t) : e.seq # q.seq
  <2> HIDE DEF l, t
  <2> QED BY <1>2, <1>3, <1>4, DistinctRemoved
<1>6. r = [m EXCEPT !.dupe_set = m.dupe_set \ {q.seq},
                    !.packet_list = RemoveFirst(m.packet_list, q)]
  BY DEF PacketSent, FinalizePop
<1> HIDE DEF m, r, t
<1>7. /\ IsPacer(r) /\ r.packet_list = t /\ r.prio_queue = p.prio_queue
      /\ r.dupe_set = p.dupe_set \ {q.seq} /\ r.enabled = p.enabled
  <2>1. RemoveFirst(m.packet_list, q) = t
    BY <1>1 DEF SameQueue, t
  <2>2. r = [m EXCEPT !.dupe_set = m.dupe_set \ {q.seq}, !.packet_list = t]
    BY <1>6, <2>1
  <2> QED BY <1>1, <1>3, <2>2 DEF IsPacer, SameQueue
<1>8. ToSet(t) = p.prio_queue
  BY <1>5 DEF GoodQueue
<1>9. p.dupe_set \ {q.seq} = {e.seq : e \in ToSet(t)}
  BY <1>5 DEF GoodQueue
<1>10. GoodQueue(r, {})
  BY <1>5, <1>7, <1>8, <1>9 DEF GoodQueue
<1> QED BY <1>4, <1>7, <1>10 DEF r

-----------------------------------------------------------------------------
(***************************************************************************)
(* The steps keep IInv.                                                    *)
(***************************************************************************)
LEMMA SeqAtType ==
    ASSUME NEW k \in Nat
    PROVE  SeqAt(k) \in HistorySeq /\ SeqAt(k) \in Nat /\ StorageOf(k) \in StorageType
  BY HistoryAssumption, SendPathAssumption DEF SeqAt, HistorySeq, StorageOf, StorageType

\* The sequence number in a slot.
LEMMA SlotSeqType ==
    ASSUME NEW h, IsHistory(h), NEW i \in DOMAIN h.slot
    PROVE  /\ DOMAIN h.slot = Slots(h.size)
           /\ h.slot[i].seq \in HistorySeq /\ h.slot[i].seq \in Nat
           /\ h.slot[i].time \in Nat
           /\ h.slot[i].sent \in SendTime /\ h.slot[i].stored \in BOOLEAN
<1>1. h.slot \in [Slots(h.size) -> Slot]
  BY DEF IsHistory
<1>2. h.slot[i] \in Slot
  BY <1>1
<1> QED BY <1>1, <1>2, HistoryAssumption DEF Slot, HistorySeq

\* The stored packets are numbers.
LEMMA StoredType ==
    ASSUME NEW h, IsHistory(h)
    PROVE  StoredSeqs(h) \subseteq Nat
  BY SlotSeqType DEF StoredSeqs

ProcessType == [pc: {"idle", "callback", "send", "sent", "refused", "pad", "padded"},
                packet: PacedPacket]

\* The idle state of the process thread has its type.
LEMMA IdleType ==
    /\ NoPacket \in PacedPacket /\ Idle \in ProcessType /\ Idle.pc = "idle"
    /\ Idle.packet = NoPacket
  BY DEF Idle, NoPacket, PacedPacket, ProcessType

\* What the loop of Process does to the queue when nothing is popped.
LoopStep(p) ==
    \/ pacer' = p /\ process' \in ProcessType /\ process'.pc \in {"idle", "pad"}
    \/ /\ process' = [pc |-> "callback", packet |-> process'.packet]
       /\ process'.packet \in p.prio_queue /\ process'.packet \in PacedPacket
       /\ IsTop(p, process'.packet)
       /\ pacer' = BeginPop(p, process'.packet)

\* One turn of the loop in Process keeps the queue good.
LEMMA LoopFacts ==
    ASSUME NEW p, GoodQueue(p, {}), ProcessLoop(p)
    PROVE  /\ LoopStep(p) /\ QueueInv' /\ process' \in ProcessType
           /\ process'.pc \in {"idle", "pad", "callback"}
<1>1. CASE pacer' = p /\ process' = Idle
  <2>1. process' \in ProcessType /\ process'.pc = "idle"
    BY <1>1, IdleType
  <2> QED BY <1>1, <2>1 DEF LoopStep, QueueInv, Popped
<1>2. CASE pacer' = p /\ process' = [pc |-> "pad", packet |-> NoPacket]
  <2>1. process' \in ProcessType /\ process'.pc = "pad"
    BY <1>2, IdleType DEF ProcessType
  <2> QED BY <1>2, <2>1 DEF LoopStep, QueueInv, Popped
<1>3. ASSUME NEW q \in p.prio_queue, IsTop(p, q), pacer' = BeginPop(p, q),
             process' = [pc |-> "callback", packet |-> q]
      PROVE  /\ LoopStep(p) /\ QueueInv' /\ process' \in ProcessType
             /\ process'.pc \in {"idle", "pad", "callback"}
  <2>1. GoodQueue(BeginPop(p, q), {q}) /\ q \in PacedPacket
    BY BeginPopFacts
  <2>2. process'.pc = "callback" /\ process'.packet = q
    BY <1>3
  <2>3. process' \in ProcessType
    BY <1>3, <2>1 DEF ProcessType
  <2>4. QueueInv'
    BY <1>3, <2>1, <2>2 DEF QueueInv, Popped
  <2>5. LoopStep(p)
    BY <1>3, <2>1, <2>2 DEF LoopStep
  <2> QED BY <2>2, <2>3, <2>4, <2>5
<1> QED BY <1>1, <1>2, <1>3 DEF ProcessLoop

\* The variables besides the history and the pacer have their types.
RestOK ==
    /\ router \in {"none", "encoder", "process"}
    /\ rtp \in [pos: Nat, sending_media: BOOLEAN, marker: BOOLEAN, padded: Nat,
                changes: Nat]
    /\ encoder \in [pc: {"idle", "put", "pace", "send"}, frame: Nat \ {0}, left: Nat,
                    pos: Nat]
    /\ process \in ProcessType
    /\ nack \in [pc: {"idle", "fetch", "pace", "send"}, list: Seq(HistorySeq),
                 time: Nat, count: Nat]
    /\ nack.pc # "idle" => nack.list # <<>>
    /\ handed \subseteq Nat
    /\ excused \subseteq Nat

\* The inductive invariant, as its four parts.
LEMMA IInvParts ==
    /\ IInv <=> GoodHistory(history) /\ QueueInv /\ RestOK /\ RouterInv
    /\ IInv' <=> (GoodHistory(history) /\ QueueInv /\ RestOK /\ RouterInv)'
  BY DEF IInv, GoodHistory, QueueInv, GoodQueue, TypeOK, RestOK, ProcessType

\* The invariant holds initially.
LEMMA InitIInv ==
    ASSUME Init
    PROVE  IInv
<1>1. GoodHistory(history)
  BY AllocatedFacts DEF Init
<1>2. QueueInv
  <2>1. Popped = {}
    BY IdleType DEF Init, Popped
  <2> QED BY <2>1, InitialPacerFacts DEF Init, QueueInv
<1>3. RestOK
  BY IdleType DEF Init, RestOK
<1>4. RouterInv
  BY IdleType DEF Init, RouterInv
<1> QED BY <1>1, <1>2, <1>3, <1>4, IInvParts

\* EncodedFrame keeps the invariant.
LEMMA EncodedFrameKeeps ==
    ASSUME IInv, EncodedFrame
    PROVE  IInv'
<1> USE IInvParts
<1>1. GoodHistory(history)' /\ QueueInv'
  BY DEF EncodedFrame, QueueInv, Popped, GoodHistory
<1>2. RestOK'
  <2>0. encoder.frame \in Nat \ {0} /\ encoder.frame <= Len(FrameSizes)
    BY DEF EncodedFrame, RestOK
  <2>1. encoder.frame \in 1 .. Len(FrameSizes) /\ encoder.frame + 1 \in Nat \ {0}
    BY <2>0, SendPathAssumption
  <2>2. FrameSizes[encoder.frame] \in Nat
    BY <2>1, SendPathAssumption
  <2> QED BY <2>1, <2>2 DEF EncodedFrame, RestOK
<1>3. RouterInv'
  BY DEF EncodedFrame, RestOK, RouterInv
<1> QED BY <1>1, <1>2, <1>3

\* PutPacket keeps the invariant.
LEMMA PutPacketKeeps ==
    ASSUME IInv, PutPacket
    PROVE  IInv'
<1> USE IInvParts
<1>1. GoodHistory(history)'
  <2>1. /\ rtp.pos \in Nat /\ encoder.frame \in Nat
    BY DEF RestOK
  <2>2. SeqAt(rtp.pos) \in HistorySeq /\ StorageOf(rtp.pos) \in StorageType
    BY <2>1, SeqAtType
  <2>3. GoodHistory(PutRTPPacket(history, SeqAt(rtp.pos), encoder.frame,
                                 StorageOf(rtp.pos)))
    BY <2>1, <2>2, PutFacts
  <2> QED BY <2>3 DEF PutPacket
<1>2. QueueInv'
  BY DEF PutPacket, QueueInv, Popped
<1>3. RestOK'
  <2>1. history.slot[history.prev_index].seq \in Nat
    <3>1. history.prev_index \in DOMAIN history.slot /\ IsHistory(history)
      BY DEF GoodHistory, IsHistory
    <3> QED BY <3>1, SlotSeqType
  <2>2. rtp.pos + 1 \in Nat /\ (encoder.left = 1) \in BOOLEAN
    BY DEF RestOK
  <2>3. Overwritten(history) \subseteq Nat
    BY <2>1 DEF Overwritten
  <2> QED BY <2>2, <2>3 DEF PutPacket, RestOK
<1>4. RouterInv'
  BY DEF PutPacket, RestOK, RouterInv
<1> QED BY <1>1, <1>2, <1>3, <1>4

\* The encoder's thread after a packet.
LEMMA PacketDoneFacts ==
    ASSUME RestOK, PacketDone
    PROVE  /\ encoder' \in [pc: {"idle", "put", "pace", "send"}, frame: Nat \ {0},
                            left: Nat, pos: Nat]
           /\ encoder'.pc \in {"idle", "put"}
           /\ encoder'.frame \in {encoder.frame, encoder.frame + 1}
           /\ router' = IF encoder'.pc = "idle" THEN "none" ELSE router
<1>1. encoder.left \in Nat /\ encoder.frame \in Nat \ {0}
  BY DEF RestOK
<1>2. (encoder.left > 1 => encoder.left - 1 \in Nat) /\ encoder.frame + 1 \in Nat \ {0}
  BY <1>1
<1>3. CASE encoder.left > 1
  BY <1>2, <1>3 DEF RestOK, PacketDone
<1>4. CASE ~(encoder.left > 1)
  <2>1. /\ encoder' = [encoder EXCEPT !.pc = "idle", !.left = 0,
                                        !.frame = encoder.frame + 1]
        /\ router' = "none"
    BY <1>4 DEF PacketDone, RestOK
  <2> DEFINE n == encoder.frame + 1
  <2>2. n \in Nat \ {0}
    BY <1>2
  <2> HIDE DEF n
  <2>3. /\ encoder' \in [pc: {"idle", "put", "pace", "send"}, frame: Nat \ {0},
                          left: Nat, pos: Nat]
        /\ encoder'.pc = "idle" /\ encoder'.frame = n
    BY <2>1, <2>2 DEF RestOK, n
  <2> QED BY <2>1, <2>3 DEF n
<1> QED BY <1>3, <1>4

\* The packet the encoder hands to the pacer.
LEMMA NewPacketType ==
    ASSUME RestOK
    PROVE  [seq |-> SeqAt(encoder.pos), retransmission |-> FALSE,
            time |-> encoder.frame] \in PacedPacket
<1>1. encoder.pos \in Nat /\ encoder.frame \in Nat
  BY DEF RestOK
<1> QED BY <1>1, SeqAtType DEF PacedPacket

\* PacePacket keeps the invariant.
LEMMA PacePacketKeeps ==
    ASSUME IInv, PacePacket
    PROVE  IInv'
<1> USE IInvParts
<1>1. GoodHistory(history)'
  BY DEF PacePacket
<1>2. CASE pacer.enabled
  <2> DEFINE q == [seq |-> SeqAt(encoder.pos), retransmission |-> FALSE,
                   time |-> encoder.frame]
  <2>1. GoodQueue(Enqueue(pacer, q), Popped)
    BY NewPacketType, EnqueueFacts DEF QueueInv
  <2>2. QueueInv'
    BY <1>2, <2>1 DEF PacePacket, QueueInv, Popped
  <2>3. RestOK' /\ RouterInv'
    BY <1>2, PacketDoneFacts DEF PacePacket, RestOK, RouterInv
  <2> QED BY <1>1, <2>2, <2>3
<1>3. CASE ~pacer.enabled
  <2>1. QueueInv'
    BY <1>3 DEF PacePacket, QueueInv, Popped
  <2>2. RestOK' /\ RouterInv'
    BY <1>3 DEF PacePacket, RestOK, RouterInv
  <2> QED BY <1>1, <2>1, <2>2
<1> QED BY <1>2, <1>3

\* SendPacket keeps the invariant.
LEMMA SendPacketKeeps ==
    ASSUME IInv, NEW taken \in BOOLEAN, SendPacket(taken)
    PROVE  IInv'
<1> USE IInvParts
<1>1. GoodHistory(history)'
  BY SetSentFacts DEF SendPacket
<1>2. QueueInv'
  BY DEF SendPacket, QueueInv, Popped
<1>3. RestOK' /\ RouterInv'
  <2>1. SeqAt(encoder.pos) \in Nat
    BY SeqAtType DEF RestOK
  <2>2. handed' \subseteq Nat
    BY <2>1 DEF SendPacket, SendPacketToNetwork, RestOK
  <2> QED BY <2>2, PacketDoneFacts DEF SendPacket, RestOK, RouterInv
<1> QED BY <1>1, <1>2, <1>3

\* Process keeps the invariant.
LEMMA ProcessKeeps ==
    ASSUME IInv, NEW elapsed \in BOOLEAN, Process(elapsed)
    PROVE  /\ IInv'
           /\ \E p : SameQueue(pacer, p) /\ GoodQueue(p, {}) /\ LoopStep(p)
           /\ process'.pc \in {"idle", "pad", "callback"}
<1> USE IInvParts
<1> DEFINE p == IF elapsed THEN UpdateBytesPerInterval(pacer) ELSE pacer
<1>1. GoodQueue(pacer, {}) /\ IsPacer(pacer)
  BY DEF Process, QueueInv, Popped, GoodQueue
<1>2. IsPacer(p) /\ SameQueue(pacer, p)
  BY <1>1, UpdateFacts DEF SameQueue
<1>3. GoodQueue(p, {})
  <2> HIDE DEF p
  <2> QED BY <1>1, <1>2, SameQueueIsGood
<1>4. ProcessLoop(p)
  BY DEF Process
<1> HIDE DEF p
<1>5. /\ LoopStep(p) /\ QueueInv' /\ process' \in ProcessType
      /\ process'.pc \in {"idle", "pad", "callback"}
  BY <1>3, <1>4, LoopFacts
<1>6. GoodHistory(history)'
  BY DEF Process
<1>7. RestOK' /\ RouterInv'
  BY <1>5 DEF Process, RestOK, RouterInv
<1> QED BY <1>2, <1>3, <1>5, <1>6, <1>7

\* TimeUntilNextProcess keeps the invariant.
LEMMA TimeUntilNextProcessKeeps ==
    ASSUME IInv, NEW tooLate \in BOOLEAN, TimeUntilNextProcess(tooLate)
    PROVE  IInv' /\ SameQueue(pacer, pacer')
<1> USE IInvParts
<1>1. IsPacer(pacer') /\ SameQueue(pacer, pacer')
  BY ProbeFacts DEF TimeUntilNextProcess, QueueInv, GoodQueue
<1>2. GoodQueue(pacer', Popped)
  BY <1>1, SameQueueIsGood DEF QueueInv
<1>3. QueueInv'
  BY <1>2 DEF TimeUntilNextProcess, QueueInv, Popped
<1>4. GoodHistory(history)' /\ RestOK' /\ RouterInv'
  BY DEF TimeUntilNextProcess, RestOK, RouterInv
<1> QED BY <1>1, <1>3, <1>4

\* TimeToSendPacket keeps the invariant.
LEMMA TimeToSendPacketKeeps ==
    ASSUME IInv, TimeToSendPacket
    PROVE  IInv'
<1> USE IInvParts
<1>1. GoodHistory(history)'
  <2>1. CASE rtp.sending_media
             /\ CanGetPacket(history, process.packet.seq, FALSE,
                             process.packet.retransmission)
    BY <2>1, SetSendTimeFacts DEF TimeToSendPacket, CanGetPacket
  <2>2. CASE ~(rtp.sending_media
             /\ CanGetPacket(history, process.packet.seq, FALSE,
                             process.packet.retransmission))
    BY <2>2 DEF TimeToSendPacket
  <2> QED BY <2>1, <2>2
<1>2. QueueInv'
  BY DEF TimeToSendPacket, QueueInv, Popped, RestOK, ProcessType
<1>3. RestOK' /\ RouterInv'
  BY ZenonT(60) DEF TimeToSendPacket, RestOK, ProcessType, PacedPacket, RouterInv
<1> QED BY <1>1, <1>2, <1>3

\* SendPacedPacket keeps the invariant.
LEMMA SendPacedPacketKeeps ==
    ASSUME IInv, NEW taken \in BOOLEAN, SendPacedPacket(taken)
    PROVE  IInv'
<1> USE IInvParts
<1>1. GoodHistory(history)'
  BY DEF SendPacedPacket
<1>2. QueueInv'
  BY DEF SendPacedPacket, QueueInv, Popped, RestOK, ProcessType
<1>3. RestOK' /\ RouterInv'
  BY DEF SendPacedPacket, SendPacketToNetwork, RestOK, ProcessType, PacedPacket,
         RouterInv
<1> QED BY <1>1, <1>2, <1>3

\* PacedPacketSent keeps the invariant.
LEMMA PacedPacketSentKeeps ==
    ASSUME IInv, PacedPacketSent
    PROVE  /\ IInv'
           /\ GoodQueue(PacketSent(pacer, process.packet), {})
           /\ LoopStep(PacketSent(pacer, process.packet))
           /\ process'.pc \in {"idle", "pad", "callback"}
<1> USE IInvParts
<1> DEFINE p == PacketSent(pacer, process.packet)
<1>1. GoodQueue(pacer, {process.packet})
  BY DEF PacedPacketSent, QueueInv, Popped
<1>2. GoodQueue(p, {})
  BY <1>1, PacketSentFacts
<1>3. (pacer' = p /\ process' = Idle) \/ ProcessLoop(p)
  BY DEF PacedPacketSent
<1> HIDE DEF p
<1>4. /\ LoopStep(p) /\ QueueInv' /\ process' \in ProcessType
      /\ process'.pc \in {"idle", "pad", "callback"}
  <2>1. CASE pacer' = p /\ process' = Idle
    <3>1. process' \in ProcessType /\ process'.pc = "idle"
      BY <2>1, IdleType
    <3> QED BY <1>2, <2>1, <3>1 DEF LoopStep, QueueInv, Popped
  <2>2. CASE ProcessLoop(p)
    BY <1>2, <2>2, LoopFacts
  <2> QED BY <1>3, <2>1, <2>2
<1>5. GoodHistory(history)'
  BY DEF PacedPacketSent
<1>6. RestOK' /\ RouterInv'
  BY <1>4 DEF PacedPacketSent, RestOK, RouterInv
<1> QED BY <1>2, <1>4, <1>5, <1>6 DEF p

\* PacedPacketRefused keeps the invariant.
LEMMA PacedPacketRefusedKeeps ==
    ASSUME IInv, PacedPacketRefused
    PROVE  IInv'
<1> USE IInvParts
<1>1. GoodQueue(pacer, {process.packet}) /\ process.packet \in PacedPacket
  BY DEF PacedPacketRefused, QueueInv, Popped, RestOK, ProcessType
<1>2. GoodQueue(CancelPop(pacer, process.packet), {})
  BY <1>1, CancelPopFacts
<1>3. QueueInv'
  BY <1>2, IdleType DEF PacedPacketRefused, QueueInv, Popped
<1>4. GoodHistory(history)' /\ RestOK' /\ RouterInv'
  BY IdleType DEF PacedPacketRefused, RestOK, RouterInv
<1> QED BY <1>3, <1>4

\* TimeToSendPadding keeps the invariant.
LEMMA TimeToSendPaddingKeeps ==
    ASSUME IInv, NEW sent \in BOOLEAN, NEW taken \in BOOLEAN,
           TimeToSendPadding(sent, taken)
    PROVE  IInv'
<1> USE IInvParts
<1>0. process' \in ProcessType /\ process'.pc \in {"idle", "padded"}
  BY IdleType DEF TimeToSendPadding, ProcessType
<1>1. QueueInv'
  BY <1>0 DEF TimeToSendPadding, QueueInv, Popped
<1>2. SeqAt(rtp.pos) \in Nat
  BY SeqAtType DEF RestOK
<1>3. RestOK'
  <2>1. rtp.pos + 1 \in Nat /\ rtp.padded + 1 \in Nat
    BY DEF RestOK
  <2> QED BY <1>0, <1>2, <2>1 DEF TimeToSendPadding, SendPacketToNetwork, RestOK
<1>4. GoodHistory(history)' /\ RouterInv'
  BY <1>0 DEF TimeToSendPadding, RouterInv
<1> QED BY <1>1, <1>3, <1>4

\* PaddingSent keeps the invariant.
LEMMA PaddingSentKeeps ==
    ASSUME IInv, PaddingSent
    PROVE  IInv' /\ SameQueue(pacer, pacer')
<1> USE IInvParts
<1>1. IsPacer(pacer') /\ SameQueue(pacer, pacer')
  BY UseFacts DEF PaddingSent, QueueInv, GoodQueue
<1>2. GoodQueue(pacer', Popped)
  BY <1>1, SameQueueIsGood DEF QueueInv
<1>3. QueueInv'
  BY <1>2, IdleType DEF PaddingSent, QueueInv, Popped
<1>4. GoodHistory(history)' /\ RestOK' /\ RouterInv'
  BY IdleType DEF PaddingSent, RestOK, RouterInv
<1> QED BY <1>1, <1>3, <1>4

\* A list of NACKed numbers.
LEMMA NackListType ==
    ASSUME RestOK, NEW list \in NackLists
    PROVE  /\ list \in Seq(HistorySeq) /\ list # <<>>
           /\ \A s \in ToSet(list) : \E r \in handed : PosOf(s) < PosOf(r)
<1> DEFINE below == {s \in {SeqAt(pos) : pos \in 0 .. rtp.pos - 1} :
                        \E r \in handed : PosOf(s) < PosOf(r)}
<1>1. below \subseteq HistorySeq
  BY SeqAtType DEF RestOK
<1>2. list \in {<<s>> : s \in below} \cup {<<s, t>> : s, t \in below}
  BY DEF NackLists
<1>3. CASE \E s \in below : list = <<s>>
  BY <1>1, <1>3 DEF ToSet
<1>4. CASE \E s, t \in below : list = <<s, t>>
  BY <1>1, <1>4 DEF ToSet
<1> QED BY <1>2, <1>3, <1>4

\* OnReceivedNACK keeps the invariant.
LEMMA OnReceivedNACKKeeps ==
    ASSUME IInv, NEW list \in NackLists, OnReceivedNACK(list)
    PROVE  IInv'
<1> USE IInvParts
<1>1. list \in Seq(HistorySeq) /\ list # <<>>
  BY NackListType
<1>2. GoodHistory(history)' /\ QueueInv' /\ RouterInv'
  BY DEF OnReceivedNACK, QueueInv, Popped, RouterInv
<1>3. RestOK'
  <2>1. nack.count + 1 \in Nat
    BY DEF RestOK
  <2> QED BY <1>1, <2>1 DEF OnReceivedNACK, RestOK
<1> QED BY <1>2, <1>3

\* The network thread goes on with a shorter list.
LEMMA NackedPacketDoneFacts ==
    ASSUME RestOK, NEW list \in Seq(HistorySeq), NackedPacketDone(list)
    PROVE  /\ nack' \in [pc: {"idle", "fetch", "pace", "send"},
                         list: Seq(HistorySeq), time: Nat, count: Nat]
           /\ nack'.pc # "idle" => nack'.list # <<>>
           /\ nack'.pc \in {"idle", "fetch"} /\ nack'.list = list
  BY DEF RestOK, NackedPacketDone

\* What is left of that list.
LEMMA NackTailType ==
    ASSUME RestOK, nack.pc # "idle"
    PROVE  /\ Tail(nack.list) \in Seq(HistorySeq) /\ <<>> \in Seq(HistorySeq)
           /\ Head(nack.list) \in HistorySeq /\ Head(nack.list) \in Nat
           /\ Head(nack.list) \in ToSet(nack.list)
           /\ ToSet(Tail(nack.list)) \subseteq ToSet(nack.list)
           /\ ToSet(<<>>) = {}
<1>1. nack.list \in Seq(HistorySeq) /\ nack.list # <<>>
  BY DEF RestOK
<1>2. Tail(nack.list) \in Seq(HistorySeq) /\ <<>> \in Seq(HistorySeq)
      /\ Head(nack.list) \in HistorySeq
  BY <1>1
<1>3. HistorySeq \subseteq Nat
  BY HistoryAssumption DEF HistorySeq
<1>4. Head(nack.list) \in ToSet(nack.list) /\ ToSet(<<>>) = {}
  BY <1>1 DEF ToSet
<1>5. ToSet(Tail(nack.list)) \subseteq ToSet(nack.list)
  BY <1>1 DEF ToSet
<1> QED BY <1>2, <1>3, <1>4, <1>5

\* FetchNacked keeps the invariant.
LEMMA FetchNackedKeeps ==
    ASSUME IInv, FetchNacked
    PROVE  IInv'
<1> USE IInvParts
<1> DEFINE s == Head(nack.list)
<1>0. /\ Tail(nack.list) \in Seq(HistorySeq) /\ s \in Nat
  BY NackTailType DEF FetchNacked
<1>1. QueueInv' /\ RouterInv'
  BY DEF FetchNacked, QueueInv, Popped, RouterInv
<1>2. CASE CanGetPacket(history, s, TRUE, TRUE)
  <2>1. HasRTPPacket(history, s)
    BY <1>2 DEF CanGetPacket
  <2>2. GoodHistory(history)'
    BY <1>2, <2>1, SetSendTimeFacts DEF FetchNacked
  <2>3. history.slot[FindSeqNum(history, s)].time \in Nat
    <3>1. FindSeqNum(history, s) \in Slots(history.size)
      BY <2>1, FindFacts DEF HasRTPPacket
    <3>2. FindSeqNum(history, s) \in DOMAIN history.slot /\ IsHistory(history)
      BY <3>1 DEF GoodHistory, IsHistory
    <3> QED BY <3>2, SlotSeqType
  <2>4. RestOK'
    BY <1>0, <1>2, <2>3 DEF FetchNacked, RestOK
  <2> QED BY <1>1, <2>2, <2>4
<1>3. CASE ~CanGetPacket(history, s, TRUE, TRUE)
  <2>1. GoodHistory(history)'
    BY <1>3 DEF FetchNacked
  <2>2. RestOK'
    BY <1>0, <1>3, NackedPacketDoneFacts DEF FetchNacked, RestOK
  <2> QED BY <1>1, <2>1, <2>2
<1> QED BY <1>2, <1>3

\* The packet of a retransmission.
LEMMA NackedPacketType ==
    ASSUME RestOK, nack.pc # "idle"
    PROVE  [seq |-> Head(nack.list), retransmission |-> TRUE, time |-> nack.time]
              \in PacedPacket
  BY NackTailType DEF RestOK, PacedPacket

\* PaceNacked keeps the invariant.
LEMMA PaceNackedKeeps ==
    ASSUME IInv, NEW giveUp \in BOOLEAN, PaceNacked(giveUp)
    PROVE  IInv'
<1> USE IInvParts
<1>0. /\ Tail(nack.list) \in Seq(HistorySeq) /\ <<>> \in Seq(HistorySeq)
      /\ nack.pc # "idle"
  BY NackTailType DEF PaceNacked
<1>1. GoodHistory(history)' /\ RouterInv'
  BY DEF PaceNacked, RouterInv
<1>2. CASE pacer.enabled
  <2> DEFINE q == [seq |-> Head(nack.list), retransmission |-> TRUE,
                   time |-> nack.time]
  <2>1. GoodQueue(Enqueue(pacer, q), Popped)
    BY <1>0, NackedPacketType, EnqueueFacts DEF QueueInv
  <2>2. QueueInv'
    BY <1>2, <2>1 DEF PaceNacked, QueueInv, Popped
  <2>3. RestOK'
    BY <1>0, <1>2, NackedPacketDoneFacts DEF PaceNacked, RestOK
  <2> QED BY <1>1, <2>2, <2>3
<1>3. CASE ~pacer.enabled
  <2>1. QueueInv'
    BY <1>3 DEF PaceNacked, QueueInv, Popped
  <2>2. RestOK'
    BY <1>3 DEF PaceNacked, RestOK
  <2> QED BY <1>1, <2>1, <2>2
<1> QED BY <1>2, <1>3

\* SendNacked keeps the invariant.
LEMMA SendNackedKeeps ==
    ASSUME IInv, NEW taken \in BOOLEAN, NEW giveUp \in BOOLEAN,
           SendNacked(taken, giveUp)
    PROVE  IInv'
<1> USE IInvParts
<1>0. /\ Tail(nack.list) \in Seq(HistorySeq) /\ <<>> \in Seq(HistorySeq)
      /\ Head(nack.list) \in Nat
  BY NackTailType DEF SendNacked
<1>1. GoodHistory(history)' /\ RouterInv' /\ QueueInv'
  BY DEF SendNacked, RouterInv, QueueInv, Popped
<1>2. RestOK'
  BY <1>0, NackedPacketDoneFacts DEF SendNacked, SendPacketToNetwork, RestOK
<1> QED BY <1>1, <1>2

\* The settings keep the invariant.
LEMMA SettingsKeep ==
    ASSUME IInv, NEW b \in BOOLEAN,
           SetPaused(b) \/ SetStatus(b) \/ SetSendingMedia(b)
    PROVE  IInv'
<1> USE IInvParts
<1>1. GoodHistory(history)' /\ RouterInv'
  BY DEF SetPaused, SetStatus, SetSendingMedia, Changing, RouterInv
<1>2. RestOK'
  <2>1. rtp.changes + 1 \in Nat
    BY DEF RestOK
  <2> QED BY <2>1 DEF SetPaused, SetStatus, SetSendingMedia, Changing, RestOK
<1>3. QueueInv'
  BY DEF SetPaused, SetStatus, SetSendingMedia, Changing, QueueInv, Popped, GoodQueue,
         IsPacer
<1> QED BY <1>1, <1>2, <1>3

\* SetStorePacketsStatus keeps the invariant.
LEMMA SetStorePacketsStatusKeeps ==
    ASSUME IInv, SetStorePacketsStatus
    PROVE  IInv'
<1> USE IInvParts
<1>1. GoodHistory(history)'
  BY AllocatedFacts DEF SetStorePacketsStatus
<1>2. QueueInv' /\ RouterInv'
  BY DEF SetStorePacketsStatus, Changing, QueueInv, Popped, RouterInv
<1>3. RestOK'
  <2>1. rtp.changes + 1 \in Nat
    BY DEF RestOK
  <2> QED BY <2>1, StoredType DEF SetStorePacketsStatus, Changing, RestOK, GoodHistory
<1> QED BY <1>1, <1>2, <1>3

\* ResendIntervalPasses keeps the invariant.
LEMMA ResendIntervalPassesKeeps ==
    ASSUME IInv, ResendIntervalPasses
    PROVE  IInv'
<1> USE IInvParts
<1>1. GoodHistory(history)'
  BY AgeFacts DEF ResendIntervalPasses
<1>2. QueueInv' /\ RouterInv' /\ RestOK'
  BY DEF ResendIntervalPasses, QueueInv, Popped, RouterInv, RestOK
<1> QED BY <1>1, <1>2

\* Every step keeps the invariant.
LEMMA NextKeepsIInv ==
    ASSUME IInv, [Next]_vars
    PROVE  IInv'
<1>1. CASE UNCHANGED vars
  BY <1>1 DEF vars, IInv, TypeOK, QueueInv, Popped, RouterInv
<1> QED
  BY <1>1, EncodedFrameKeeps, PutPacketKeeps, PacePacketKeeps, SendPacketKeeps,
     ProcessKeeps, TimeUntilNextProcessKeeps, TimeToSendPacketKeeps,
     SendPacedPacketKeeps, PacedPacketSentKeeps, PacedPacketRefusedKeeps,
     TimeToSendPaddingKeeps, PaddingSentKeeps, OnReceivedNACKKeeps,
     FetchNackedKeeps, PaceNackedKeeps, SendNackedKeeps, SettingsKeep,
     SetStorePacketsStatusKeeps, ResendIntervalPassesKeeps
  DEF Next

\* The inductive invariant: types, the queue, the ring and the lock.
THEOREM Invariance == Spec => []IInv
<1>1. Init => IInv
  BY InitIInv
<1>2. IInv /\ [Next]_vars => IInv'
  BY NextKeepsIInv
<1> QED BY <1>1, <1>2, PTL DEF Spec

\* Every variable keeps its type: the index of the ring stays inside it while it
\* grows, and the budgets stay within their limits.
THEOREM TypeCorrect == Spec => []TypeOK
<1>1. IInv => TypeOK
  BY DEF IInv
<1> QED BY <1>1, Invariance, PTL

\* A list without repeated numbers is as long as its set of numbers.
LEMMA DistinctCounts ==
    ASSUME NEW l \in Seq(PacedPacket), Distinct(l)
    PROVE  Len(l) = Cardinality({q.seq : q \in ToSet(l)})
<1> DEFINE S == {q.seq : q \in ToSet(l)}
           f == [i \in 1 .. Len(l) |-> l[i].seq]
<1>1. DOMAIN l = 1 .. Len(l) /\ Len(l) \in Nat
  OBVIOUS
<1>2. f \in [1 .. Len(l) -> S]
  BY <1>1 DEF ToSet
<1>3. \A i, j \in 1 .. Len(l) : f[i] = f[j] => i = j
  BY <1>1 DEF Distinct
<1>4. \A x \in S : \E i \in 1 .. Len(l) : f[i] = x
  BY <1>1 DEF ToSet
<1> HIDE DEF f, S
<1>5. f \in Bijection(1 .. Len(l), S)
  <2>1. f \in Injection(1 .. Len(l), S)
    BY <1>2, <1>3 DEF Injection, IsInjective
  <2>2. f \in Surjection(1 .. Len(l), S)
    BY <1>2, <1>4 DEF Surjection
  <2> QED BY <2>1, <2>2 DEF Bijection
<1>6. ExistsBijection(1 .. Len(l), S)
  BY <1>5 DEF ExistsBijection
<1>7. Cardinality(S) = Len(l)
  BY <1>1, <1>6, FS_CountingElements
<1> QED BY <1>7 DEF S

\* PacedSender's packet_list_, prio_queue_ and dupe_map_ agree at every point
\* where critsect_ is free, also while Process is in a callback.
THEOREM QueueIsConsistent == Spec => []QueueAgrees
<1>1. IInv => QueueAgrees
  BY DistinctCounts DEF IInv, QueueInv, GoodQueue, IsPacer, Popped, QueueAgrees
<1> QED BY <1>1, Invariance, PTL

\* RTPPacketHistory finds every packet that it stores, wherever the ring stands,
\* although an empty slot looks like packet 0.
THEOREM StoredPacketsAreFound == Spec => []StoredIsFound
<1>1. ASSUME IInv PROVE StoredIsFound
  <2>1. GoodHistory(history) /\ DOMAIN history.slot = Slots(history.size)
    BY <1>1 DEF IInv, TypeOK, GoodHistory, IsHistory
  <2> QED BY <2>1, FindFacts DEF StoredIsFound
<1>2. IInv => StoredIsFound
  BY <1>1
<1> QED BY <1>2, Invariance, PTL

\* The sections of Process that the pacer's lock covers.
PacerStep ==
    \/ \E elapsed \in BOOLEAN : Process(elapsed)
    \/ \E tooLate \in BOOLEAN : TimeUntilNextProcess(tooLate)
    \/ PacedPacketSent
    \/ PacedPacketRefused
    \/ PaddingSent

\* One turn of the loop in Process only moves a packet off the heap.
LEMMA LoopKeepsQueue ==
    ASSUME NEW p, GoodQueue(p, {}), LoopStep(p)
    PROVE  /\ pacer'.packet_list = p.packet_list
           /\ pacer'.dupe_set = p.dupe_set
           /\ pacer'.enabled = p.enabled
           /\ pacer'.prio_queue = p.prio_queue \ Popped'
           /\ \A q \in Popped' : IsTop(p, q)
<1>1. CASE pacer' = p /\ process'.pc \in {"idle", "pad"}
  BY <1>1 DEF Popped
<1>2. CASE /\ process' = [pc |-> "callback", packet |-> process'.packet]
           /\ process'.packet \in p.prio_queue
           /\ IsTop(p, process'.packet)
           /\ pacer' = BeginPop(p, process'.packet)
  <2>1. process'.pc = "callback"
    BY <1>2
  <2>2. Popped' = {process'.packet}
    BY <2>1 DEF Popped
  <2> QED BY <1>2, <2>2, BeginPopFacts
<1> QED BY <1>1, <1>2 DEF LoopStep

\* What a step of the process thread can do to the queue.
LEMMA PacerStepFacts ==
    ASSUME IInv, PacerStep
    PROVE  /\ UNCHANGED <<history, router, rtp, encoder, nack, handed, excused>>
           /\ ToSet(pacer'.packet_list) \subseteq ToSet(pacer.packet_list)
           /\ process.pc \notin {"send", "callback"}
           /\ process'.pc \in {"idle", "pad", "callback"}
<1>1. ASSUME NEW elapsed \in BOOLEAN, Process(elapsed)
      PROVE  /\ pacer'.packet_list = pacer.packet_list
             /\ process'.pc \in {"idle", "pad", "callback"}
  <2>1. PICK p : SameQueue(pacer, p) /\ GoodQueue(p, {}) /\ LoopStep(p)
    BY <1>1, ProcessKeeps
  <2>2. pacer'.packet_list = p.packet_list
    BY <2>1, LoopKeepsQueue
  <2> QED BY <1>1, <2>1, <2>2, ProcessKeeps DEF SameQueue
<1>2. ASSUME NEW tooLate \in BOOLEAN, TimeUntilNextProcess(tooLate)
      PROVE  /\ pacer'.packet_list = pacer.packet_list /\ process'.pc = "idle"
  BY <1>2, TimeUntilNextProcessKeeps DEF SameQueue, TimeUntilNextProcess
<1>3. ASSUME PacedPacketSent
      PROVE  /\ ToSet(pacer'.packet_list) \subseteq ToSet(pacer.packet_list)
             /\ process'.pc \in {"idle", "pad", "callback"}
  <2> DEFINE p == PacketSent(pacer, process.packet)
  <2>1. /\ GoodQueue(p, {}) /\ LoopStep(p)
        /\ process'.pc \in {"idle", "pad", "callback"}
    BY <1>3, PacedPacketSentKeeps
  <2>2. GoodQueue(pacer, {process.packet})
    BY <1>3 DEF IInv, QueueInv, Popped, PacedPacketSent
  <2>3. p.prio_queue = pacer.prio_queue
    BY <2>2, PacketSentFacts
  <2> HIDE DEF p
  <2>4. pacer'.packet_list = p.packet_list
    BY <2>1, LoopKeepsQueue
  <2>5. ToSet(p.packet_list) = pacer.prio_queue
    BY <2>1, <2>3 DEF GoodQueue
  <2>6. pacer.prio_queue \subseteq ToSet(pacer.packet_list)
    BY <2>2 DEF GoodQueue
  <2> QED BY <2>1, <2>4, <2>5, <2>6
<1>4. ASSUME PacedPacketRefused
      PROVE  pacer'.packet_list = pacer.packet_list /\ process'.pc = "idle"
  <2>1. GoodQueue(pacer, {process.packet}) /\ process.packet \in PacedPacket
    BY <1>4 DEF IInv, QueueInv, Popped, PacedPacketRefused, TypeOK
  <2> QED BY <1>4, <2>1, CancelPopFacts, IdleType DEF PacedPacketRefused
<1>5. ASSUME PaddingSent
      PROVE  pacer'.packet_list = pacer.packet_list /\ process'.pc = "idle"
  BY <1>5, PaddingSentKeeps, IdleType DEF SameQueue, PaddingSent
<1>6. UNCHANGED <<history, router, rtp, encoder, nack, handed, excused>>
  BY DEF PacerStep, Process, TimeUntilNextProcess, PacedPacketSent,
         PacedPacketRefused, PaddingSent
<1>7. process.pc \notin {"send", "callback"}
  BY DEF PacerStep, Process, TimeUntilNextProcess, PacedPacketSent,
         PacedPacketRefused, PaddingSent
<1>8. CASE \E elapsed \in BOOLEAN : Process(elapsed)
  BY <1>1, <1>6, <1>7, <1>8
<1>9. CASE \E tooLate \in BOOLEAN : TimeUntilNextProcess(tooLate)
  BY <1>2, <1>6, <1>7, <1>9
<1> QED BY <1>3, <1>4, <1>5, <1>6, <1>7, <1>8, <1>9 DEF PacerStep

\* The steps of the application and of time.
OutsideStep ==
    \/ \E b \in BOOLEAN : SetPaused(b)
    \/ \E b \in BOOLEAN : SetStatus(b)
    \/ \E b \in BOOLEAN : SetSendingMedia(b)
    \/ SetStorePacketsStatus
    \/ ResendIntervalPasses

\* What the settings and the passing of time leave alone.
LEMMA OutsideStepFacts ==
    ASSUME IInv, OutsideStep
    PROVE  /\ UNCHANGED <<router, encoder, process, nack, handed>>
           /\ rtp'.pos = rtp.pos
           /\ pacer'.packet_list = pacer.packet_list
           /\ pacer'.prio_queue = pacer.prio_queue
           /\ pacer'.dupe_set = pacer.dupe_set
  BY DEF OutsideStep, SetPaused, SetStatus, SetSendingMedia, SetStorePacketsStatus,
         ResendIntervalPasses, Changing, IInv, TypeOK, IsPacer

\* An enqueued packet is the only one that the queue did not hold before.
LEMMA EnqueueSet ==
    ASSUME IInv, NEW q \in PacedPacket, pacer' = Enqueue(pacer, q)
    PROVE  /\ ToSet(pacer'.packet_list) \subseteq ToSet(pacer.packet_list) \cup {q}
           /\ pacer'.enabled = pacer.enabled
<1>1. GoodQueue(pacer, Popped) /\ pacer.packet_list \in Seq(PacedPacket)
  BY DEF IInv, QueueInv, GoodQueue, IsPacer
<1>2. /\ q.seq \in pacer.dupe_set => SameQueue(pacer, pacer')
      /\ q.seq \notin pacer.dupe_set => Pushed(pacer, pacer', q)
  BY <1>1, EnqueueFacts
<1>3. ToSet(Append(pacer.packet_list, q)) = ToSet(pacer.packet_list) \cup {q}
  BY <1>1, AppendSet
<1> QED BY <1>2, <1>3 DEF SameQueue, Pushed

-----------------------------------------------------------------------------
\* Every step keeps the numbers below the next one.
LEMMA NumberInvStep ==
    ASSUME IInv, NumberInv, [Next]_vars
    PROVE  NumberInv'
<1>0. /\ rtp.pos \in Nat /\ encoder.pos \in Nat /\ rtp'.pos \in Nat
      /\ encoder'.pos \in Nat
  BY NextKeepsIInv DEF IInv, TypeOK
<1>a. ASSUME ToSet(pacer'.packet_list) \subseteq ToSet(pacer.packet_list),
             Horizon <= Horizon',
             encoder'.pc \in {"pace", "send"} => rtp'.pos = encoder'.pos + 1
      PROVE  NumberInv'
  <2>1. Horizon \in Nat /\ Horizon' \in Nat
    BY <1>0 DEF Horizon
  <2>2. \A k \in 0 .. Horizon - 1 : k \in 0 .. Horizon' - 1
    <3>1. \A a, b \in Nat : a <= b => \A k \in 0 .. a - 1 : k \in 0 .. b - 1
      OBVIOUS
    <3> QED BY <1>a, <2>1, <3>1
  <2> QED BY <1>a, <2>2 DEF NumberInv
<1>1. CASE PacerStep
  <2>1. /\ ToSet(pacer'.packet_list) \subseteq ToSet(pacer.packet_list)
        /\ UNCHANGED <<rtp, encoder>>
    BY <1>1, PacerStepFacts
  <2> QED BY <1>0, <1>a, <2>1 DEF Horizon, NumberInv
<1>2. CASE OutsideStep
  BY <1>0, <1>2, <1>a, OutsideStepFacts DEF Horizon, NumberInv
<1>3. CASE EncodedFrame
  BY <1>0, <1>3, <1>a DEF EncodedFrame, Horizon, NumberInv, IInv, TypeOK
<1>4. CASE PutPacket
  <2>1. rtp'.pos = rtp.pos + 1 /\ encoder'.pos = rtp.pos /\ encoder'.pc = "pace"
        /\ encoder.pc = "put" /\ pacer' = pacer
    BY <1>4 DEF PutPacket, IInv, TypeOK
  <2> QED BY <1>0, <1>a, <2>1 DEF Horizon, NumberInv
<1>5. CASE PacePacket /\ pacer.enabled
  <2> DEFINE q == [seq |-> SeqAt(encoder.pos), retransmission |-> FALSE,
                   time |-> encoder.frame]
  <2>1. q \in PacedPacket
    BY NewPacketType, IInvParts
  <2>2. pacer' = Enqueue(pacer, q) /\ PacketDone /\ encoder.pc = "pace"
        /\ rtp' = rtp
    BY <1>5 DEF PacePacket
  <2>3. ToSet(pacer'.packet_list) \subseteq ToSet(pacer.packet_list) \cup {q}
    BY <2>1, <2>2, EnqueueSet
  <2>4. encoder'.pc \in {"idle", "put"}
    BY <2>2, PacketDoneFacts, IInvParts
  <2>5. Horizon' = rtp.pos /\ Horizon = encoder.pos /\ rtp.pos = encoder.pos + 1
    BY <2>2, <2>4 DEF Horizon, NumberInv
  <2>6. encoder.pos \in 0 .. Horizon' - 1 /\ \A k \in 0 .. Horizon - 1 :
           k \in 0 .. Horizon' - 1
    BY <1>0, <2>5
  <2>7. q.seq = SeqAt(encoder.pos)
    OBVIOUS
  <2> HIDE DEF q
  <2> QED BY <2>2, <2>3, <2>4, <2>6, <2>7 DEF NumberInv
<1>6. CASE PacePacket /\ ~pacer.enabled
  <2>1. encoder'.pc = "send" /\ encoder'.pos = encoder.pos /\ encoder.pc = "pace"
        /\ UNCHANGED <<pacer, rtp>>
    BY <1>6 DEF PacePacket, IInv, TypeOK
  <2> QED BY <1>0, <1>a, <2>1 DEF Horizon, NumberInv
<1>7. ASSUME NEW taken \in BOOLEAN, SendPacket(taken) PROVE NumberInv'
  <2>1. encoder'.pc \in {"idle", "put"} /\ encoder.pc = "send"
        /\ UNCHANGED <<pacer, rtp>>
    BY <1>7, PacketDoneFacts, IInvParts DEF SendPacket
  <2> QED BY <1>0, <1>a, <2>1 DEF Horizon, NumberInv
<1>8. ASSUME NEW sent \in BOOLEAN, NEW taken \in BOOLEAN,
             TimeToSendPadding(sent, taken)
      PROVE  NumberInv'
  <2>1. encoder.pc = "idle" /\ UNCHANGED <<pacer, encoder>>
    BY <1>8 DEF TimeToSendPadding, IInv, RouterInv
  <2>2. rtp'.pos \in {rtp.pos, rtp.pos + 1}
    BY <1>8 DEF TimeToSendPadding, IInv, TypeOK
  <2> QED BY <1>0, <1>a, <2>1, <2>2 DEF Horizon, NumberInv
<1>9. CASE \/ TimeToSendPacket
           \/ \E taken \in BOOLEAN : SendPacedPacket(taken)
           \/ \E list \in NackLists : OnReceivedNACK(list)
           \/ FetchNacked
           \/ \E taken, giveUp \in BOOLEAN : SendNacked(taken, giveUp)
           \/ UNCHANGED vars
  <2>1. UNCHANGED <<pacer, rtp, encoder>>
    BY <1>9 DEF TimeToSendPacket, SendPacedPacket, OnReceivedNACK, FetchNacked,
                SendNacked, vars
  <2> QED BY <1>0, <1>a, <2>1 DEF Horizon, NumberInv
<1>10. ASSUME NEW giveUp \in BOOLEAN, PaceNacked(giveUp) PROVE NumberInv'
  <2>1. UNCHANGED <<rtp, encoder>>
    BY <1>10 DEF PaceNacked
  <2>2. CASE pacer.enabled
    <3> DEFINE q == [seq |-> Head(nack.list), retransmission |-> TRUE,
                     time |-> nack.time]
    <3>1. pacer' = Enqueue(pacer, q) /\ q \in PacedPacket
      BY <1>10, <2>2, NackedPacketType, IInvParts DEF PaceNacked
    <3>2. ToSet(pacer'.packet_list) \subseteq ToSet(pacer.packet_list) \cup {q}
      BY <3>1, EnqueueSet
    <3>3. q.retransmission
      OBVIOUS
    <3> HIDE DEF q
    <3> QED BY <2>1, <3>2, <3>3 DEF NumberInv, Horizon
  <2>3. CASE ~pacer.enabled
    <3>1. pacer' = pacer
      BY <1>10, <2>3 DEF PaceNacked
    <3> QED BY <2>1, <3>1 DEF NumberInv, Horizon
  <2> QED BY <2>2, <2>3
<1> QED BY <1>1, <1>2, <1>3, <1>4, <1>5, <1>6, <1>7, <1>8, <1>9, <1>10
        DEF Next, PacerStep, OutsideStep

\* Every number in use is below the next one to be given out.
LEMMA NumberInvariance == Spec => []NumberInv
<1>1. Init => NumberInv
  <2> SUFFICES ASSUME Init PROVE NumberInv
    OBVIOUS
  <2>1. encoder.pc = "idle" /\ pacer.packet_list = <<>>
    BY DEF Init, InitialPacer
  <2>2. ToSet(pacer.packet_list) = {}
    BY <2>1 DEF ToSet
  <2> QED BY <2>1, <2>2 DEF NumberInv
<1>2. IInv /\ NumberInv /\ [Next]_vars => NumberInv'
  BY NumberInvStep
<1> QED BY <1>1, <1>2, Invariance, PTL DEF Spec

-----------------------------------------------------------------------------
\* The first numbers of a stream are those of their positions.
LEMMA PosOfSeqAt ==
    ASSUME NEW k \in 0 .. HistorySeqMod - 1
    PROVE  SeqAt(k) \in HistorySeq /\ PosOf(SeqAt(k)) = k
<1>1. HistorySeqMod \in Nat /\ HistorySeqMod > 1 /\ FirstSeq \in 0 .. HistorySeqMod - 1
  BY HistoryAssumption, SendPathAssumption DEF HistorySeq
<1>2. CASE FirstSeq + k < HistorySeqMod
  <2>1. SeqAt(k) = FirstSeq + k
    BY <1>1, <1>2 DEF SeqAt
  <2>2. FirstSeq + k - FirstSeq = k /\ k % HistorySeqMod = k
    BY <1>1
  <2> QED BY <1>1, <1>2, <2>1, <2>2 DEF PosOf, HistorySeq
<1>3. CASE ~(FirstSeq + k < HistorySeqMod)
  <2>1. SeqAt(k) = FirstSeq + k - HistorySeqMod
    BY <1>1, <1>3 DEF SeqAt
  <2>2. /\ FirstSeq + k - HistorySeqMod - FirstSeq = k - HistorySeqMod
        /\ (k - HistorySeqMod) % HistorySeqMod = k
    BY <1>1
  <2> QED BY <1>1, <1>3, <2>1, <2>2 DEF PosOf, HistorySeq
<1> QED BY <1>2, <1>3

\* Positions and numbers of one round of the ring correspond.
LEMMA SeqAtPosOf ==
    ASSUME NEW s \in HistorySeq
    PROVE  PosOf(s) \in 0 .. HistorySeqMod - 1 /\ SeqAt(PosOf(s)) = s
<1>1. /\ HistorySeqMod \in Nat /\ HistorySeqMod > 1
      /\ FirstSeq \in 0 .. HistorySeqMod - 1 /\ s \in 0 .. HistorySeqMod - 1
  BY HistoryAssumption, SendPathAssumption DEF HistorySeq
<1>2. CASE s >= FirstSeq
  <2>1. PosOf(s) = s - FirstSeq
    BY <1>1, <1>2 DEF PosOf
  <2>2. FirstSeq + (s - FirstSeq) = s /\ s % HistorySeqMod = s
    BY <1>1
  <2> QED BY <1>1, <1>2, <2>1, <2>2 DEF SeqAt
<1>3. CASE ~(s >= FirstSeq)
  <2>1. PosOf(s) = s - FirstSeq + HistorySeqMod
    BY <1>1, <1>3 DEF PosOf
  <2>2. /\ FirstSeq + (s - FirstSeq + HistorySeqMod) = s + HistorySeqMod
        /\ (s + HistorySeqMod) % HistorySeqMod = s
    BY <1>1
  <2> QED BY <1>1, <1>3, <2>1, <2>2 DEF SeqAt
<1> QED BY <1>2, <1>3

\* Histories with the same slots store the same numbers.
LEMMA SameStored ==
    ASSUME NEW h, NEW g, IsHistory(h), IsHistory(g), SameSlots(h, g)
    PROVE  StoredSeqs(g) = StoredSeqs(h)
<1>1. DOMAIN h.slot = Slots(h.size) /\ DOMAIN g.slot = Slots(h.size)
  BY DEF IsHistory, SameSlots
<1> QED BY <1>1 DEF StoredSeqs, SameSlots

\* Storing a packet adds its number at most.
LEMMA StoredGrows ==
    ASSUME NEW h, NEW g, IsHistory(h), IsHistory(g), NEW k, NEW e, StoredAt(h, g, k, e)
    PROVE  StoredSeqs(g) \subseteq StoredSeqs(h) \cup {e.seq}
<1>1. DOMAIN h.slot = Slots(h.size) /\ DOMAIN g.slot = Slots(g.size)
  BY DEF IsHistory
<1>2. ASSUME NEW x \in StoredSeqs(g), x # e.seq PROVE x \in StoredSeqs(h)
  <2>1. PICK j \in Slots(g.size) : g.slot[j].stored /\ x = g.slot[j].seq
    BY <1>1 DEF StoredSeqs
  <2>2. j # k
    BY <1>2, <2>1 DEF StoredAt
  <2>3. j \in Slots(h.size)
    BY <2>1, <2>2 DEF StoredAt
  <2>4. g.slot[j] = h.slot[j]
    BY <2>2, <2>3 DEF StoredAt
  <2> QED BY <1>1, <2>1, <2>3, <2>4 DEF StoredSeqs
<1> QED BY <1>2

\* HasRTPPacket finds exactly what is stored.
LEMMA FoundIsStored ==
    ASSUME NEW h, GoodHistory(h), NEW s
    PROVE  HasRTPPacket(h, s) <=> s \in StoredSeqs(h)
<1>1. DOMAIN h.slot = Slots(h.size)
  BY DEF GoodHistory, IsHistory
<1>2. ASSUME HasRTPPacket(h, s) PROVE s \in StoredSeqs(h)
  <2>1. /\ FindSeqNum(h, s) \in Slots(h.size)
        /\ h.slot[FindSeqNum(h, s)].seq = s /\ h.slot[FindSeqNum(h, s)].stored
    BY <1>2, FindFacts DEF HasRTPPacket
  <2> QED BY <1>1, <2>1 DEF StoredSeqs
<1>3. ASSUME s \in StoredSeqs(h) PROVE HasRTPPacket(h, s)
  <2>1. PICK j \in Slots(h.size) : h.slot[j].stored /\ h.slot[j].seq = s
    BY <1>1, <1>3 DEF StoredSeqs
  <2> QED BY <2>1, FindFacts
<1> QED BY <1>2, <1>3

\* Storing a packet drops at most the one that Overwritten names.
LEMMA StoredStays ==
    ASSUME NEW h, NEW g, IsHistory(h), IsHistory(g), NEW k, NEW e, StoredAt(h, g, k, e),
           e.stored
    PROVE  /\ e.seq \in StoredSeqs(g)
           /\ StoredSeqs(h) \subseteq StoredSeqs(g) \cup Overwritten(h)
<1>1. DOMAIN h.slot = Slots(h.size) /\ DOMAIN g.slot = Slots(g.size)
  BY DEF IsHistory
<1>2. e.seq \in StoredSeqs(g)
  BY <1>1 DEF StoredSeqs, StoredAt
<1>3. ASSUME NEW x \in StoredSeqs(h) PROVE x \in StoredSeqs(g) \cup Overwritten(h)
  <2>1. PICK j \in Slots(h.size) : h.slot[j].stored /\ x = h.slot[j].seq
    BY <1>1 DEF StoredSeqs
  <2>2. CASE j = k
    BY <2>1, <2>2 DEF StoredAt, HoldsUnsent, Overwritten
  <2>3. CASE j # k
    <3>1. j \in Slots(g.size) /\ g.slot[j] = h.slot[j]
      BY <2>1, <2>3 DEF StoredAt
    <3> QED BY <1>1, <2>1, <3>1 DEF StoredSeqs
  <2> QED BY <2>2, <2>3
<1> QED BY <1>2, <1>3

\* Storing a packet with its own type keeps the types in order.
LEMMA StoredTypesAgree ==
    ASSUME NEW h, NEW g, NEW k, NEW e, StoredAt(h, g, k, e),
           TypesAgree(h), e.type = StorageOf(PosOf(e.seq))
    PROVE  TypesAgree(g)
<1> SUFFICES ASSUME NEW i \in Slots(g.size), g.slot[i].stored
             PROVE  g.slot[i].type = StorageOf(PosOf(g.slot[i].seq))
  BY DEF TypesAgree
<1>1. CASE i = k
  BY <1>1 DEF StoredAt
<1>2. CASE i # k /\ i \in Slots(h.size)
  BY <1>2 DEF StoredAt, TypesAgree
<1>3. CASE i # k /\ i \notin Slots(h.size)
  BY <1>3 DEF StoredAt
<1> QED BY <1>1, <1>2, <1>3

\* A stored packet can be fetched, as a retransmission if it may be sent again.
LEMMA StoredIsFetched ==
    ASSUME NEW h, GoodHistory(h), TypesAgree(h), NEW s \in StoredSeqs(h),
           NEW retransmit, retransmit => Resendable(s)
    PROVE  CanGetPacket(h, s, FALSE, retransmit)
<1>1. HasRTPPacket(h, s)
  BY FoundIsStored
<1>2. /\ FindSeqNum(h, s) \in Slots(h.size) /\ h.slot[FindSeqNum(h, s)].seq = s
      /\ h.slot[FindSeqNum(h, s)].stored
  BY <1>1, FindFacts DEF HasRTPPacket
<1>3. retransmit => h.slot[FindSeqNum(h, s)].type # "kDontRetransmit"
  BY <1>2 DEF TypesAgree, Resendable
<1> QED BY <1>1, <1>3 DEF CanGetPacket

\* A packet that is fetched as a retransmission is stored and may be sent again.
LEMMA FetchedIsResendable ==
    ASSUME NEW h, GoodHistory(h), TypesAgree(h), NEW s, CanGetPacket(h, s, TRUE, TRUE)
    PROVE  s \in StoredSeqs(h) /\ Resendable(s)
<1>1. HasRTPPacket(h, s) /\ h.slot[FindSeqNum(h, s)].type # "kDontRetransmit"
  BY DEF CanGetPacket
<1>2. /\ FindSeqNum(h, s) \in Slots(h.size) /\ h.slot[FindSeqNum(h, s)].seq = s
      /\ h.slot[FindSeqNum(h, s)].stored
  BY <1>1, FindFacts DEF HasRTPPacket
<1>3. Resendable(s)
  BY <1>1, <1>2 DEF TypesAgree, Resendable
<1> QED BY <1>1, <1>3, FoundIsStored

\* What is kept stays kept unless it leaves the history unaccounted for.
LEMMA KeptStays ==
    ASSUME handed \subseteq handed', excused \subseteq excused',
           \A x \in StoredSeqs(history) : x \in StoredSeqs(history') \/ x \in Settled'
    PROVE  Settled \subseteq Settled' /\ \A s : Kept(s) => Kept(s)'
  BY DEF Kept, Settled

\* A step that only marks packets keeps what is kept, and the types.
LEMMA MarkingKeeps ==
    ASSUME GoodHistory(history), GoodHistory(history'), SameSlots(history, history'),
           handed \subseteq handed', excused \subseteq excused', TypesAgree(history)
    PROVE  /\ TypesAgree(history')
           /\ Settled \subseteq Settled' /\ \A s : Kept(s) => Kept(s)'
<1>1. StoredSeqs(history') = StoredSeqs(history)
  BY SameStored DEF GoodHistory
<1>2. TypesAgree(history')
  BY DEF TypesAgree, SameSlots
<1> QED BY <1>1, <1>2, KeptStays

\* Every step keeps a packet that was not handed over accounted for.
LEMMA LossInvStep ==
    ASSUME IInv, LossInv, rtp'.pos <= HistorySeqMod, [Next]_vars
    PROVE  LossInv'
<1>0. /\ GoodHistory(history) /\ GoodHistory(history') /\ RestOK /\ RestOK'
      /\ RouterInv /\ QueueInv /\ TypesAgree(history)
  BY NextKeepsIInv, IInvParts DEF LossInv
<1>t. /\ IsHistory(history) /\ IsHistory(history')
      /\ process.pc \in {"idle", "callback", "send", "sent", "refused", "pad", "padded"}
  BY <1>0 DEF GoodHistory, RestOK, ProcessType
<1>1. CASE PacerStep
  BY <1>1, <1>0, PacerStepFacts DEF LossInv, Kept, Settled, Resendable
<1>2. CASE OutsideStep
  <2>1. /\ UNCHANGED <<encoder, process, nack, handed>>
        /\ pacer'.packet_list = pacer.packet_list
    BY <1>2, OutsideStepFacts
  <2>2. /\ TypesAgree(history')
        /\ Settled \subseteq Settled' /\ \A s : Kept(s) => Kept(s)'
    <3>1. CASE SetStorePacketsStatus
      <4>1. /\ excused \subseteq excused' /\ StoredSeqs(history) \subseteq excused'
            /\ history' = Allocated(NumberToStore)
        BY <3>1 DEF SetStorePacketsStatus
      <4>2. TypesAgree(Allocated(NumberToStore))
        BY DEF TypesAgree, Allocated, EmptySlot
      <4> QED BY <2>1, <4>1, <4>2, KeptStays DEF Settled
    <3>2. CASE ResendIntervalPasses
      BY <1>0, <2>1, <3>2, AgeFacts, MarkingKeeps DEF ResendIntervalPasses
    <3>3. CASE ~SetStorePacketsStatus /\ ~ResendIntervalPasses
      <4>1. UNCHANGED <<history, excused>>
        BY <1>2, <3>3 DEF OutsideStep, SetPaused, SetStatus, SetSendingMedia
      <4> QED BY <1>0, <2>1, <4>1, KeptStays
    <3> QED BY <3>1, <3>2, <3>3
  <2> QED BY <2>1, <2>2 DEF LossInv, Resendable
<1>3. CASE EncodedFrame
  <2>1. UNCHANGED <<history, pacer, process, nack, handed, excused>>
        /\ encoder'.pc # "pace"
    BY <1>0, <1>3 DEF EncodedFrame, RestOK
  <2> QED BY <2>1 DEF LossInv, Kept, Settled, Resendable
<1>4. CASE PutPacket
  <2> DEFINE e == [seq |-> SeqAt(rtp.pos), stored |-> TRUE, sent |-> "unsent",
                   type |-> StorageOf(rtp.pos), time |-> encoder.frame]
  <2>0. /\ rtp.pos \in Nat /\ encoder.frame \in Nat /\ rtp'.pos = rtp.pos + 1
    BY <1>0, <1>4 DEF RestOK, PutPacket
  <2>1. PICK k : StoredAt(history, history', k, e)
    <3>1. SeqAt(rtp.pos) \in HistorySeq /\ StorageOf(rtp.pos) \in StorageType
      BY <2>0, SeqAtType
    <3>2. history' = PutRTPPacket(history, SeqAt(rtp.pos), encoder.frame,
                                  StorageOf(rtp.pos))
      BY <1>4 DEF PutPacket
    <3> QED BY <1>0, <2>0, <3>1, <3>2, PutFacts
  <2>2. /\ e.stored /\ e.seq = SeqAt(rtp.pos) /\ e.type = StorageOf(rtp.pos)
    OBVIOUS
  <2> HIDE DEF e
  <2>3. rtp.pos \in 0 .. HistorySeqMod - 1
    BY <2>0, HistoryAssumption
  <2>4. TypesAgree(history')
    <3>1. e.type = StorageOf(PosOf(e.seq))
      BY <2>2, <2>3, PosOfSeqAt
    <3> QED BY <1>0, <2>1, <3>1, StoredTypesAgree
  <2>5. /\ SeqAt(rtp.pos) \in StoredSeqs(history')
        /\ StoredSeqs(history) \subseteq StoredSeqs(history') \cup Overwritten(history)
    BY <1>t, <2>1, <2>2, StoredStays
  <2>6. /\ UNCHANGED <<pacer, process, nack, handed>>
        /\ excused' = excused \cup Overwritten(history)
        /\ encoder'.pos = rtp.pos
    BY <1>0, <1>4 DEF PutPacket, RestOK
  <2>7. Settled \subseteq Settled' /\ \A s : Kept(s) => Kept(s)'
    BY <2>5, <2>6, KeptStays DEF Settled
  <2>8. Kept(SeqAt(encoder.pos))'
    BY <2>5, <2>6 DEF Kept
  <2> QED BY <2>4, <2>6, <2>7, <2>8 DEF LossInv, Resendable
<1>5. CASE PacePacket
  <2>1. UNCHANGED <<history, process, nack, handed, excused>> /\ encoder.pc = "pace"
        /\ encoder'.pc # "pace"
    BY <1>0, <1>5, PacketDoneFacts DEF PacePacket, RestOK
  <2>2. CASE pacer.enabled
    <3> DEFINE q == [seq |-> SeqAt(encoder.pos), retransmission |-> FALSE,
                     time |-> encoder.frame]
    <3>1. pacer' = Enqueue(pacer, q) /\ q \in PacedPacket
      BY <1>0, <1>5, <2>2, NewPacketType DEF PacePacket
    <3>2. ToSet(pacer'.packet_list) \subseteq ToSet(pacer.packet_list) \cup {q}
      BY <3>1, EnqueueSet
    <3>3. q.seq = SeqAt(encoder.pos) /\ ~q.retransmission
      OBVIOUS
    <3> HIDE DEF q
    <3> QED BY <2>1, <3>2, <3>3 DEF LossInv, Kept, Settled, Resendable
  <2>3. CASE ~pacer.enabled
    <3>1. pacer' = pacer
      BY <1>5, <2>3 DEF PacePacket
    <3> QED BY <2>1, <3>1 DEF LossInv, Kept, Settled, Resendable
  <2> QED BY <2>2, <2>3
<1>6. ASSUME NEW taken \in BOOLEAN, SendPacket(taken) PROVE LossInv'
  <2>1. /\ UNCHANGED <<pacer, process, nack, excused>> /\ encoder'.pc # "pace"
        /\ handed \subseteq handed' /\ history' = SetSent(history, SeqAt(encoder.pos))
    BY <1>0, <1>6, PacketDoneFacts DEF SendPacket, SendPacketToNetwork
  <2>2. /\ TypesAgree(history')
        /\ Settled \subseteq Settled' /\ \A s : Kept(s) => Kept(s)'
    BY <1>0, <2>1, SetSentFacts, MarkingKeeps
  <2> QED BY <2>1, <2>2 DEF LossInv, Resendable
<1>7. CASE TimeToSendPacket
  <2> DEFINE q == process.packet
  <2>1. UNCHANGED <<pacer, encoder, nack, handed>> /\ process.pc = "callback"
    BY <1>7 DEF TimeToSendPacket
  <2>q. /\ q \in ToSet(pacer.packet_list) /\ process'.packet = q
        /\ process'.pc \in {"send", "sent"}
    BY <1>0, <1>7, ZenonT(60) DEF TimeToSendPacket, QueueInv, GoodQueue, Popped, RestOK,
                      ProcessType, PacedPacket
  <2>2. CASE /\ rtp.sending_media
             /\ CanGetPacket(history, q.seq, FALSE, q.retransmission)
    <3>1. /\ history' = SetSendTime(history, q.seq) /\ process'.pc = "send"
          /\ excused' = excused
      BY <1>0, <1>7, <2>2 DEF TimeToSendPacket, RestOK, ProcessType
    <3>2. SameSlots(history, history')
      BY <1>0, <2>2, <3>1, SetSendTimeFacts DEF CanGetPacket
    <3>3. /\ TypesAgree(history')
          /\ Settled \subseteq Settled' /\ \A s : Kept(s) => Kept(s)'
      BY <1>0, <2>1, <3>1, <3>2, MarkingKeeps
    <3> QED BY <2>1, <3>1, <3>3 DEF LossInv, Resendable
  <2>3. CASE ~(/\ rtp.sending_media
               /\ CanGetPacket(history, q.seq, FALSE, q.retransmission))
    <3>1. /\ history' = history /\ process'.pc = "sent" /\ excused \subseteq excused'
          /\ ~rtp.sending_media => q.seq \in excused'
      BY <1>0, <1>7, <2>3, ZenonT(60) DEF TimeToSendPacket, RestOK, ProcessType
    <3>2. q.seq \in Settled'
      <4>1. CASE ~rtp.sending_media
        BY <3>1, <4>1 DEF Settled
      <4>2. CASE rtp.sending_media
        <5>1. Kept(q.seq) /\ (q.retransmission => Resendable(q.seq))
          BY <2>q DEF LossInv
        <5>2. q.seq \notin StoredSeqs(history)
          BY <1>0, <2>3, <4>2, <5>1, StoredIsFetched
        <5> QED BY <2>1, <3>1, <5>1, <5>2 DEF Kept, Settled
      <4> QED BY <4>1, <4>2
    <3>3. Settled \subseteq Settled' /\ \A s : Kept(s) => Kept(s)'
      BY <2>1, <3>1, KeptStays
    <3> QED BY <2>1, <2>q, <3>1, <3>2, <3>3 DEF LossInv, Resendable
  <2> QED BY <2>2, <2>3
<1>8. ASSUME NEW taken \in BOOLEAN, SendPacedPacket(taken) PROVE LossInv'
  <2>1. /\ UNCHANGED <<history, pacer, encoder, nack, excused>>
        /\ handed \subseteq handed' /\ process'.packet = process.packet
        /\ process'.pc = "sent" => process.packet.seq \in handed'
    BY <1>0, <1>8 DEF SendPacedPacket, SendPacketToNetwork, RestOK, ProcessType
  <2>2. Settled \subseteq Settled' /\ \A s : Kept(s) => Kept(s)'
    BY <2>1, KeptStays
  <2>3. (process.pc = "sent" => process.packet.seq \in Settled)'
    BY <2>1 DEF Settled
  <2> QED BY <2>1, <2>2, <2>3 DEF LossInv, Resendable
<1>9. ASSUME NEW sent \in BOOLEAN, NEW taken \in BOOLEAN,
             TimeToSendPadding(sent, taken)
      PROVE  LossInv'
  <2>1. /\ UNCHANGED <<history, pacer, encoder, nack, excused>>
        /\ process'.pc \in {"padded", "idle"} /\ handed \subseteq handed'
    BY <1>9, IdleType DEF TimeToSendPadding, SendPacketToNetwork, ProcessType
  <2>2. Settled \subseteq Settled' /\ \A s : Kept(s) => Kept(s)'
    BY <2>1, KeptStays
  <2> QED BY <2>1, <2>2 DEF LossInv, Resendable
<1>10. ASSUME NEW list \in NackLists, OnReceivedNACK(list) PROVE LossInv'
  <2>1. /\ UNCHANGED <<history, pacer, encoder, process, handed, excused>>
        /\ nack'.pc = "fetch"
    BY <1>0, <1>10 DEF OnReceivedNACK, RestOK
  <2> QED BY <2>1 DEF LossInv, Kept, Settled, Resendable
<1>11. CASE FetchNacked
  <2> DEFINE s == Head(nack.list)
  <2>1. UNCHANGED <<pacer, encoder, process, handed, excused>>
    BY <1>11 DEF FetchNacked
  <2>2. CASE CanGetPacket(history, s, TRUE, TRUE)
    <3>1. /\ history' = SetSendTime(history, s) /\ nack'.list = nack.list
      BY <1>0, <1>11, <2>2 DEF FetchNacked, RestOK
    <3>2. SameSlots(history, history')
      BY <1>0, <2>2, <3>1, SetSendTimeFacts DEF CanGetPacket
    <3>3. /\ TypesAgree(history')
          /\ Settled \subseteq Settled' /\ \A x : Kept(x) => Kept(x)'
      BY <1>0, <2>1, <3>1, <3>2, MarkingKeeps
    <3>4. Kept(s) /\ Resendable(s)
      BY <1>0, <2>2, FetchedIsResendable DEF Kept
    <3> QED BY <2>1, <3>1, <3>3, <3>4 DEF LossInv, Resendable
  <2>3. CASE ~CanGetPacket(history, s, TRUE, TRUE)
    <3>1. history' = history /\ nack'.pc # "pace"
      BY <1>0, <1>11, <2>3, NackTailType, NackedPacketDoneFacts DEF FetchNacked
    <3> QED BY <2>1, <3>1 DEF LossInv, Kept, Settled, Resendable
  <2> QED BY <2>2, <2>3
<1>12. ASSUME NEW giveUp \in BOOLEAN, PaceNacked(giveUp) PROVE LossInv'
  <2>1. /\ UNCHANGED <<history, encoder, process, handed, excused>>
        /\ nack.pc = "pace" /\ nack.pc # "idle"
    BY <1>12 DEF PaceNacked
  <2>2. CASE pacer.enabled
    <3> DEFINE q == [seq |-> Head(nack.list), retransmission |-> TRUE,
                     time |-> nack.time]
    <3>1. pacer' = Enqueue(pacer, q) /\ q \in PacedPacket /\ nack'.pc # "pace"
      BY <1>0, <1>12, <2>1, <2>2, NackedPacketType, NackTailType,
         NackedPacketDoneFacts DEF PaceNacked
    <3>2. ToSet(pacer'.packet_list) \subseteq ToSet(pacer.packet_list) \cup {q}
      BY <3>1, EnqueueSet
    <3>3. q.seq = Head(nack.list)
      OBVIOUS
    <3> HIDE DEF q
    <3> QED BY <2>1, <3>1, <3>2, <3>3 DEF LossInv, Kept, Settled, Resendable
  <2>3. CASE ~pacer.enabled
    <3>1. pacer' = pacer /\ nack'.pc = "send"
      BY <1>0, <1>12, <2>3 DEF PaceNacked, RestOK
    <3> QED BY <2>1, <3>1 DEF LossInv, Kept, Settled, Resendable
  <2> QED BY <2>2, <2>3
<1>13. ASSUME NEW taken \in BOOLEAN, NEW giveUp \in BOOLEAN,
              SendNacked(taken, giveUp)
       PROVE  LossInv'
  <2>1. /\ UNCHANGED <<history, pacer, encoder, process, excused>>
        /\ handed \subseteq handed' /\ nack'.pc # "pace"
    BY <1>0, <1>13, NackTailType, NackedPacketDoneFacts
       DEF SendNacked, SendPacketToNetwork
  <2>2. Settled \subseteq Settled' /\ \A s : Kept(s) => Kept(s)'
    BY <2>1, KeptStays
  <2> QED BY <2>1, <2>2 DEF LossInv, Resendable
<1>14. CASE UNCHANGED vars
  BY <1>14 DEF vars, LossInv, Kept, Settled, Resendable
<1> QED BY <1>1, <1>2, <1>3, <1>4, <1>5, <1>6, <1>7, <1>8, <1>9, <1>10, <1>11,
           <1>12, <1>13, <1>14 DEF Next, PacerStep, OutsideStep

\* In the first 2^16 packets of a stream, whatever the transport refuses, the
\* receiver reports and the application changes: PacedSender counts a packet as
\* sent only after the transport has taken it, unless no module wanted it or
\* RTPPacketHistory dropped it while it was waiting.
THEOREM NothingIsLostSilently ==
    Spec /\ [](rtp.pos <= HistorySeqMod) => []NoSilentLoss
<1>1. Init => LossInv
  <2> SUFFICES ASSUME Init PROVE LossInv
    OBVIOUS
  <2>1. /\ encoder.pc = "idle" /\ pacer.packet_list = <<>> /\ nack.pc = "idle"
        /\ process.pc = "idle"
    BY IdleType DEF Init, InitialPacer
  <2>2. ToSet(pacer.packet_list) = {}
    BY <2>1 DEF ToSet
  <2>3. TypesAgree(history)
    BY DEF Init, TypesAgree, Allocated, EmptySlot
  <2> QED BY <2>1, <2>2, <2>3 DEF LossInv
<1>2. IInv /\ LossInv /\ (rtp.pos <= HistorySeqMod)' /\ [Next]_vars => LossInv'
  BY LossInvStep
<1>3. LossInv => NoSilentLoss
  BY DEF LossInv, NoSilentLoss, Settled
<1> QED BY <1>1, <1>2, <1>3, Invariance, PTL DEF Spec

-----------------------------------------------------------------------------
(***************************************************************************)
(* The order of the packets while the settings are left alone.             *)
(***************************************************************************)
\* The positions that the encoder has brought only become more.
LEMMA HorizonGrows ==
    ASSUME IInv, NumberInv, [Next]_vars
    PROVE  /\ Horizon \in Nat /\ Horizon' \in Nat /\ Horizon <= Horizon'
           /\ \A s : Known(s) => Known(s)'
<1>0. /\ rtp.pos \in Nat /\ encoder.pos \in Nat /\ rtp'.pos \in Nat
      /\ encoder'.pos \in Nat
  BY NextKeepsIInv DEF IInv, TypeOK
<1>1. Horizon \in Nat /\ Horizon' \in Nat
  BY <1>0 DEF Horizon
<1>2. UNCHANGED encoder /\ rtp'.pos = rtp.pos => Horizon <= Horizon'
  BY <1>1 DEF Horizon
<1>3. ASSUME EncodedFrame PROVE Horizon <= Horizon'
  <2>1. encoder.pc = "idle" /\ encoder'.pc \in {"idle", "put"} /\ rtp' = rtp
    BY <1>3 DEF EncodedFrame, IInv, TypeOK
  <2> QED BY <1>0, <2>1 DEF Horizon
<1>4. ASSUME PutPacket PROVE Horizon <= Horizon'
  <2>1. encoder'.pos = rtp.pos /\ encoder'.pc = "pace" /\ encoder.pc = "put"
    BY <1>4 DEF PutPacket, IInv, TypeOK
  <2> QED BY <1>0, <2>1 DEF Horizon
<1>5. ASSUME PacePacket PROVE Horizon <= Horizon'
  <2>1. encoder.pc = "pace" /\ rtp' = rtp
    BY <1>5 DEF PacePacket
  <2>2. encoder'.pc \in {"idle", "put"} \/ (encoder'.pc = "send" /\ encoder'.pos = encoder.pos)
    BY <1>5, PacketDoneFacts, IInvParts DEF PacePacket, IInv, TypeOK
  <2> QED BY <1>0, <2>1, <2>2 DEF Horizon, NumberInv
<1>6. ASSUME NEW taken \in BOOLEAN, SendPacket(taken) PROVE Horizon <= Horizon'
  <2>1. encoder'.pc \in {"idle", "put"} /\ encoder.pc = "send" /\ rtp' = rtp
    BY <1>6, PacketDoneFacts, IInvParts DEF SendPacket
  <2> QED BY <1>0, <2>1 DEF Horizon, NumberInv
<1>7. ASSUME NEW sent \in BOOLEAN, NEW taken \in BOOLEAN,
             TimeToSendPadding(sent, taken)
      PROVE  Horizon <= Horizon'
  <2>1. encoder' = encoder /\ rtp'.pos \in {rtp.pos, rtp.pos + 1}
    BY <1>7 DEF TimeToSendPadding, IInv, TypeOK
  <2> QED BY <1>0, <2>1 DEF Horizon
<1>8. ASSUME PacerStep PROVE Horizon <= Horizon'
  BY <1>2, <1>8, PacerStepFacts
<1>9. ASSUME OutsideStep PROVE Horizon <= Horizon'
  BY <1>2, <1>9, OutsideStepFacts
<1>10. ASSUME \/ TimeToSendPacket
              \/ \E taken \in BOOLEAN : SendPacedPacket(taken)
              \/ \E list \in NackLists : OnReceivedNACK(list)
              \/ FetchNacked
              \/ \E giveUp \in BOOLEAN : PaceNacked(giveUp)
              \/ \E taken, giveUp \in BOOLEAN : SendNacked(taken, giveUp)
              \/ UNCHANGED vars
       PROVE  Horizon <= Horizon'
  <2>1. UNCHANGED <<rtp, encoder>>
    BY <1>10 DEF TimeToSendPacket, SendPacedPacket, OnReceivedNACK, FetchNacked,
                 PaceNacked, SendNacked, vars
  <2> QED BY <1>2, <2>1
<1>11. Horizon <= Horizon'
  BY <1>3, <1>4, <1>5, <1>6, <1>7, <1>8, <1>9, <1>10 DEF Next, PacerStep, OutsideStep
<1>12. ASSUME NEW s, Known(s) PROVE Known(s)'
  <2>1. PosOf(s) \in Int /\ PosOf(s) < Horizon /\ s \in HistorySeq
    BY <1>12, SeqAtPosOf DEF Known
  <2>2. PosOf(s) < Horizon'
    <3>1. \A a \in Int, b, c \in Nat : a < b /\ b <= c => a < c
      OBVIOUS
    <3> QED BY <1>1, <1>11, <2>1, <3>1
  <2> QED BY <2>1, <2>2 DEF Known
<1> QED BY <1>1, <1>11, <1>12

-----------------------------------------------------------------------------
\* The top of an ordered queue is older than the rest.
LEMMA TopIsOldest ==
    ASSUME NEW p, GoodQueue(p, {}), NEW frame, Ordered(p.packet_list, frame),
           NEW q, IsTop(p, q), NEW r \in p.prio_queue \ {q}
    PROVE  Older(q, r)
<1> SUFFICES ASSUME ~q.retransmission, ~r.retransmission
             PROVE  PosOf(q.seq) < PosOf(r.seq)
  BY DEF Older
<1> DEFINE l == p.packet_list
<1>0. /\ l \in Seq(PacedPacket) /\ DOMAIN l = 1 .. Len(l) /\ Len(l) \in Nat
      /\ q \in ToSet(l) /\ r \in ToSet(l) /\ q \in PacedPacket /\ r \in PacedPacket
  BY DEF GoodQueue, IsPacer, IsTop
<1>1. PICK a \in DOMAIN l : l[a] = q
  BY <1>0 DEF ToSet
<1>2. PICK b \in DOMAIN l : l[b] = r
  BY <1>0 DEF ToSet
<1>3. Before(p, q, r)
  BY DEF IsTop
<1>4. q.time \in Nat /\ r.time \in Nat /\ a \in Int /\ b \in Int /\ a # b
  BY <1>0, <1>1, <1>2 DEF PacedPacket
<1>5. CASE \E i, j \in DOMAIN l : i < j /\ l[i] = q /\ l[j] = r
  BY <1>5 DEF Ordered
<1>6. CASE q.time < r.time
  <2>1. CASE a < b
    BY <1>1, <1>2, <2>1 DEF Ordered
  <2>2. CASE b < a
    <3>1. r.time <= q.time
      BY <1>1, <1>2, <2>2 DEF Ordered
    <3> QED BY <1>4, <1>6, <3>1
  <2> QED BY <1>4, <2>1, <2>2
<1> QED BY <1>3, <1>5, <1>6 DEF Before

\* Removing a packet keeps a list in order.
LEMMA RemovedOrdered ==
    ASSUME NEW s \in Seq(PacedPacket), NEW k \in DOMAIN s, NEW t \in Seq(PacedPacket),
           RemovedAt(s, t, k), NEW frame, Ordered(s, frame)
    PROVE  Ordered(t, frame)
<1> DEFINE up(i) == IF i < k THEN i ELSE i + 1
<1>1. /\ DOMAIN s = 1 .. Len(s) /\ Len(s) \in Nat /\ DOMAIN t = 1 .. Len(s) - 1
      /\ k \in 1 .. Len(s)
  BY DEF RemovedAt
<1>2. ASSUME NEW i \in DOMAIN t PROVE t[i] = s[up(i)] /\ up(i) \in DOMAIN s
  BY <1>1 DEF RemovedAt
<1>3. ASSUME NEW i \in DOMAIN t, NEW j \in DOMAIN t, i < j PROVE up(i) < up(j)
  BY <1>1, <1>3
<1> HIDE DEF up
<1> QED BY <1>2, <1>3 DEF Ordered

\* Appending a newer packet keeps a list in order.
LEMMA AppendedOrdered ==
    ASSUME NEW s \in Seq(PacedPacket), NEW q \in PacedPacket, NEW frame \in Nat,
           Ordered(s, frame),
           ~q.retransmission =>
              /\ q.time = frame
              /\ \A e \in ToSet(s) : ~e.retransmission => PosOf(e.seq) < PosOf(q.seq)
    PROVE  Ordered(Append(s, q), frame)
<1> DEFINE t == Append(s, q)
<1>1. /\ DOMAIN s = 1 .. Len(s) /\ Len(s) \in Nat /\ DOMAIN t = 1 .. Len(s) + 1
  OBVIOUS
<1>2. \A i \in DOMAIN s : t[i] = s[i] /\ s[i] \in ToSet(s)
  BY DEF ToSet
<1>3. t[Len(s) + 1] = q
  OBVIOUS
<1> HIDE DEF t
<1>4. ASSUME NEW i \in DOMAIN t, NEW j \in DOMAIN t, i < j,
             ~t[i].retransmission, ~t[j].retransmission
      PROVE  PosOf(t[i].seq) < PosOf(t[j].seq) /\ t[i].time <= t[j].time
  <2>1. i \in DOMAIN s
    BY <1>1, <1>4
  <2>2. CASE j \in DOMAIN s
    BY <1>2, <1>4, <2>1, <2>2 DEF Ordered
  <2>3. CASE j = Len(s) + 1
    <3>1. s[i].time <= frame /\ t[i] = s[i] /\ t[j] = q
      BY <1>2, <1>3, <1>4, <2>1, <2>3 DEF Ordered
    <3> QED BY <1>2, <1>4, <2>1, <3>1
  <2> QED BY <1>1, <2>2, <2>3
<1>5. ASSUME NEW i \in DOMAIN t, ~t[i].retransmission PROVE t[i].time <= frame
  <2>1. CASE i \in DOMAIN s
    BY <1>2, <1>5, <2>1 DEF Ordered
  <2>2. CASE i = Len(s) + 1
    BY <1>3, <1>5, <2>2
  <2> QED BY <1>1, <2>1, <2>2
<1>6. Ordered(t, frame)
  BY <1>4, <1>5 DEF Ordered
<1> QED BY <1>6 DEF t

\* One turn of the loop in Process keeps the list in order.
LEMMA LoopOrder ==
    ASSUME NEW p, GoodQueue(p, {}), LoopStep(p), Ordered(p.packet_list, encoder.frame),
           encoder' = encoder
    PROVE  OrderInv'
<1>1. /\ pacer'.packet_list = p.packet_list
      /\ pacer'.prio_queue = p.prio_queue \ Popped'
      /\ \A q \in Popped' : IsTop(p, q)
  BY LoopKeepsQueue
<1>2. ASSUME NEW q \in Popped', NEW r \in pacer'.prio_queue PROVE Older(q, r)
  <2>1. IsTop(p, q) /\ r \in p.prio_queue \ {q}
    BY <1>1
  <2> QED BY <2>1, TopIsOldest
<1> QED BY <1>1, <1>2 DEF OrderInv, Older

\* The steps of the process thread keep the list in order.
LEMMA PacerStepOrder ==
    ASSUME IInv, PacerStep, OrderInv
    PROVE  /\ OrderInv'
           /\ pacer'.enabled = pacer.enabled
           /\ pacer'.dupe_set \subseteq pacer.dupe_set
           /\ \A s \in pacer.dupe_set : \/ s \in pacer'.dupe_set
                                        \/ process.pc = "sent" /\ s = process.packet.seq
<1>0. /\ encoder' = encoder /\ pacer.packet_list \in Seq(PacedPacket)
      /\ Ordered(pacer.packet_list, encoder.frame)
  BY PacerStepFacts DEF IInv, TypeOK, IsPacer, OrderInv
<1>1. ASSUME NEW elapsed \in BOOLEAN, Process(elapsed)
      PROVE  /\ OrderInv'
             /\ pacer'.enabled = pacer.enabled /\ pacer'.dupe_set = pacer.dupe_set
  <2>1. PICK p : SameQueue(pacer, p) /\ GoodQueue(p, {}) /\ LoopStep(p)
    BY <1>1, ProcessKeeps
  <2>2. Ordered(p.packet_list, encoder.frame)
    BY <1>0, <2>1 DEF SameQueue
  <2>3. OrderInv'
    BY <1>0, <2>1, <2>2, LoopOrder
  <2> QED BY <2>1, <2>3, LoopKeepsQueue DEF SameQueue
<1>2. ASSUME NEW tooLate \in BOOLEAN, TimeUntilNextProcess(tooLate)
      PROVE  /\ OrderInv'
             /\ pacer'.enabled = pacer.enabled /\ pacer'.dupe_set = pacer.dupe_set
  <2>1. SameQueue(pacer, pacer') /\ process' = process
    BY <1>2, TimeUntilNextProcessKeeps DEF TimeUntilNextProcess
  <2>2. Popped' = Popped
    BY <2>1 DEF Popped
  <2> QED BY <1>0, <2>1, <2>2 DEF SameQueue, OrderInv, Older
<1>3. ASSUME PacedPacketSent
      PROVE  /\ OrderInv' /\ pacer'.enabled = pacer.enabled
             /\ pacer'.dupe_set = pacer.dupe_set \ {process.packet.seq}
             /\ process.pc = "sent"
  <2> DEFINE p == PacketSent(pacer, process.packet)
  <2>1. GoodQueue(p, {}) /\ LoopStep(p) /\ process.pc = "sent"
    BY <1>3, PacedPacketSentKeeps DEF PacedPacketSent
  <2>2. GoodQueue(pacer, {process.packet})
    BY <1>3 DEF IInv, QueueInv, Popped, PacedPacketSent
  <2>3. /\ p.dupe_set = pacer.dupe_set \ {process.packet.seq}
        /\ p.enabled = pacer.enabled
        /\ \E k \in DOMAIN pacer.packet_list :
              RemovedAt(pacer.packet_list, p.packet_list, k)
    BY <2>2, PacketSentFacts
  <2> HIDE DEF p
  <2>4. p.packet_list \in Seq(PacedPacket)
    BY <2>1 DEF GoodQueue, IsPacer
  <2>5. Ordered(p.packet_list, encoder.frame)
    BY <1>0, <2>3, <2>4, RemovedOrdered
  <2>6. OrderInv'
    BY <1>0, <2>1, <2>5, LoopOrder
  <2>7. pacer'.dupe_set = p.dupe_set /\ pacer'.enabled = p.enabled
    BY <2>1, LoopKeepsQueue
  <2> QED BY <2>1, <2>3, <2>6, <2>7
<1>4. ASSUME PacedPacketRefused
      PROVE  /\ OrderInv'
             /\ pacer'.enabled = pacer.enabled /\ pacer'.dupe_set = pacer.dupe_set
  <2>1. GoodQueue(pacer, {process.packet}) /\ process.packet \in PacedPacket
    BY <1>4 DEF IInv, QueueInv, Popped, PacedPacketRefused, TypeOK
  <2>2. /\ pacer'.packet_list = pacer.packet_list /\ pacer'.dupe_set = pacer.dupe_set
        /\ pacer'.enabled = pacer.enabled
    BY <1>4, <2>1, CancelPopFacts DEF PacedPacketRefused
  <2>3. Popped' = {}
    BY <1>4, IdleType DEF PacedPacketRefused, Popped
  <2> QED BY <1>0, <2>2, <2>3 DEF OrderInv
<1>5. ASSUME PaddingSent
      PROVE  /\ OrderInv'
             /\ pacer'.enabled = pacer.enabled /\ pacer'.dupe_set = pacer.dupe_set
  <2>1. SameQueue(pacer, pacer')
    BY <1>5, PaddingSentKeeps
  <2>2. Popped' = {}
    BY <1>5, IdleType DEF PaddingSent, Popped
  <2> QED BY <1>0, <2>1, <2>2 DEF OrderInv, SameQueue
<1>6. CASE \E elapsed \in BOOLEAN : Process(elapsed)
  BY <1>1, <1>6
<1>7. CASE \E tooLate \in BOOLEAN : TimeUntilNextProcess(tooLate)
  BY <1>2, <1>7
<1> QED BY <1>3, <1>4, <1>5, <1>6, <1>7 DEF PacerStep

-----------------------------------------------------------------------------
\* The settings were not changed before either.
LEMMA UndisturbedBefore ==
    ASSUME IInv, [Next]_vars, Undisturbed'
    PROVE  Undisturbed /\ (OutsideStep => ResendIntervalPasses)
<1>0. rtp.changes \in Nat /\ pacer.enabled \in BOOLEAN /\ pacer.enabled = pacer.enabled
  BY DEF IInv, TypeOK, IsPacer
<1>c. OutsideStep => ResendIntervalPasses \/ rtp'.changes = rtp.changes + 1
  BY DEF OutsideStep, SetPaused, SetStatus, SetSendingMedia, SetStorePacketsStatus,
         IInv, TypeOK
<1>6. OutsideStep => ResendIntervalPasses
  BY <1>0, <1>c DEF Undisturbed
<1>1. CASE PacerStep
  <2>1. rtp' = rtp
    BY <1>1, PacerStepFacts
  <2>2. pacer'.enabled = pacer.enabled
    <3>1. ASSUME NEW elapsed \in BOOLEAN, Process(elapsed)
          PROVE  pacer'.enabled = pacer.enabled
      <4>1. PICK p : SameQueue(pacer, p) /\ GoodQueue(p, {}) /\ LoopStep(p)
        BY <3>1, ProcessKeeps
      <4> QED BY <4>1, LoopKeepsQueue DEF SameQueue
    <3>2. ASSUME NEW tooLate \in BOOLEAN, TimeUntilNextProcess(tooLate)
          PROVE  pacer'.enabled = pacer.enabled
      BY <3>2, TimeUntilNextProcessKeeps DEF SameQueue
    <3>3. ASSUME PacedPacketSent PROVE pacer'.enabled = pacer.enabled
      <4>1. GoodQueue(pacer, {process.packet})
        BY <3>3 DEF IInv, QueueInv, Popped, PacedPacketSent
      <4>2. PacketSent(pacer, process.packet).enabled = pacer.enabled
        BY <4>1, PacketSentFacts
      <4>3. pacer'.enabled = PacketSent(pacer, process.packet).enabled
        BY <3>3, PacedPacketSentKeeps, LoopKeepsQueue
      <4> QED BY <4>2, <4>3
    <3>4. ASSUME PacedPacketRefused PROVE pacer'.enabled = pacer.enabled
      BY <3>4 DEF PacedPacketRefused, CancelPop, IInv, TypeOK, IsPacer
    <3>5. ASSUME PaddingSent PROVE pacer'.enabled = pacer.enabled
      BY <3>5, PaddingSentKeeps DEF SameQueue
    <3> QED BY <1>1, <3>1, <3>2, <3>3, <3>4, <3>5 DEF PacerStep
  <2> QED BY <1>6, <2>1, <2>2 DEF Undisturbed
<1>2. CASE OutsideStep
  <2> QED BY <1>2, <1>6 DEF ResendIntervalPasses, Undisturbed
<1>3. ASSUME NEW giveUp \in BOOLEAN, PaceNacked(giveUp) PROVE Undisturbed
  <2>1. rtp' = rtp
    BY <1>3 DEF PaceNacked
  <2>3. ~pacer.enabled => pacer' = pacer
    BY <1>3 DEF PaceNacked
  <2> QED BY <1>0, <2>1, <2>3 DEF Undisturbed
<1>4. ASSUME PacePacket PROVE Undisturbed
  <2>1. rtp' = rtp
    BY <1>4 DEF PacePacket
  <2>2. ~pacer.enabled => pacer' = pacer
    BY <1>4 DEF PacePacket
  <2> QED BY <1>0, <2>1, <2>2 DEF Undisturbed
<1>5. CASE \/ EncodedFrame
           \/ PutPacket
           \/ \E taken \in BOOLEAN : SendPacket(taken)
           \/ TimeToSendPacket
           \/ \E taken \in BOOLEAN : SendPacedPacket(taken)
           \/ \E sent, taken \in BOOLEAN : TimeToSendPadding(sent, taken)
           \/ \E list \in NackLists : OnReceivedNACK(list)
           \/ FetchNacked
           \/ \E taken, giveUp \in BOOLEAN : SendNacked(taken, giveUp)
           \/ UNCHANGED vars
  <2>1. pacer' = pacer /\ rtp'.changes = rtp.changes
    BY <1>5 DEF EncodedFrame, PutPacket, SendPacket, TimeToSendPacket,
                SendPacedPacket, TimeToSendPadding, OnReceivedNACK, FetchNacked,
                SendNacked, vars, IInv, TypeOK
  <2> QED BY <1>6, <2>1 DEF Undisturbed
<1> QED BY <1>1, <1>2, <1>3, <1>4, <1>5, <1>6 DEF Next, PacerStep, OutsideStep

\* Steps that change neither the queue nor what is stored.
LEMMA QuietStep ==
    ASSUME IInv, NumberInv, [Next]_vars, KnownInv, DoneInv, OrderInv,
           UNCHANGED <<pacer, encoder>>,
           Horizon' = Horizon,
           rtp'.sending_media,
           StoredSeqs(history') = StoredSeqs(history),
           handed \subseteq handed', \A s \in handed' \ handed : Known(s),
           ToSet(nack'.list) \subseteq ToSet(nack.list) \cup {s \in HistorySeq : Known(s)},
           nack'.pc # "send",
           Popped' = Popped,
           (process.pc = "sent" => Done(process.packet.seq))',
           process'.pc = "send" /\ process'.packet.retransmission =>
               process'.packet.seq \in handed'
    PROVE  (KnownInv /\ DoneInv /\ OrderInv)'
<1>1. \A s : Known(s)' <=> Known(s)
  BY DEF Known
<1>2. \A s : Done(s) => Done(s)'
  BY DEF Done
<1>3. KnownInv'
  BY <1>1 DEF KnownInv
<1>4. DoneInv'
  BY <1>1, <1>2 DEF DoneInv
<1>5. OrderInv'
  BY DEF OrderInv, Older
<1> QED BY <1>3, <1>4, <1>5

\* Every step keeps the three invariants of an undisturbed stream.
LEMMA SettingsStep ==
    ASSUME IInv, NumberInv, KnownInv, DoneInv, OrderInv, Undisturbed,
           [Next]_vars, rtp'.pos <= HistorySeqMod,
           OutsideStep => ResendIntervalPasses
    PROVE  (KnownInv /\ DoneInv /\ OrderInv)'
<1>0. /\ GoodHistory(history) /\ GoodHistory(history') /\ RestOK /\ RestOK'
      /\ RouterInv /\ QueueInv /\ QueueInv'
  BY NextKeepsIInv, IInvParts
<1>t. /\ IsHistory(history) /\ IsHistory(history')
      /\ pacer.packet_list \in Seq(PacedPacket)
      /\ pacer.dupe_set = {q.seq : q \in ToSet(pacer.packet_list)}
      /\ rtp.pos \in Nat /\ encoder.pos \in Nat /\ encoder.frame \in Nat
      /\ rtp'.pos \in Nat
  BY <1>0 DEF GoodHistory, QueueInv, GoodQueue, IsPacer, RestOK
<1>h. /\ Horizon \in Nat /\ Horizon' \in Nat /\ Horizon <= Horizon'
      /\ \A s : Known(s) => Known(s)'
  BY HorizonGrows
<1>m. HistorySeqMod \in Nat /\ HistorySeqMod > 1
  BY HistoryAssumption
<1>1. CASE PacerStep
  <2>1. /\ UNCHANGED <<history, rtp, encoder, nack, handed>>
        /\ ToSet(pacer'.packet_list) \subseteq ToSet(pacer.packet_list)
        /\ process'.pc \in {"idle", "pad", "callback"}
    BY <1>1, PacerStepFacts
  <2>2. /\ OrderInv' /\ pacer'.dupe_set \subseteq pacer.dupe_set
        /\ \A s \in pacer.dupe_set : \/ s \in pacer'.dupe_set
                                     \/ process.pc = "sent" /\ s = process.packet.seq
    BY <1>1, PacerStepOrder
  <2>3. (\A s : Known(s)' <=> Known(s)) /\ (\A s : Done(s)' <=> Done(s))
    BY <2>1 DEF Known, Horizon, Done
  <2>4. KnownInv'
    BY <2>1, <2>2, <2>3 DEF KnownInv
  <2>5. DoneInv'
    BY <2>1, <2>2, <2>3 DEF DoneInv
  <2> QED BY <2>2, <2>4, <2>5
<1>2. CASE ResendIntervalPasses
  <2>1. /\ UNCHANGED <<pacer, rtp, encoder, process, nack, handed>>
        /\ SameSlots(history, history')
    BY <1>0, <1>2, AgeFacts DEF ResendIntervalPasses
  <2>2. StoredSeqs(history') = StoredSeqs(history)
    BY <1>t, <2>1, SameStored
  <2>3. /\ Horizon' = Horizon /\ Popped' = Popped
        /\ (process.pc = "sent" => Done(process.packet.seq))'
    BY <2>1, <2>2 DEF Horizon, Popped, Done, DoneInv
  <2> QED BY <2>1, <2>2, <2>3, QuietStep DEF DoneInv
<1>3. CASE EncodedFrame
  <2>1. /\ UNCHANGED <<history, pacer, rtp, process, nack, handed>>
        /\ encoder.pc = "idle" /\ encoder'.pc \in {"idle", "put"}
        /\ encoder'.frame \in {encoder.frame, encoder.frame + 1}
    BY <1>0, <1>3 DEF EncodedFrame, RestOK
  <2>2. Horizon' = Horizon
    BY <2>1 DEF Horizon
  <2>3. (\A s : Known(s)' <=> Known(s)) /\ (\A s : Done(s)' <=> Done(s))
    BY <2>1, <2>2 DEF Known, Done
  <2>4. KnownInv' /\ DoneInv'
    BY <2>1, <2>3 DEF KnownInv, DoneInv
  <2>5. \A i \in DOMAIN pacer.packet_list : pacer.packet_list[i].time \in Nat
    <3>1. \A i \in DOMAIN pacer.packet_list : pacer.packet_list[i] \in PacedPacket
      BY <1>t
    <3> QED BY <3>1 DEF PacedPacket
  <2>6. Ordered(pacer.packet_list, encoder'.frame)
    BY <1>t, <2>1, <2>5 DEF OrderInv, Ordered
  <2>7. OrderInv'
    BY <2>1, <2>6 DEF OrderInv, Popped, Older
  <2> QED BY <2>4, <2>7
<1>4. CASE PutPacket
  <2> DEFINE e == [seq |-> SeqAt(rtp.pos), stored |-> TRUE, sent |-> "unsent",
                   type |-> StorageOf(rtp.pos), time |-> encoder.frame]
  <2>1. PICK k : StoredAt(history, history', k, e)
    <3>1. SeqAt(rtp.pos) \in HistorySeq /\ StorageOf(rtp.pos) \in StorageType
      BY <1>t, SeqAtType
    <3>2. history' = PutRTPPacket(history, SeqAt(rtp.pos), encoder.frame,
                                  StorageOf(rtp.pos))
      BY <1>4 DEF PutPacket
    <3> QED BY <1>0, <1>t, <3>1, <3>2, PutFacts
  <2>2. e.seq = SeqAt(rtp.pos)
    OBVIOUS
  <2> HIDE DEF e
  <2>3. StoredSeqs(history') \subseteq StoredSeqs(history) \cup {SeqAt(rtp.pos)}
    BY <1>t, <2>1, <2>2, StoredGrows
  <2>4. /\ UNCHANGED <<pacer, process, nack, handed>> /\ encoder.pc = "put"
        /\ encoder'.pc = "pace" /\ encoder'.pos = rtp.pos
        /\ encoder'.frame = encoder.frame
        /\ rtp'.pos = rtp.pos + 1 /\ rtp'.sending_media = rtp.sending_media
    BY <1>0, <1>4 DEF PutPacket, RestOK
  <2>5. Horizon' = Horizon /\ Horizon = rtp.pos
    BY <2>4 DEF Horizon
  <2>6. \A s : Known(s)' <=> Known(s)
    BY <2>5 DEF Known
  <2>7. ~Known(SeqAt(rtp.pos))
    <3>1. rtp.pos \in 0 .. HistorySeqMod - 1
      BY <1>m, <1>t, <2>4
    <3>2. PosOf(SeqAt(rtp.pos)) = rtp.pos
      BY <3>1, PosOfSeqAt
    <3> QED BY <1>t, <2>5, <3>2 DEF Known
  <2>8. \A s : Known(s) /\ Done(s) => Done(s)'
    BY <2>3, <2>4, <2>7 DEF Done
  <2>9. KnownInv'
    BY <2>3, <2>4, <2>6 DEF KnownInv
  <2>10. \A q \in ToSet(pacer.packet_list) : Known(q.seq)
    BY <1>t DEF KnownInv
  <2>11. process.pc = "sent" => Known(process.packet.seq)
    <3>1. process.pc = "sent" => process.packet \in ToSet(pacer.packet_list)
      BY <1>0 DEF QueueInv, GoodQueue, Popped
    <3> QED BY <2>10, <3>1
  <2>12. DoneInv'
    BY <2>4, <2>6, <2>8, <2>10, <2>11 DEF DoneInv
  <2>13. OrderInv'
    BY <2>4 DEF OrderInv, Popped, Older
  <2> QED BY <2>9, <2>12, <2>13
<1>5. CASE PacePacket
  <2>p. PICK q : q = [seq |-> SeqAt(encoder.pos), retransmission |-> FALSE,
                      time |-> encoder.frame]
    OBVIOUS
  <2>0. q.seq = SeqAt(encoder.pos) /\ ~q.retransmission /\ q.time = encoder.frame
    BY <2>p
  <2>1. /\ UNCHANGED <<history, rtp, process, nack, handed>>
        /\ pacer' = Enqueue(pacer, q) /\ q \in PacedPacket
        /\ encoder.pc = "pace" /\ encoder'.pc \in {"idle", "put"}
        /\ encoder'.frame \in {encoder.frame, encoder.frame + 1}
    BY <1>0, <1>5, <2>p, NewPacketType, PacketDoneFacts DEF PacePacket, Undisturbed
  <2>2. Horizon = encoder.pos /\ Horizon' = encoder.pos + 1 /\ rtp.pos = encoder.pos + 1
    BY <2>1 DEF Horizon, NumberInv
  <2>3. encoder.pos \in 0 .. HistorySeqMod - 1
    BY <1>m, <1>t, <2>1, <2>2
  <2>4. q.seq \in HistorySeq /\ PosOf(q.seq) = encoder.pos
    BY <2>0, <2>3, PosOfSeqAt
  <2>5. Known(q.seq)'
    BY <1>t, <2>2, <2>4 DEF Known
  <2>6. \A s : Done(s)' <=> Done(s)
    BY <2>1 DEF Done
  <2>7. ASSUME NEW s, Known(s)' PROVE Known(s) \/ s = q.seq
    <3>1. s \in HistorySeq /\ PosOf(s) < encoder.pos + 1
      BY <2>2, <2>7 DEF Known
    <3>2. PosOf(s) \in 0 .. HistorySeqMod - 1 /\ SeqAt(PosOf(s)) = s
      BY <3>1, SeqAtPosOf
    <3>3. CASE PosOf(s) = encoder.pos
      BY <2>0, <3>2, <3>3
    <3>4. CASE PosOf(s) # encoder.pos
      <4>1. PosOf(s) < encoder.pos
        BY <1>m, <1>t, <3>1, <3>2, <3>4
      <4> QED BY <2>2, <3>1, <4>1 DEF Known
    <3> QED BY <3>3, <3>4
  <2>8. \A r \in ToSet(pacer.packet_list) : Known(r.seq) /\ PosOf(r.seq) < PosOf(q.seq)
    BY <1>t, <2>2, <2>4 DEF KnownInv, Known
  <2>9. /\ q.seq \in pacer.dupe_set => SameQueue(pacer, pacer')
        /\ q.seq \notin pacer.dupe_set => Pushed(pacer, pacer', q)
    BY <1>0, <2>1, EnqueueFacts DEF QueueInv
  <2>10. ToSet(Append(pacer.packet_list, q)) = ToSet(pacer.packet_list) \cup {q}
    BY <1>t, <2>1, AppendSet
  <2>11. /\ pacer'.dupe_set = pacer.dupe_set \cup {q.seq}
         /\ ToSet(pacer'.packet_list) \subseteq ToSet(pacer.packet_list) \cup {q}
         /\ pacer'.prio_queue \subseteq pacer.prio_queue \cup {q}
    BY <2>9, <2>10 DEF SameQueue, Pushed
  <2>12. KnownInv'
    BY <1>h, <2>0, <2>1, <2>5, <2>11 DEF KnownInv
  <2>13. DoneInv'
    BY <2>0, <2>1, <2>6, <2>7, <2>11 DEF DoneInv
  <2>14. Ordered(pacer'.packet_list, encoder.frame)
    <3>1. CASE q.seq \in pacer.dupe_set
      BY <2>9, <3>1 DEF SameQueue, OrderInv
    <3>2. CASE q.seq \notin pacer.dupe_set
      <4>1. Ordered(Append(pacer.packet_list, q), encoder.frame)
        BY <1>t, <2>0, <2>1, <2>8, AppendedOrdered DEF OrderInv
      <4> QED BY <2>9, <3>2, <4>1 DEF Pushed
    <3> QED BY <3>1, <3>2
  <2>15. Ordered(pacer'.packet_list, encoder'.frame)
    <3>1. pacer'.packet_list \in Seq(PacedPacket)
      BY <1>0 DEF QueueInv, GoodQueue, IsPacer
    <3>2. \A i \in DOMAIN pacer'.packet_list : pacer'.packet_list[i].time \in Nat
      <4>1. \A i \in DOMAIN pacer'.packet_list : pacer'.packet_list[i] \in PacedPacket
        BY <3>1
      <4> QED BY <4>1 DEF PacedPacket
    <3> QED BY <1>t, <2>1, <2>14, <3>2 DEF Ordered
  <2>16. \A x \in Popped : Older(x, q)
    <3>1. Popped \subseteq ToSet(pacer.packet_list)
      BY <1>0 DEF QueueInv, GoodQueue
    <3> QED BY <2>8, <3>1 DEF Older
  <2>17. Popped' = Popped
    BY <2>1 DEF Popped
  <2>18. OrderInv'
    BY <2>11, <2>15, <2>16, <2>17 DEF OrderInv, Older
  <2> QED BY <2>12, <2>13, <2>18
<1>6. ASSUME NEW taken \in BOOLEAN, SendPacket(taken) PROVE FALSE
  BY <1>6 DEF SendPacket, DoneInv
<1>7. CASE TimeToSendPacket
  <2> DEFINE q == process.packet
  <2>1. UNCHANGED <<pacer, rtp, encoder, nack, handed>> /\ process.pc = "callback"
    BY <1>7 DEF TimeToSendPacket
  <2>q. /\ q \in ToSet(pacer.packet_list) /\ process'.packet = q
        /\ q.retransmission \in BOOLEAN
        /\ process'.pc \in {"send", "sent"}
    BY <1>0, <1>7, ZenonT(60) DEF TimeToSendPacket, QueueInv, GoodQueue, Popped, RestOK,
                      ProcessType, PacedPacket
  <2>2. Popped' = Popped /\ Horizon' = Horizon
    BY <2>1, <2>q DEF Popped, Horizon
  <2>3. CASE CanGetPacket(history, q.seq, FALSE, q.retransmission)
    <3>0. HasRTPPacket(history, q.seq)
      BY <2>3 DEF CanGetPacket
    <3>1. history' = SetSendTime(history, q.seq) /\ process'.pc = "send"
      BY <1>0, <1>7, <2>3 DEF TimeToSendPacket, RestOK, ProcessType, DoneInv
    <3>2. SameSlots(history, history')
      BY <1>0, <3>0, <3>1, SetSendTimeFacts
    <3>3. StoredSeqs(history') = StoredSeqs(history)
      BY <1>t, <3>2, SameStored
    <3>4. q.retransmission => q.seq \in handed
      <4>1. q.seq \in StoredSeqs(history)
        BY <1>0, <3>0, FoundIsStored
      <4> QED BY <2>q, <4>1 DEF DoneInv, Done
    <3> QED BY <2>1, <2>2, <2>q, <3>1, <3>3, <3>4, QuietStep DEF DoneInv
  <2>4. CASE ~CanGetPacket(history, q.seq, FALSE, q.retransmission)
    <3>1. history' = history /\ process'.pc = "sent"
      BY <1>0, <1>7, <2>4 DEF TimeToSendPacket, RestOK, ProcessType
    <3>2. Done(q.seq)
      <4>1. CASE q.retransmission
        BY <2>q, <4>1 DEF DoneInv
      <4>2. CASE ~q.retransmission
        <5>1. ~HasRTPPacket(history, q.seq)
          BY <2>4, <4>2 DEF CanGetPacket
        <5>2. q.seq \notin StoredSeqs(history)
          BY <1>0, <5>1, FoundIsStored
        <5> QED BY <5>2 DEF Done
      <4> QED BY <4>1, <4>2
    <3>3. Done(process.packet.seq)'
      BY <2>1, <2>q, <3>1, <3>2 DEF Done
    <3> QED BY <2>1, <2>2, <2>q, <3>1, <3>3, QuietStep DEF DoneInv
  <2> QED BY <2>3, <2>4
<1>8. ASSUME NEW taken \in BOOLEAN, SendPacedPacket(taken)
      PROVE  (KnownInv /\ DoneInv /\ OrderInv)'
  <2> DEFINE q == process.packet
  <2>1. /\ UNCHANGED <<history, pacer, rtp, encoder, nack>> /\ process.pc = "send"
        /\ handed' \subseteq handed \cup {q.seq} /\ handed \subseteq handed'
        /\ process'.packet = q /\ process'.pc \in {"sent", "refused"}
        /\ process'.pc = "sent" => q.seq \in handed'
    BY <1>0, <1>8 DEF SendPacedPacket, SendPacketToNetwork, RestOK, ProcessType
  <2>2. q \in ToSet(pacer.packet_list)
    BY <1>0, <2>1 DEF QueueInv, GoodQueue, Popped
  <2>3. Known(q.seq)
    BY <1>t, <2>2 DEF KnownInv
  <2>4. Popped' = Popped /\ Horizon' = Horizon
    BY <2>1 DEF Popped, Horizon
  <2>5. (process.pc = "sent" => Done(process.packet.seq))'
    BY <2>1 DEF Done
  <2> QED BY <2>1, <2>3, <2>4, <2>5, QuietStep DEF DoneInv
<1>9. ASSUME NEW sent \in BOOLEAN, NEW taken \in BOOLEAN,
             TimeToSendPadding(sent, taken)
      PROVE  (KnownInv /\ DoneInv /\ OrderInv)'
  <2>1. /\ UNCHANGED <<history, pacer, encoder, nack>> /\ encoder.pc = "idle"
        /\ process.pc = "pad" /\ process'.pc \in {"idle", "padded"}
        /\ handed \subseteq handed'
        /\ rtp'.sending_media = rtp.sending_media
    <3>1. router = "none" /\ process'.pc \in {"idle", "padded"}
      BY <1>9, IdleType DEF TimeToSendPadding, ProcessType
    <3>2. encoder.pc = "idle"
      BY <1>0, <3>1 DEF RouterInv
    <3> QED BY <1>0, <1>9, <3>1, <3>2 DEF TimeToSendPadding, SendPacketToNetwork, RestOK
  <2>2. Popped' = {}
    BY <2>1 DEF Popped
  <2>3. OrderInv'
    BY <2>1, <2>2 DEF OrderInv
  <2>4. Horizon = rtp.pos /\ Horizon' = rtp'.pos
    BY <2>1 DEF Horizon
  <2>5. CASE ~sent
    <3>1. rtp' = rtp /\ handed' = handed
      BY <1>9, <2>5 DEF TimeToSendPadding, SendPacketToNetwork
    <3>2. (\A s : Known(s)' <=> Known(s)) /\ (\A s : Done(s)' <=> Done(s))
      BY <2>1, <2>4, <3>1 DEF Known, Done
    <3> QED BY <2>1, <2>3, <3>1, <3>2 DEF KnownInv, DoneInv
  <2>6. CASE sent
    <3>p. PICK x : x = SeqAt(rtp.pos)
      OBVIOUS
    <3>1. /\ rtp'.pos = rtp.pos + 1
          /\ handed' \subseteq handed \cup {x}
      BY <1>0, <1>9, <2>6, <3>p DEF TimeToSendPadding, SendPacketToNetwork, RestOK
    <3>2. rtp.pos \in 0 .. HistorySeqMod - 1
      BY <1>m, <1>t, <3>1
    <3>3. x \in HistorySeq /\ PosOf(x) = rtp.pos
      BY <3>2, <3>p, PosOfSeqAt
    <3>4. Known(x)' /\ ~Known(x)
      <4>1. x \in HistorySeq /\ PosOf(x) < Horizon'
        BY <1>t, <2>4, <3>1, <3>3
      <4>2. ~(PosOf(x) < Horizon)
        BY <1>t, <2>4, <3>3
      <4> QED BY <4>1, <4>2 DEF Known
    <3>5. ASSUME NEW s, Known(s)' PROVE Known(s) \/ s = x
      <4>1. s \in HistorySeq /\ PosOf(s) < rtp.pos + 1
        BY <2>4, <3>1, <3>5 DEF Known
      <4>2. PosOf(s) \in 0 .. HistorySeqMod - 1 /\ SeqAt(PosOf(s)) = s
        BY <4>1, SeqAtPosOf
      <4>3. CASE PosOf(s) = rtp.pos
        BY <3>p, <4>2, <4>3
      <4>4. CASE PosOf(s) # rtp.pos
        <5>1. PosOf(s) < rtp.pos
          BY <1>m, <1>t, <4>1, <4>2, <4>4
        <5> QED BY <2>4, <4>1, <5>1 DEF Known
      <4> QED BY <4>3, <4>4
    <3>6. x \notin StoredSeqs(history)
      BY <2>1, <3>4 DEF KnownInv
    <3>7. \A s : Done(s) => Done(s)'
      BY <2>1 DEF Done
    <3>8. Done(x)
      BY <3>6 DEF Done
    <3>9. KnownInv'
      BY <1>h, <2>1, <3>1, <3>4 DEF KnownInv
    <3>10. DoneInv'
      BY <2>1, <3>5, <3>7, <3>8 DEF DoneInv
    <3> QED BY <2>3, <3>9, <3>10
  <2> QED BY <2>5, <2>6
<1>10. ASSUME NEW list \in NackLists, OnReceivedNACK(list)
       PROVE  (KnownInv /\ DoneInv /\ OrderInv)'
  <2>1. /\ UNCHANGED <<history, pacer, rtp, encoder, process, handed>>
        /\ nack'.list = list /\ nack'.pc = "fetch"
    BY <1>0, <1>10 DEF OnReceivedNACK, RestOK
  <2>2. ASSUME NEW s \in ToSet(list) PROVE s \in HistorySeq /\ Known(s)
    <3>1. list \in Seq(HistorySeq)
      BY <1>0, NackListType
    <3>2. s \in HistorySeq
      BY <3>1 DEF ToSet
    <3>3. PICK r \in handed : PosOf(s) < PosOf(r)
      BY <1>0, NackListType
    <3>4. r \in HistorySeq /\ PosOf(r) < Horizon
      BY <3>3 DEF KnownInv, Known
    <3>5. PosOf(s) \in Int /\ PosOf(r) \in Int
      BY <1>m, <3>2, <3>4, SeqAtPosOf
    <3>6. PosOf(s) < Horizon
      BY <1>h, <3>3, <3>4, <3>5
    <3> QED BY <3>2, <3>6 DEF Known
  <2>3. /\ Popped' = Popped /\ Horizon' = Horizon
        /\ (process.pc = "sent" => Done(process.packet.seq))'
    BY <2>1 DEF Popped, Horizon, Done, DoneInv
  <2> QED BY <2>1, <2>2, <2>3, QuietStep DEF DoneInv
<1>11. CASE FetchNacked
  <2>1. UNCHANGED <<pacer, rtp, encoder, process, handed>> /\ nack.pc = "fetch"
    BY <1>11 DEF FetchNacked
  <2>2. Popped' = Popped /\ Horizon' = Horizon
    BY <2>1 DEF Popped, Horizon
  <2>3. /\ Tail(nack.list) \in Seq(HistorySeq)
        /\ ToSet(Tail(nack.list)) \subseteq ToSet(nack.list)
    BY <1>0, <2>1, NackTailType
  <2>4. StoredSeqs(history') = StoredSeqs(history) /\ nack'.pc # "send"
        /\ ToSet(nack'.list) \subseteq ToSet(nack.list)
    <3>1. CASE CanGetPacket(history, Head(nack.list), TRUE, TRUE)
      <4>1. /\ history' = SetSendTime(history, Head(nack.list))
            /\ nack'.pc = "pace" /\ nack'.list = nack.list
        BY <1>0, <1>11, <3>1 DEF FetchNacked, RestOK
      <4>2. SameSlots(history, history')
        BY <1>0, <3>1, <4>1, SetSendTimeFacts DEF CanGetPacket
      <4> QED BY <1>t, <4>1, <4>2, SameStored
    <3>2. CASE ~CanGetPacket(history, Head(nack.list), TRUE, TRUE)
      BY <1>0, <1>11, <2>3, <3>2, NackedPacketDoneFacts DEF FetchNacked
    <3> QED BY <3>1, <3>2
  <2>5. (process.pc = "sent" => Done(process.packet.seq))'
    BY <2>1, <2>4 DEF Done, DoneInv
  <2> QED BY <2>1, <2>2, <2>4, <2>5, QuietStep DEF DoneInv
<1>12. ASSUME NEW giveUp \in BOOLEAN, PaceNacked(giveUp)
       PROVE  (KnownInv /\ DoneInv /\ OrderInv)'
  <2>p. PICK q : q = [seq |-> Head(nack.list), retransmission |-> TRUE,
                      time |-> nack.time]
    OBVIOUS
  <2>0. q.seq = Head(nack.list) /\ q.retransmission
    BY <2>p
  <2>n. /\ Tail(nack.list) \in Seq(HistorySeq) /\ <<>> \in Seq(HistorySeq)
        /\ ToSet(Tail(nack.list)) \subseteq ToSet(nack.list) /\ ToSet(<<>>) = {}
        /\ Head(nack.list) \in ToSet(nack.list) /\ nack.pc = "pace"
    BY <1>0, <1>12, NackTailType DEF PaceNacked
  <2>1. /\ UNCHANGED <<history, rtp, encoder, process, handed>>
        /\ pacer' = Enqueue(pacer, q) /\ q \in PacedPacket
        /\ nack'.pc # "send" /\ ToSet(nack'.list) \subseteq ToSet(nack.list)
    BY <1>0, <1>12, <2>n, <2>p, NackedPacketType, NackedPacketDoneFacts
       DEF PaceNacked, Undisturbed
  <2>2. Horizon' = Horizon /\ Popped' = Popped
    BY <2>1 DEF Horizon, Popped
  <2>3. (\A s : Known(s)' <=> Known(s)) /\ (\A s : Done(s)' <=> Done(s))
    BY <2>1, <2>2 DEF Known, Done
  <2>4. Known(q.seq)
    BY <2>0, <2>n DEF KnownInv
  <2>5. /\ q.seq \in pacer.dupe_set => SameQueue(pacer, pacer')
        /\ q.seq \notin pacer.dupe_set => Pushed(pacer, pacer', q)
    BY <1>0, <2>1, EnqueueFacts DEF QueueInv
  <2>6. CASE q.seq \in pacer.dupe_set
    <3>1. SameQueue(pacer, pacer')
      BY <2>5, <2>6
    <3>2. KnownInv'
      BY <2>1, <2>3, <3>1 DEF KnownInv, SameQueue
    <3>3. DoneInv'
      BY <2>1, <2>3, <3>1 DEF DoneInv, SameQueue
    <3>4. OrderInv'
      BY <2>1, <2>2, <3>1 DEF OrderInv, SameQueue, Older
    <3> QED BY <3>2, <3>3, <3>4
  <2>7. CASE q.seq \notin pacer.dupe_set
    <3>1. ToSet(Append(pacer.packet_list, q)) = ToSet(pacer.packet_list) \cup {q}
      BY <1>t, <2>1, AppendSet
    <3>2. /\ pacer'.dupe_set = pacer.dupe_set \cup {q.seq}
          /\ pacer'.packet_list = Append(pacer.packet_list, q)
          /\ pacer'.prio_queue = pacer.prio_queue \cup {q}
      BY <2>5, <2>7 DEF Pushed
    <3>3. Done(q.seq)
      BY <2>4, <2>7 DEF DoneInv
    <3>4. KnownInv'
      BY <2>1, <2>3, <2>4, <3>2 DEF KnownInv
    <3>5. DoneInv'
      BY <2>1, <2>3, <3>1, <3>2, <3>3 DEF DoneInv
    <3>6. Ordered(Append(pacer.packet_list, q), encoder.frame)
      BY <1>t, <2>0, <2>1, AppendedOrdered DEF OrderInv
    <3>7. OrderInv'
      BY <2>0, <2>1, <2>2, <3>2, <3>6 DEF OrderInv, Older
    <3> QED BY <3>4, <3>5, <3>7
  <2> QED BY <2>6, <2>7
<1>13. ASSUME NEW taken \in BOOLEAN, NEW giveUp \in BOOLEAN,
              SendNacked(taken, giveUp)
       PROVE  FALSE
  BY <1>13 DEF SendNacked, DoneInv
<1>14. CASE UNCHANGED vars
  <2>1. UNCHANGED <<history, pacer, rtp, encoder, process, nack, handed>>
    BY <1>14 DEF vars
  <2>2. /\ Horizon' = Horizon /\ Popped' = Popped
        /\ (process.pc = "sent" => Done(process.packet.seq))'
    BY <2>1 DEF Horizon, Popped, Done, DoneInv
  <2> QED BY <2>1, <2>2, QuietStep DEF DoneInv
<1>15. CASE OutsideStep
  BY <1>2, <1>15
<1> QED BY <1>1, <1>3, <1>4, <1>5, <1>6, <1>7, <1>8, <1>9, <1>10, <1>11,
           <1>12, <1>13, <1>14, <1>15 DEF Next, PacerStep, OutsideStep

\* They hold initially.
LEMMA InitSettings ==
    ASSUME Init
    PROVE  KnownInv /\ DoneInv /\ OrderInv
<1>1. /\ encoder.pc = "idle" /\ pacer.packet_list = <<>> /\ pacer.dupe_set = {}
      /\ pacer.prio_queue = {} /\ nack.pc = "idle" /\ nack.list = <<>> /\ handed = {}
      /\ process.pc = "idle" /\ rtp.sending_media /\ history = Allocated(NumberToStore)
  BY IdleType DEF Init, InitialPacer
<1>2. ToSet(<<>>) = {}
  BY DEF ToSet
<1>3. StoredSeqs(history) = {}
  <2>1. history.slot = [i \in Slots(NumberToStore) |-> EmptySlot]
    BY <1>1 DEF Allocated
  <2>2. ~EmptySlot.stored
    BY DEF EmptySlot
  <2> QED BY <2>1, <2>2 DEF StoredSeqs
<1>4. KnownInv /\ DoneInv
  BY <1>1, <1>2, <1>3 DEF KnownInv, DoneInv, Done
<1>5. OrderInv
  BY <1>1 DEF OrderInv, Ordered, Popped
<1> QED BY <1>4, <1>5

\* While nobody changes the settings, a paced packet that reaches the transport
\* for the first time is older than every new packet in the pacer's queue, even
\* when the transport refuses packets, packets are resent, the ring of the history
\* overflows and padding takes numbers of the stream.
THEOREM PacedInOrder ==
    Spec /\ [](rtp.pos <= HistorySeqMod) => SentInOrder
<1>1. Init => SettingsInv
  BY InitSettings DEF SettingsInv
<1>2. IInv /\ NumberInv /\ SettingsInv /\ (rtp.pos <= HistorySeqMod)' /\ [Next]_vars
         => SettingsInv'
  <2> SUFFICES ASSUME IInv, NumberInv, SettingsInv, rtp'.pos <= HistorySeqMod,
                      [Next]_vars, Undisturbed'
               PROVE  (KnownInv /\ DoneInv /\ OrderInv)'
    BY DEF SettingsInv
  <2>1. Undisturbed /\ (OutsideStep => ResendIntervalPasses)
    BY UndisturbedBefore
  <2>2. KnownInv /\ DoneInv /\ OrderInv
    BY <2>1 DEF SettingsInv
  <2> QED BY <2>1, <2>2, SettingsStep
<1>3. IInv /\ SettingsInv /\ [Next]_vars =>
         [Undisturbed =>
             \A s \in handed' \ handed :
                \/ process.pc = "pad"
                \/ \A q \in pacer.prio_queue :
                      q.retransmission \/ PosOf(s) < PosOf(q.seq)]_vars
  <2> SUFFICES ASSUME IInv, SettingsInv, [Next]_vars, Undisturbed,
                      NEW s \in handed' \ handed, process.pc # "pad",
                      NEW q \in pacer.prio_queue, ~q.retransmission
               PROVE  PosOf(s) < PosOf(q.seq)
    BY DEF IInv, TypeOK, IsPacer
  <2>1. DoneInv /\ OrderInv
    BY DEF SettingsInv
  <2>2. \E taken \in BOOLEAN : SendPacedPacket(taken)
    <3>1. ~PacerStep /\ ~OutsideStep
      BY PacerStepFacts, OutsideStepFacts
    <3>2. ~(UNCHANGED vars)
      BY DEF vars
    <3> QED BY <2>1, <3>1, <3>2
        DEF Next, PacerStep, OutsideStep, EncodedFrame, PutPacket, PacePacket,
            SendPacket, TimeToSendPacket, TimeToSendPadding, OnReceivedNACK,
            FetchNacked, PaceNacked, SendNacked, DoneInv
  <2>3. process.pc = "send" /\ s = process.packet.seq
    BY <2>2 DEF SendPacedPacket, SendPacketToNetwork
  <2>4. ~process.packet.retransmission
    BY <2>1, <2>3 DEF DoneInv
  <2>5. process.packet \in Popped
    BY <2>3 DEF Popped
  <2> QED BY <2>1, <2>3, <2>4, <2>5 DEF OrderInv, Older
<1> QED BY <1>1, <1>2, <1>3, Invariance, NumberInvariance, PTL
        DEF Spec, SentInOrder, Undisturbed
=============================================================================
