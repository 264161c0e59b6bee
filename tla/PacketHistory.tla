---------------------------- MODULE PacketHistory ----------------------------
(***************************************************************************)
(* RTPPacketHistory: the ring of packets kept for the pacer and for        *)
(* retransmission.  Every public method runs under critsect_, so each is   *)
(* an operator on the state of the history.  store_ is left out: with a    *)
(* pacer, ViEChannel turns storing on in Init and never off.               *)
(*                                                                         *)
(* Packet bytes are left out.  stored_send_times_ is abstracted to what    *)
(* the code tells apart: 0 (not sent), less than the minimum resend        *)
(* interval ago, and longer ago.                                           *)
(***************************************************************************)
EXTENDS Integers, FiniteSetsExt

CONSTANTS HistorySeqMod,       \* 2^16 in the code
          NumberToStore,       \* number_to_store of SetStorePacketsStatus
          kMaxHistoryCapacity

ASSUME HistoryAssumption ==
    /\ HistorySeqMod \in Nat /\ HistorySeqMod > 1
    /\ NumberToStore \in Nat /\ NumberToStore > 0
    /\ kMaxHistoryCapacity \in Nat
    /\ NumberToStore <= kMaxHistoryCapacity

HistorySeq == 0 .. HistorySeqMod - 1
StorageType == {"kAllowRetransmission", "kDontRetransmit"}
SendTime == {"unsent", "recent", "old"}

Slot == [seq: HistorySeq, stored: BOOLEAN, sent: SendTime, type: StorageType,
         time: Nat]

\* vector::resize fills with zeros: sequence number 0, length 0, time 0.
EmptySlot == [seq |-> 0, stored |-> FALSE, sent |-> "unsent",
              type |-> "kDontRetransmit", time |-> 0]

Slots(n) == 0 .. n - 1

IsHistory(h) ==
    /\ h = [size |-> h.size, prev_index |-> h.prev_index, slot |-> h.slot]
    /\ h.size \in 1 .. kMaxHistoryCapacity
    /\ h.prev_index \in Slots(h.size)
    /\ h.slot \in [Slots(h.size) -> Slot]

\* SetStorePacketsStatus(true, n): Free and Allocate.
Allocated(n) == [size |-> n, prev_index |-> 0,
                 slot |-> [i \in Slots(n) |-> EmptySlot]]

-----------------------------------------------------------------------------
\* The newest entry, then the place where the number would be if the entries
\* were consecutive.  The difference is taken without wrapping.
FirstGuess(h, s) ==
    LET newest == IF h.prev_index > 0 THEN h.prev_index - 1 ELSE h.size - 1
        idx == (h.prev_index - 1) - (h.slot[newest].seq - s)
    IN  IF idx \in Slots(h.size) THEN idx ELSE newest

\* Mutant: no search when the guess is wrong.
FindAtGuess(h, s) ==
    IF h.slot[FirstGuess(h, s)].seq = s THEN FirstGuess(h, s) ELSE -1

\* FindSeqNum: the guess or else the first match; -1 when there is none.
FindSeqNum(h, s) ==
    LET match == {i \in Slots(h.size) : h.slot[i].seq = s}
    IN  IF match = {} THEN -1
        ELSE IF FirstGuess(h, s) \in match THEN FirstGuess(h, s)
        ELSE Min(match)

\* HasRTPPacket.
HasRTPPacket(h, s) ==
    /\ FindSeqNum(h, s) # -1
    /\ h.slot[FindSeqNum(h, s)].stored

MaxOf(a, b) == IF a > b THEN a ELSE b
MinOf(a, b) == IF a < b THEN a ELSE b

\* The slot about to be overwritten holds a packet that was not sent.
HoldsUnsent(h) ==
    h.slot[h.prev_index].stored /\ h.slot[h.prev_index].sent = "unsent"

ExpandedSize(n) == MinOf(MaxOf((n * 3) \div 2, n + 1), kMaxHistoryCapacity)

\* The packet that the next PutRTPPacket drops: one that is marked as sent, or
\* any when there is no room to grow.
Overwritten(h) ==
    LET old == h.slot[h.prev_index]
    IN  IF old.stored /\ (old.sent # "unsent" \/ h.size = kMaxHistoryCapacity)
        THEN {old.seq} ELSE {}

Expanded(h) ==
    [h EXCEPT !.size = ExpandedSize(h.size),
              !.prev_index = h.size,
              !.slot = [i \in Slots(ExpandedSize(h.size)) |->
                            IF i < h.size THEN h.slot[i] ELSE EmptySlot]]

StoreAtIndex(h, s, time, type) ==
    [h EXCEPT !.slot[h.prev_index] =
                  [seq |-> s, stored |-> TRUE, sent |-> "unsent", type |-> type,
                   time |-> time],
              !.prev_index = IF @ + 1 >= h.size THEN 0 ELSE @ + 1]

\* Mutant: the history does not grow.
PutWithoutGrowth(h, s, time, type) == StoreAtIndex(h, s, time, type)

\* PutRTPPacket of a packet that fits.
PutRTPPacket(h, s, time, type) ==
    IF HoldsUnsent(h) /\ h.size < kMaxHistoryCapacity
    THEN StoreAtIndex(Expanded(h), s, time, type)
    ELSE StoreAtIndex(h, s, time, type)

\* SetSent: only a time that is still 0 is set.
SetSent(h, s) ==
    IF FindSeqNum(h, s) # -1 /\ h.slot[FindSeqNum(h, s)].sent = "unsent"
    THEN [h EXCEPT !.slot[FindSeqNum(h, s)].sent = "recent"]
    ELSE h

\* GetPacketAndSetSendTime: whether it copies the packet ...
CanGetPacket(h, s, minElapsed, retransmit) ==
    /\ HasRTPPacket(h, s)
    /\ minElapsed => h.slot[FindSeqNum(h, s)].sent # "recent"
    /\ retransmit => h.slot[FindSeqNum(h, s)].type # "kDontRetransmit"

\* ... and the send time it sets when it does.
SetSendTime(h, s) == [h EXCEPT !.slot[FindSeqNum(h, s)].sent = "recent"]

\* The minimum resend interval goes by.
AgeSendTimes(h) ==
    [h EXCEPT !.slot = [i \in DOMAIN h.slot |->
        IF h.slot[i].sent = "recent" THEN [h.slot[i] EXCEPT !.sent = "old"]
        ELSE h.slot[i]]]
=============================================================================
