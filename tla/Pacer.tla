-------------------------------- MODULE Pacer --------------------------------
(***************************************************************************)
(* PacedSender with its PacketQueue, IntervalBudgets and BitrateProber.    *)
(* All of it is guarded by critsect_; the operators below are the sections *)
(* between an Enter and the next Leave.  The callbacks, which are called   *)
(* outside the lock, are steps of the module SendPath.                     *)
(*                                                                         *)
(* One packet is one unit of budget, and one call of Process after some    *)
(* time has passed brings the configured number of units.                  *)
(***************************************************************************)
EXTENDS Integers, SequencesExt

CONSTANTS MediaRate,       \* units that one interval adds to media_budget_
          PaddingRate,     \* units that one interval adds to padding_budget_
          MaxDebt,         \* 500 ms worth of units, the floor of a budget
          ProbePackets     \* packets of one probe, 11 in the code

ASSUME PacerAssumption ==
    /\ MediaRate \in Nat /\ MediaRate > 0
    /\ PaddingRate \in Nat
    /\ MaxDebt \in Nat
    /\ ProbePackets \in Nat /\ ProbePackets > 0

ProbingState == {"kDisabled", "kAllowedToProbe", "kProbing", "kWait"}

\* Packet: enqueue_order is the place in packet_list_.
PacedPacket == [seq: Nat, retransmission: BOOLEAN, time: Nat]

IsPacer(p) ==
    p \in [enabled: BOOLEAN, paused: BOOLEAN, packet_list: Seq(PacedPacket),
           prio_queue: SUBSET PacedPacket, dupe_set: SUBSET Nat,
           media: -MaxDebt .. MediaRate, padding: -MaxDebt .. PaddingRate,
           probing_state: ProbingState, probes: 0 .. ProbePackets,
           has_sent: BOOLEAN]

InitialPacer(enabled) ==
    [enabled |-> enabled, paused |-> FALSE, packet_list |-> <<>>, prio_queue |-> {},
     dupe_set |-> {}, media |-> MediaRate, padding |-> PaddingRate,
     probing_state |-> "kDisabled", probes |-> 0, has_sent |-> FALSE]

-----------------------------------------------------------------------------
(***************************************************************************)
(* PacketQueue.  Retransmissions are pushed with kHighPriority and the     *)
(* packets of the encoder with kNormalPriority, so that priority and the   *)
(* retransmission flag order packets in the same way.                      *)
(***************************************************************************)
\* Mutant: newer frames first.
NewestFirst(p, a, b) ==
    \/ a.retransmission /\ ~b.retransmission
    \/ /\ a.retransmission = b.retransmission
       /\ \E i, j \in DOMAIN p.packet_list :
             i > j /\ p.packet_list[i] = a /\ p.packet_list[j] = b

Before(p, a, b) ==
    \/ a.retransmission /\ ~b.retransmission
    \/ /\ a.retransmission = b.retransmission
       /\ \/ a.time < b.time
          \/ /\ a.time = b.time
             /\ \E i, j \in DOMAIN p.packet_list :
                   i < j /\ p.packet_list[i] = a /\ p.packet_list[j] = b

IsTop(p, q) ==
    q \in p.prio_queue /\ \A r \in p.prio_queue \ {q} : Before(p, q, r)

\* Push drops a packet whose number is already in the queue.
Push(p, q) ==
    IF q.seq \in p.dupe_set THEN p
    ELSE [p EXCEPT !.packet_list = Append(@, q),
                   !.prio_queue = @ \cup {q},
                   !.dupe_set = @ \cup {q.seq}]

BeginPop(p, q) == [p EXCEPT !.prio_queue = @ \ {q}]
CancelPop(p, q) == [p EXCEPT !.prio_queue = @ \cup {q}]

\* Mutant: the number stays in dupe_map_.
FinalizeWithoutDupeMap(p, q) == [p EXCEPT !.packet_list = RemoveFirst(@, q)]

FinalizePop(p, q) ==
    [p EXCEPT !.dupe_set = @ \ {q.seq}, !.packet_list = RemoveFirst(@, q)]

-----------------------------------------------------------------------------
\* Mutant: an overused budget is not refilled.
IncreaseUnlessOverused(remaining, units) ==
    IF remaining < 0 THEN remaining ELSE units

\* IntervalBudget: an overuse is carried over, an underuse is not.
Increase(remaining, units) ==
    IF remaining < 0 THEN remaining + units ELSE units
Use(remaining, units) ==
    IF remaining - units > -MaxDebt THEN remaining - units ELSE -MaxDebt

UpdateBytesPerInterval(p) ==
    [p EXCEPT !.media = Increase(@, MediaRate),
              !.padding = Increase(@, PaddingRate)]
UseBudgets(p, units) ==
    [p EXCEPT !.media = Use(@, units), !.padding = Use(@, units)]

-----------------------------------------------------------------------------
IsProbing(p) == p.probing_state = "kProbing"

\* SetEnabled(true) and MaybeInitializeProbe: the first packet starts a probe.
MaybeInitializeProbe(p) ==
    IF p.probing_state \in {"kDisabled", "kAllowedToProbe"}
    THEN [p EXCEPT !.probing_state = "kProbing", !.probes = ProbePackets]
    ELSE p

\* TimeUntilNextProbe: the probe is over when its packets are sent, or when
\* tooLate says that the next one would be too late or too early.
TimeUntilNextProbe(p, tooLate) ==
    IF \/ p.probing_state # "kDisabled" /\ p.probes = 0
       \/ IsProbing(p) /\ p.has_sent /\ tooLate
    THEN [p EXCEPT !.probing_state = "kWait"]
    ELSE p

\* BitrateProber::PacketSent.
ProbePacketSent(p) ==
    [p EXCEPT !.has_sent = TRUE,
              !.probes = IF IsProbing(p) /\ @ > 0 THEN @ - 1 ELSE @]

-----------------------------------------------------------------------------
\* SendPacket of an enabled pacer; a disabled one tells the caller to send.
Enqueue(p, q) == Push(MaybeInitializeProbe(p), q)

\* The sections of Process: the loop sends while there is budget or a probe,
\* one packet per call while probing, and then looks at padding.
MaySendMedia(p) == p.media > 0 \/ IsProbing(p)

PacketSent(p, q) == FinalizePop(UseBudgets(ProbePacketSent(p), 1), q)

PaddingNeeded(p) == p.prio_queue = {} /\ p.padding > 0
=============================================================================
