------------------------------ MODULE SendPath ------------------------------
(***************************************************************************)
(* The sending side of a video stream: RTPSender between the encoder, the  *)
(* packet history, the pacer and the transport, with PayloadRouter's lock. *)
(*                                                                         *)
(* Threads: the encoder thread (RoutePayload ... SendToNetwork), the       *)
(* process thread (PacedSender::Process and its callbacks), the network    *)
(* thread (OnReceivedNACK) and the application, which changes the settings.*)
(* The receiver is the set of packets that arrived.  RTX is off.           *)
(***************************************************************************)
EXTENDS PacketHistory, Pacer

CONSTANTS FirstSeq,        \* sequence_number_ at the start
          FrameSizes,      \* the packets of each frame the encoder delivers
          FecPackets,      \* positions of the packets that are not resent
          MaxPadding,      \* bound on the padding packets
          MaxChanges,      \* bound on the calls of the application
          MaxNacks         \* bound on the NACK messages

VARIABLES history, pacer,
          router,          \* holder of PayloadRouter::crit_
          rtp,             \* RTPSender: next position, sending_media_, marker
          encoder, process, nack,      \* the threads
          handed,          \* packets the transport has taken
          excused          \* packets that left the history before their time

vars == <<history, pacer, router, rtp, encoder, process, nack, handed, excused>>

ASSUME SendPathAssumption ==
    /\ FirstSeq \in HistorySeq
    /\ FrameSizes \in Seq(Nat \ {0})
    /\ FecPackets \subseteq Nat
    /\ MaxPadding \in Nat /\ MaxChanges \in Nat /\ MaxNacks \in Nat

\* Positions in the stream; the sequence number of a position wraps.
SeqAt(pos) == (FirstSeq + pos) % HistorySeqMod
PosOf(seq) == (seq - FirstSeq) % HistorySeqMod
StorageOf(pos) ==
    IF pos \in FecPackets THEN "kDontRetransmit" ELSE "kAllowRetransmission"

NoPacket == [seq |-> 0, retransmission |-> FALSE, time |-> 0]

Idle == [pc |-> "idle", packet |-> NoPacket]

Init ==
    /\ history = Allocated(NumberToStore)
    /\ \E enabled \in BOOLEAN : pacer = InitialPacer(enabled)
    /\ router = "none"
    /\ rtp = [pos |-> 0, sending_media |-> TRUE, marker |-> FALSE, padded |-> 0,
              changes |-> 0]
    /\ encoder = [pc |-> "idle", frame |-> 1, left |-> 0, pos |-> 0]
    /\ process = Idle
    /\ nack = [pc |-> "idle", list |-> <<>>, time |-> 0, count |-> 0]
    /\ handed = {}
    /\ excused = {}

-----------------------------------------------------------------------------
\* transport_->SendPacket, which may refuse the packet.
SendPacketToNetwork(seq, taken) ==
    handed' = IF taken THEN handed \cup {seq} ELSE handed

StoredSeqs(h) ==
    {h.slot[i].seq : i \in {j \in DOMAIN h.slot : h.slot[j].stored}}

-----------------------------------------------------------------------------
\* PayloadRouter::RoutePayload and RTPSender::SendOutgoingData, which hold
\* crit_ until the last packet of the frame is dealt with.
EncodedFrame ==
    /\ encoder.pc = "idle"
    /\ encoder.frame <= Len(FrameSizes)
    /\ router = "none"
    /\ IF rtp.sending_media
       THEN /\ router' = "encoder"
            /\ encoder' = [encoder EXCEPT !.pc = "put",
                                          !.left = FrameSizes[encoder.frame]]
       ELSE /\ router' = router
            /\ encoder' = [encoder EXCEPT !.frame = @ + 1]
    /\ UNCHANGED <<history, pacer, rtp, process, nack, handed, excused>>

\* BuildRTPheader takes the number, PutRTPPacket stores the packet.
PutPacket ==
    /\ encoder.pc = "put"
    /\ history' = PutRTPPacket(history, SeqAt(rtp.pos), encoder.frame,
                             StorageOf(rtp.pos))
    /\ excused' = excused \cup Overwritten(history)
    /\ rtp' = [rtp EXCEPT !.pos = @ + 1, !.marker = (encoder.left = 1)]
    /\ encoder' = [encoder EXCEPT !.pc = "pace", !.pos = rtp.pos]
    /\ UNCHANGED <<pacer, router, process, nack, handed>>

\* The packet is dealt with, refused or not: RTPSenderVideo::Send goes on with
\* the frame, and crit_ is released after its last packet.
PacketDone ==
    IF encoder.left > 1
    THEN /\ encoder' = [encoder EXCEPT !.pc = "put", !.left = @ - 1]
         /\ router' = router
    ELSE /\ encoder' = [encoder EXCEPT !.pc = "idle", !.left = 0,
                                       !.frame = @ + 1]
         /\ router' = "none"

\* paced_sender_->SendPacket of a new packet.
PacePacket ==
    /\ encoder.pc = "pace"
    /\ IF pacer.enabled
       THEN /\ pacer' = Enqueue(pacer, [seq |-> SeqAt(encoder.pos),
                                        retransmission |-> FALSE,
                                        time |-> encoder.frame])
            /\ PacketDone
       ELSE /\ encoder' = [encoder EXCEPT !.pc = "send"]
            /\ UNCHANGED <<pacer, router>>
    /\ UNCHANGED <<history, rtp, process, nack, handed, excused>>

\* Without pacing: SendPacketToNetwork, after which SetSent marks the packet
\* whether it was taken or not.
SendPacket(taken) ==
    /\ encoder.pc = "send"
    /\ SendPacketToNetwork(SeqAt(encoder.pos), taken)
    /\ history' = SetSent(history, SeqAt(encoder.pos))
    /\ PacketDone
    /\ UNCHANGED <<pacer, rtp, process, nack, excused>>

-----------------------------------------------------------------------------
\* The part of Process that runs with critsect_ held, from the test of the
\* queue to the next Leave or to the end.
ProcessLoop(p) ==
    \/ /\ p.prio_queue # {} /\ ~MaySendMedia(p)
       /\ pacer' = p /\ process' = Idle
    \/ /\ p.prio_queue # {} /\ MaySendMedia(p)
       /\ \E q \in p.prio_queue :
             /\ IsTop(p, q)
             /\ pacer' = BeginPop(p, q)
             /\ process' = [pc |-> "callback", packet |-> q]
    \/ /\ PaddingNeeded(p)
       /\ pacer' = p /\ process' = [pc |-> "pad", packet |-> NoPacket]
    \/ /\ p.prio_queue = {} /\ ~PaddingNeeded(p)
       /\ pacer' = p /\ process' = Idle

\* PacedSender::Process, after some time (elapsed) or at once.
Process(elapsed) ==
    /\ process.pc = "idle"
    /\ pacer.enabled /\ ~pacer.paused
    /\ ProcessLoop(IF elapsed THEN UpdateBytesPerInterval(pacer) ELSE pacer)
    /\ UNCHANGED <<history, router, rtp, encoder, nack, handed, excused>>

\* PacedSender::TimeUntilNextProcess while probing.
TimeUntilNextProcess(tooLate) ==
    /\ process.pc = "idle"
    /\ IsProbing(pacer)
    /\ pacer' = TimeUntilNextProbe(pacer, tooLate)
    /\ UNCHANGED <<history, router, rtp, encoder, process, nack, handed, excused>>

\* TimeToSendPacket through PayloadRouter, which holds crit_ meanwhile.  A
\* packet that is not found, or that no module wants, counts as sent.
TimeToSendPacket ==
    LET q == process.packet
        found == CanGetPacket(history, q.seq, FALSE, q.retransmission)
    IN  /\ process.pc = "callback"
        /\ router = "none"
        /\ IF rtp.sending_media /\ found
           THEN /\ router' = "process"
                /\ history' = SetSendTime(history, q.seq)
                /\ process' = [process EXCEPT !.pc = "send"]
                /\ excused' = excused
           ELSE /\ process' = [process EXCEPT !.pc = "sent"]
                /\ UNCHANGED <<router, history>>
                /\ excused' = IF rtp.sending_media THEN excused
                              ELSE excused \cup {q.seq}
        /\ UNCHANGED <<pacer, rtp, encoder, nack, handed>>

\* PrepareAndSendPacket on behalf of the pacer.
SendPacedPacket(taken) ==
    /\ process.pc = "send"
    /\ router' = "none"
    /\ SendPacketToNetwork(process.packet.seq, taken)
    /\ process' = [process EXCEPT !.pc = IF taken THEN "sent" ELSE "refused"]
    /\ UNCHANGED <<history, pacer, rtp, encoder, nack, excused>>

\* Back under critsect_ after a successful callback: one packet per call
\* while probing, else round the loop.
PacedPacketSent ==
    /\ process.pc = "sent"
    /\ LET p == PacketSent(pacer, process.packet)
       IN  IF IsProbing(p)
           THEN pacer' = p /\ process' = Idle
           ELSE ProcessLoop(p)
    /\ UNCHANGED <<history, router, rtp, encoder, nack, handed, excused>>

\* Back under critsect_ after a failed one: the packet is put back.
PacedPacketRefused ==
    /\ process.pc = "refused"
    /\ pacer' = CancelPop(pacer, process.packet)
    /\ process' = Idle
    /\ UNCHANGED <<history, router, rtp, encoder, nack, handed, excused>>

\* TimeToSendPadding: without RTX a padding packet takes the next number of
\* the stream, and only after the last packet of a frame.
TimeToSendPadding(sent, taken) ==
    /\ process.pc = "pad"
    /\ router = "none"
    /\ sent <=> rtp.sending_media /\ rtp.marker /\ rtp.padded < MaxPadding
    /\ taken => sent
    /\ IF sent THEN rtp' = [rtp EXCEPT !.pos = @ + 1, !.padded = @ + 1]
               ELSE rtp' = rtp
    /\ SendPacketToNetwork(SeqAt(rtp.pos), taken)
    /\ process' = [Idle EXCEPT !.pc = IF taken THEN "padded" ELSE "idle"]
    /\ UNCHANGED <<history, pacer, router, encoder, nack, excused>>

\* Back under critsect_ in SendPadding.
PaddingSent ==
    /\ process.pc = "padded"
    /\ pacer' = UseBudgets(pacer, 1)
    /\ process' = Idle
    /\ UNCHANGED <<history, router, rtp, encoder, nack, handed, excused>>

-----------------------------------------------------------------------------
\* The receiver may report anything older than the newest packet that was
\* sent: the network may lose, delay and reorder.
NackLists ==
    LET below == {s \in {SeqAt(pos) : pos \in 0 .. rtp.pos - 1} :
                    \E r \in handed : PosOf(s) < PosOf(r)}
    IN  {<<s>> : s \in below} \cup
        {<<s, t>> : s, t \in below}

\* OnReceivedNACK.
OnReceivedNACK(list) ==
    /\ nack.pc = "idle" /\ nack.count < MaxNacks
    /\ \A i, j \in DOMAIN list : i < j => PosOf(list[i]) < PosOf(list[j])
    /\ nack' = [nack EXCEPT !.pc = "fetch", !.list = list, !.count = @ + 1]
    /\ UNCHANGED <<history, pacer, router, rtp, encoder, process, handed, excused>>

\* Go on with the rest of the list; the bandwidth limits may end it early.
NackedPacketDone(list) ==
    nack' = [nack EXCEPT !.pc = IF list = <<>> THEN "idle" ELSE "fetch",
                         !.list = list, !.time = 0]

\* ReSendPacket: GetPacketAndSetSendTime with the resend interval.
FetchNacked ==
    /\ nack.pc = "fetch"
    /\ IF CanGetPacket(history, Head(nack.list), TRUE, TRUE)
       THEN /\ history' = SetSendTime(history, Head(nack.list))
            /\ nack' = [nack EXCEPT !.pc = "pace",
                     !.time = history.slot[FindSeqNum(history, Head(nack.list))].time]
       ELSE /\ NackedPacketDone(Tail(nack.list))
            /\ history' = history
    /\ UNCHANGED <<pacer, router, rtp, encoder, process, handed, excused>>

\* ReSendPacket: the pacer takes it, or it is sent at once.
PaceNacked(giveUp) ==
    /\ nack.pc = "pace"
    /\ IF pacer.enabled
       THEN /\ pacer' = Enqueue(pacer, [seq |-> Head(nack.list),
                                        retransmission |-> TRUE,
                                        time |-> nack.time])
            /\ NackedPacketDone(IF giveUp THEN <<>> ELSE Tail(nack.list))
       ELSE /\ nack' = [nack EXCEPT !.pc = "send"]
            /\ pacer' = pacer
    /\ UNCHANGED <<history, router, rtp, encoder, process, handed, excused>>

\* PrepareAndSendPacket on behalf of ReSendPacket; a refusal ends the list.
SendNacked(taken, giveUp) ==
    /\ nack.pc = "send"
    /\ SendPacketToNetwork(Head(nack.list), taken)
    /\ NackedPacketDone(IF taken /\ ~giveUp THEN Tail(nack.list) ELSE <<>>)
    /\ UNCHANGED <<history, pacer, router, rtp, encoder, process, excused>>

-----------------------------------------------------------------------------
Changing ==
    /\ rtp.changes < MaxChanges
    /\ UNCHANGED <<router, encoder, process, nack, handed>>

\* Pause, Resume and SetStatus of the pacer.
SetPaused(b) ==
    /\ Changing
    /\ pacer.paused # b
    /\ pacer' = [pacer EXCEPT !.paused = b]
    /\ rtp' = [rtp EXCEPT !.changes = @ + 1]
    /\ UNCHANGED <<history, excused>>
SetStatus(b) ==
    /\ Changing
    /\ pacer.enabled # b
    /\ pacer' = [pacer EXCEPT !.enabled = b]
    /\ rtp' = [rtp EXCEPT !.changes = @ + 1]
    /\ UNCHANGED <<history, excused>>

\* SetSendingMediaStatus.
SetSendingMedia(b) ==
    /\ Changing
    /\ rtp.sending_media # b
    /\ rtp' = [rtp EXCEPT !.sending_media = b, !.changes = @ + 1]
    /\ UNCHANGED <<history, pacer, excused>>

\* SetStorePacketsStatus purges the history (SetSenderBufferingMode and
\* SetNACKStatus of a channel that is sending).
SetStorePacketsStatus ==
    /\ Changing
    /\ history' = Allocated(NumberToStore)
    /\ excused' = excused \cup StoredSeqs(history)
    /\ rtp' = [rtp EXCEPT !.changes = @ + 1]
    /\ UNCHANGED pacer

\* The minimum resend interval passes.
ResendIntervalPasses ==
    /\ AgeSendTimes(history) # history
    /\ history' = AgeSendTimes(history)
    /\ UNCHANGED <<pacer, router, rtp, encoder, process, nack, handed, excused>>

Next ==
    \/ EncodedFrame
    \/ PutPacket
    \/ PacePacket
    \/ \E taken \in BOOLEAN : SendPacket(taken)
    \/ \E elapsed \in BOOLEAN : Process(elapsed)
    \/ \E tooLate \in BOOLEAN : TimeUntilNextProcess(tooLate)
    \/ TimeToSendPacket
    \/ \E taken \in BOOLEAN : SendPacedPacket(taken)
    \/ PacedPacketSent
    \/ PacedPacketRefused
    \/ \E sent, taken \in BOOLEAN : TimeToSendPadding(sent, taken)
    \/ PaddingSent
    \/ \E list \in NackLists : OnReceivedNACK(list)
    \/ FetchNacked
    \/ \E giveUp \in BOOLEAN : PaceNacked(giveUp)
    \/ \E taken, giveUp \in BOOLEAN : SendNacked(taken, giveUp)
    \/ \E b \in BOOLEAN : SetPaused(b)
    \/ \E b \in BOOLEAN : SetStatus(b)
    \/ \E b \in BOOLEAN : SetSendingMedia(b)
    \/ SetStorePacketsStatus
    \/ ResendIntervalPasses

Spec == Init /\ [][Next]_vars

\* Every thread goes on, time passes, and the transport does not refuse the
\* same packet for ever.
Fairness ==
    /\ WF_vars(EncodedFrame \/ PutPacket \/ PacePacket)
    /\ WF_vars(\E taken \in BOOLEAN : SendPacket(taken))
    /\ WF_vars(Process(TRUE))
    /\ WF_vars(TimeUntilNextProcess(FALSE))
    /\ WF_vars(TimeToSendPacket)
    /\ SF_vars(SendPacedPacket(TRUE))
    /\ WF_vars(PacedPacketSent \/ PacedPacketRefused \/ PaddingSent)
    /\ WF_vars(\E taken \in BOOLEAN : SendPacedPacket(taken))
    /\ WF_vars(\E sent, taken \in BOOLEAN : TimeToSendPadding(sent, taken))

FairSpec == Spec /\ Fairness

-----------------------------------------------------------------------------
\* Types.  In particular the index of the ring stays inside it while it grows,
\* and the budgets within their limits.
TypeOK ==
    /\ IsHistory(history)
    /\ IsPacer(pacer)
    /\ router \in {"none", "encoder", "process"}
    /\ rtp \in [pos: Nat, sending_media: BOOLEAN, marker: BOOLEAN, padded: Nat,
                changes: Nat]
    /\ encoder \in [pc: {"idle", "put", "pace", "send"}, frame: Nat \ {0}, left: Nat,
                    pos: Nat]
    /\ process \in [pc: {"idle", "callback", "send", "sent", "refused", "pad",
                         "padded"}, packet: PacedPacket]
    /\ nack \in [pc: {"idle", "fetch", "pace", "send"}, list: Seq(HistorySeq),
                 time: Nat, count: Nat]
    /\ nack.pc # "idle" => nack.list # <<>>
    /\ handed \subseteq Nat
    /\ excused \subseteq Nat

\* The pacer's three views of its queue agree at every point where the lock
\* is free, also while a packet has been popped for the callback.
QueueAgrees ==
    LET popped == IF process.pc \in {"callback", "send", "sent", "refused"}
                  THEN {process.packet} ELSE {}
    IN  /\ popped \cap pacer.prio_queue = {}
        /\ ToSet(pacer.packet_list) = pacer.prio_queue \cup popped
        /\ pacer.dupe_set = {q.seq : q \in ToSet(pacer.packet_list)}
        /\ Len(pacer.packet_list) = Cardinality(pacer.dupe_set)

\* Every stored packet can be found, whatever the order of the slots after
\* the ring grew and although empty slots look like packet 0.
StoredIsFound ==
    \A i \in DOMAIN history.slot :
        history.slot[i].stored => HasRTPPacket(history, history.slot[i].seq)

\* The pacer never reports a packet as sent that the transport has not taken
\* (TimeToSendPacket returns true when the history does not have the packet),
\* unless no module wanted it or the history really dropped it while it was
\* waiting: purged, overwritten in a ring of kMaxHistoryCapacity, or overwritten
\* after GetPacketAndSetSendTime had marked it too early.  A packet that was
\* refused, or NACKed while it waited, is not lost as long as it is stored.
NoSilentLoss ==
    process.pc = "sent" =>
        process.packet.seq \in handed \cup excused

\* With undisturbed settings the pacer sends new packets in the order of their
\* numbers: none that is older waits in the queue.
SentInOrder ==
    [][rtp.changes = 0 /\ pacer.enabled =>
         \A s \in handed' \ handed :
            \/ process.pc = "pad"
            \/ \A q \in pacer.prio_queue :
                  q.retransmission \/ PosOf(s) < PosOf(q.seq)]_vars

\* With the pacer enabled and running for good, its queue becomes empty.
QueueDrains ==
    <>[](pacer.enabled /\ ~pacer.paused) => []<>(pacer.packet_list = <<>>)
=============================================================================
