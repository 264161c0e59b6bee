--------------------------- MODULE VideoReceiver ---------------------------
(***************************************************************************)
(* The video receive path of one channel: the jitter buffer and the four   *)
(* threads that share it.                                                  *)
(*                                                                         *)
(*   network   ViEReceiver::InsertRTPPacket -> VideoReceiver::             *)
(*             IncomingPacket -> VCMJitterBuffer::InsertPacket; when that  *)
(*             answers kFlushIndicator, RequestKeyFrame and ResetDecoder   *)
(*   decode    ViEChannel::ChannelDecodeProcess -> VideoReceiver::Decode   *)
(*             -> VCMReceiver::FrameForDecoding, in a loop                 *)
(*   process   VideoReceiver::Process -> NackList                          *)
(*   API       ViEChannel::StopReceive and StartReceive                    *)
(*                                                                         *)
(* Each call into the jitter buffer holds its crit_sect_ and is one step;  *)
(* between two calls of one thread the others may run.                     *)
(***************************************************************************)
EXTENDS JitterBuffer

CONSTANTS Packets,       \* the packets the sender sends
          Duplicates,    \* whether the network may deliver one more than once
          MaxRestarts    \* bound on StopReceive calls

ASSUME VideoReceiverAssumption ==
    /\ Packets \subseteq Packet
    /\ Duplicates \in BOOLEAN
    /\ MaxRestarts \in Nat

VARIABLES
    wire,                \* the packets the network may still deliver
    jb,                  \* the jitter buffer
    net,                 \* where the network thread is
    dec,                 \* where the decode thread is
    decTs,               \* its frame_timestamp
    held,                \* the frame it has extracted, as a set of at most one
    decoder,             \* _decoder # NULL
    scheduleKeyRequest,  \* _scheduleKeyRequest
    api,                 \* where the API thread is
    restarts,            \* how often StopReceive has been called
    shown                \* history: the last frame the decoder was given,
                         \* since the decoder was reset

vars == <<wire, jb, net, dec, decTs, held, decoder, scheduleKeyRequest, api,
          restarts, shown>>

HeldFrame == [ts : Timestamp, frame : Frame, continuous : BOOLEAN]

\* ViEChannel::Init has run InitializeReceiver, and StartReceive has been called.
Init ==
    /\ wire = Packets
    /\ jb = Start(NewJB)
    /\ net = "idle"
    /\ dec = "idle"
    /\ decTs = 0
    /\ held = {}
    /\ decoder = FALSE
    /\ scheduleKeyRequest = FALSE
    /\ api = "receiving"
    /\ restarts = 0
    /\ shown = {}

-----------------------------------------------------------------------------
(***************************************************************************)
(* Network thread.                                                         *)
(***************************************************************************)
\* InsertRTPPacket looks at receiving_, and lets go of the lock.
AdmitPacket ==
    /\ net = "idle"
    /\ api = "receiving"
    /\ net' = "admitted"
    /\ UNCHANGED <<wire, jb, dec, decTs, held, decoder, scheduleKeyRequest, api,
                   restarts, shown>>

\* IncomingPacket, up to the result of InsertPacket.
IncomingPacket(p) ==
    /\ net = "admitted"
    /\ p \in wire
    /\ wire' = IF Duplicates THEN wire ELSE wire \ {p}
    /\ LET r == InsertPacket(jb, p)
       IN  /\ jb' = r.jb
           /\ net' = CASE r.ret = "kFlushIndicator" -> "reset"
                       [] r.ret = "assert" -> "aborted"
                       [] OTHER -> "idle"
    /\ UNCHANGED <<dec, decTs, held, decoder, scheduleKeyRequest, api,
                   restarts, shown>>

\* The receive-side part of ResetDecoder, which does nothing before the first
\* decode: VCMReceiver::Reset starts or flushes the jitter buffer, and the
\* decoder forgets what it has decoded.
ResetDecoder ==
    IF decoder
    THEN /\ jb' = IF jb.running THEN Flush(jb) ELSE Start(jb)
         /\ shown' = {}
    ELSE UNCHANGED <<jb, shown>>

\* kFlushIndicator: RequestKeyFrame, which clears _scheduleKeyRequest, and then
\* ResetDecoder up to the end of its receive-side critical section ...
FlushIndicated ==
    /\ net = "reset"
    /\ net' = IF decoder THEN "resetting" ELSE "idle"
    /\ scheduleKeyRequest' = FALSE
    /\ ResetDecoder
    /\ UNCHANGED <<wire, dec, decTs, held, decoder, api, restarts>>

\* ... and its end, which clears _scheduleKeyRequest once more.
ResetKeyRequest ==
    /\ net = "resetting"
    /\ net' = "idle"
    /\ scheduleKeyRequest' = FALSE
    /\ UNCHANGED <<wire, jb, dec, decTs, held, decoder, api, restarts, shown>>

-----------------------------------------------------------------------------
(***************************************************************************)
(* Decode thread: FrameForDecoding, Decode, ReleaseFrame.                  *)
(***************************************************************************)
\* A mutant of ReturnTimestamp: *timestamp is not set.
ReturnNoTimestamp(S) ==
    IF S = {} THEN dec' = "idle" /\ UNCHANGED decTs
    ELSE dec' = "timing" /\ UNCHANGED decTs

\* How NextCompleteTimestamp ends: with a timestamp of S, or with false.
ReturnTimestamp(S) ==
    IF S = {} THEN dec' = "idle" /\ UNCHANGED decTs
    ELSE \E t \in S : dec' = "timing" /\ decTs' = t

\* One round of the loop in NextCompleteTimestamp: a new call from "idle", or
\* another round, from "check", which may find that the time is up.
NextComplete ==
    /\ dec \in {"idle", "check"}
    /\ LET j == CleanUpOldOrEmptyFrames(jb)
           again == CleanUpOldOrEmptyFrames(j)
       IN  \/ /\ ~jb.running
              /\ dec' = "idle"
              /\ UNCHANGED <<jb, decTs>>
           \/ /\ jb.running
              /\ CompleteFront(j) # {}
              /\ jb' = j
              /\ ReturnTimestamp(CompleteFront(j))
           \/ /\ jb.running
              /\ CompleteFront(j) = {}
              /\ jb' = j
              /\ dec' = "wait"
              /\ UNCHANGED decTs
           \/ /\ jb.running
              /\ CompleteFront(j) = {}
              /\ dec = "check"
              /\ jb' = again
              /\ ReturnTimestamp(LastChance(again))
    /\ UNCHANGED <<wire, net, held, decoder, scheduleKeyRequest, api, restarts, shown>>

\* frame_event_->Wait returns: the event resets itself.
WaitSignaled ==
    /\ dec = "wait"
    /\ jb.event
    /\ jb' = [jb EXCEPT !.event = FALSE]
    /\ dec' = "check"
    /\ UNCHANGED <<wire, net, decTs, held, decoder, scheduleKeyRequest, api, restarts,
                   shown>>

\* A mutant of WaitTimedOut: the wait has no time-out.
NeverTimedOut == FALSE /\ UNCHANGED vars

WaitTimedOut ==
    /\ dec = "wait"
    /\ ~jb.event
    /\ dec' = "late"
    /\ UNCHANGED <<wire, jb, net, decTs, held, decoder, scheduleKeyRequest, api,
                   restarts, shown>>

\* The end of NextCompleteTimestamp after a timeout.
LastLook ==
    /\ dec = "late"
    /\ LET j == CleanUpOldOrEmptyFrames(jb)
       IN  /\ jb' = j
           /\ ReturnTimestamp(LastChance(j))
    /\ UNCHANGED <<wire, net, held, decoder, scheduleKeyRequest, api, restarts, shown>>

\* The render time is out of bounds: the jitter buffer is flushed.
TimingError ==
    /\ dec = "timing"
    /\ jb' = Flush(jb)
    /\ dec' = "idle"
    /\ UNCHANGED <<wire, net, decTs, held, decoder, scheduleKeyRequest, api, restarts,
                   shown>>

\* The frame is not due within the time the caller allows.
NotDueYet ==
    /\ dec = "timing"
    /\ dec' = "idle"
    /\ UNCHANGED <<wire, jb, net, decTs, held, decoder, scheduleKeyRequest, api,
                   restarts, shown>>

Extract ==
    /\ dec = "timing"
    /\ LET r == ExtractAndSetDecode(jb, decTs)
       IN  /\ jb' = r.jb
           /\ held' = r.frames
           /\ dec' = IF r.frames = {} THEN "idle" ELSE "decode"
    /\ UNCHANGED <<wire, net, decTs, decoder, scheduleKeyRequest, api, restarts, shown>>

\* VideoReceiver::Decode(frame) and ReleaseFrame, under _receiveCritSect.  The
\* decoder may fail; the key request mode is kKeyOnLoss.
DecodeFrame ==
    /\ dec = "decode"
    /\ \E ok \in BOOLEAN :
          scheduleKeyRequest' =
             (\/ scheduleKeyRequest
              \/ ~ok
              \/ \E h \in held : ~SessionComplete(h.frame) \/ ~h.continuous)
    /\ decoder' = TRUE
    /\ shown' = held
    /\ held' = {}
    /\ jb' = ReleaseFrame(jb)
    /\ dec' = "idle"
    /\ UNCHANGED <<wire, net, decTs, api, restarts>>

-----------------------------------------------------------------------------
(***************************************************************************)
(* Process thread.  The part of Process that would act on                  *)
(* _scheduleKeyRequest is compiled out (GXH_TEST_H264 is never defined).   *)
(***************************************************************************)
ProcessNackList ==
    /\ NackMode = "kNack"
    /\ LET r == GetNackList(jb)
       IN  /\ jb' = r.jb
           /\ scheduleKeyRequest' = (scheduleKeyRequest /\ ~r.request_key_frame)
    /\ UNCHANGED <<wire, net, dec, decTs, held, decoder, api, restarts, shown>>

-----------------------------------------------------------------------------
(***************************************************************************)
(* API thread: StopReceive, in four steps, and StartReceive, in two.       *)
(***************************************************************************)
StopReceive ==
    /\ api = "receiving"
    /\ restarts < MaxRestarts
    /\ restarts' = restarts + 1
    /\ api' = "stopping"
    /\ UNCHANGED <<wire, jb, net, dec, decTs, held, decoder, scheduleKeyRequest, shown>>

TriggerDecoderShutdown ==
    /\ api = "stopping"
    /\ api' = "joining"
    /\ jb' = Stop(jb)
    /\ UNCHANGED <<wire, net, dec, decTs, held, decoder, scheduleKeyRequest, restarts,
                   shown>>

JoinDecodeThread ==
    /\ api = "joining"
    /\ dec = "idle"
    /\ dec' = "exited"
    /\ api' = "joined"
    /\ UNCHANGED <<wire, jb, net, decTs, held, decoder, scheduleKeyRequest, restarts,
                   shown>>

ResetAfterStop ==
    /\ api = "joined"
    /\ api' = "stopped"
    /\ ResetDecoder
    /\ scheduleKeyRequest' = (scheduleKeyRequest /\ ~decoder)
    /\ UNCHANGED <<wire, net, dec, decTs, held, decoder, restarts>>

StartDecodeThread ==
    /\ api = "stopped"
    /\ api' = "starting"
    /\ dec' = "idle"
    /\ UNCHANGED <<wire, jb, net, decTs, held, decoder, scheduleKeyRequest, restarts,
                   shown>>

StartReceive ==
    /\ api = "starting"
    /\ api' = "receiving"
    /\ UNCHANGED <<wire, jb, net, dec, decTs, held, decoder, scheduleKeyRequest,
                   restarts, shown>>

-----------------------------------------------------------------------------
Network ==
    \/ AdmitPacket
    \/ \E p \in Packets : IncomingPacket(p)
    \/ FlushIndicated
    \/ ResetKeyRequest

DecodeThread ==
    \/ NextComplete \/ WaitSignaled \/ WaitTimedOut \/ LastLook
    \/ TimingError \/ NotDueYet \/ Extract \/ DecodeFrame

ApiThread ==
    \/ StopReceive \/ TriggerDecoderShutdown \/ JoinDecodeThread
    \/ ResetAfterStop \/ StartDecodeThread \/ StartReceive

Next == Network \/ DecodeThread \/ ProcessNackList \/ ApiThread

Spec == Init /\ [][Next]_vars

(***************************************************************************)
(* Every thread that is not blocked keeps running, and a wait ends at its  *)
(* time-out.  Nothing is assumed of the network or of the callers of       *)
(* StopReceive and StartReceive.  A frame that stays at the front becomes  *)
(* due some day (Extract), and the decode thread leaves its loop when it   *)
(* comes back to the loop's head after having been told to stop.           *)
(***************************************************************************)
Fairness ==
    /\ WF_vars(FlushIndicated \/ ResetKeyRequest)
    /\ WF_vars(DecodeThread)
    /\ SF_vars(Extract)
    /\ WF_vars(ProcessNackList)
    /\ WF_vars(TriggerDecoderShutdown \/ ResetAfterStop)
    /\ SF_vars(JoinDecodeThread)

FairSpec == Spec /\ Fairness

-----------------------------------------------------------------------------
(***************************************************************************)
(* Safety.                                                                 *)
(***************************************************************************)
\* Every variable has its type: in particular the NACK list holds uint16_t
\* values whatever wraps, and every frame in a list has sequence numbers.
TypeOK ==
    /\ wire \in SUBSET Packets
    /\ IsJitterBuffer(jb)
    /\ net \in {"idle", "admitted", "reset", "resetting", "aborted"}
    /\ dec \in {"idle", "check", "wait", "late", "timing", "decode", "exited"}
    /\ decTs \in Timestamp
    /\ held \in SUBSET HeldFrame
    /\ decoder \in BOOLEAN
    /\ scheduleKeyRequest \in BOOLEAN
    /\ api \in {"receiving", "stopping", "joining", "joined", "stopped",
               "starting"}
    /\ restarts \in 0 .. MaxRestarts
    /\ shown \in SUBSET HeldFrame

\* No frame buffer is lost or freed twice: each of the max_number_of_frames_
\* that were allocated is free, in one of the two lists, or at the decoder,
\* and no more than kMaxNumberOfFrames are ever allocated.
FrameConservation ==
    /\ jb.free + Cardinality(DOMAIN jb.decodable)
               + Cardinality(DOMAIN jb.incomplete)
               + Cardinality(held) = jb.allocated
    /\ jb.allocated <= kMaxNumberOfFrames

\* assert(*frame) in GetFrame: recycling always yields a frame for a packet.
AlwaysAFrame == net # "aborted"

\* The NACK list fits the array that VideoReceiver::Process allocates for it,
\* between any two calls (assert in VCMReceiver::NackList).
NackListBounded == Cardinality(jb.missing) <= MaxNackListSize

Buffered(s) ==
    \/ \E t \in DOMAIN jb.decodable : s \in jb.decodable[t].pkts
    \/ \E t \in DOMAIN jb.incomplete : s \in jb.incomplete[t].pkts

\* GetNackList lists sequence numbers that are missing: a packet that waits in
\* the jitter buffer is never asked for again.
NackOnlyMissing == \A s \in jb.missing : ~Buffered(s)

\* Packets older than max_packet_age_to_nack_, which the sender may have
\* dropped, are not on the NACK list.
NackAgeBounded ==
    \A s \in jb.missing : Ahead(jb.latest, s, SeqMod) <= MaxPacketAgeToNack

\* What the decoder gets is a whole frame: ExtractAndSetDecode hands out no
\* frame that lacks a packet the sender sent for it.
DecodedWhole ==
    \A h \in held : \A p \in Packets :
        p.ts = h.ts /\ p.type # "empty" => p.seq \in h.frame.pkts

\* A delta frame is handed out only right after the frame it depends on, as the
\* comment on NextCompleteTimestamp says: no packet of the stream lies between
\* the last decoded frame and it.
DeltaFollowsPredecessor ==
    [][held = {} => \A h \in held' : h.frame.type = "delta" =>
          \E q \in shown :
             /\ IsNewerTimestamp(h.ts, q.ts)
             /\ \A p \in Packets : p.type # "empty" =>
                   p.seq \notin SeqBetween(HighSequenceNumber(q.frame),
                                           LowSequenceNumber(h.frame))]_vars

\* The decode thread is not left waiting for frame_event_ while the frame it
\* waits for is at the front of decodable_frames_.
NoLostWakeup ==
    dec = "wait" /\ jb.running /\ CompleteFront(jb) # {} => jb.event

\* A complete frame that continues the last decoded one is decodable: it does
\* not stay in incomplete_frames_, where the decode thread never looks.
NoStrandedFrame ==
    \A t \in DOMAIN jb.incomplete :
        jb.incomplete[t].state = "Complete"
            => ~ContinuousFrame(jb.last, jb.incomplete[t])

\* After StartReceive the jitter buffer is running, so frames can be decoded.
StartedIsRunning == api = "receiving" => jb.running

\* After last_decoded_state_ has been reset (RecycleFramesUntilKeyFrame) the
\* next frame decoded is a key frame.
KeyFrameAfterReset ==
    [][held = {} /\ jb.last.initial => \A h \in held' : h.frame.type = "key"]_vars

-----------------------------------------------------------------------------
(***************************************************************************)
(* Liveness, under FairSpec.                                               *)
(***************************************************************************)
\* StopReceive comes to its end: the decode thread leaves FrameForDecoding and
\* can be joined, even if a packet admitted before StopReceive has the network
\* thread restart the jitter buffer (ResetDecoder) in the meantime.
StopCompletes == api = "stopping" ~> api = "stopped"

\* While the channel is receiving, a complete frame at the front of
\* decodable_frames_ does not stay there: it is decoded or dropped.
FrontLeaves ==
    \A t \in {p.ts : p \in Packets} :
        api = "receiving" /\ jb.running /\ t \in CompleteFront(jb)
            ~> t \notin DOMAIN jb.decodable

\* A key frame request scheduled by Decode is sent or withdrawn some day.
KeyRequestServed == scheduleKeyRequest ~> ~scheduleKeyRequest
=============================================================================
