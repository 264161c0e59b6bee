# Verification of rtccore

rtccore is a fork of WebRTC (2015) with an engine API of its own
(`webrtc/avengine`), FFmpeg and H.264 codec wrappers, and a rewritten way for
frames to leave the video jitter buffer.  This project models five parts of
it, each with the threads or the network that make it hard:

* the receive path of a video channel, where that rewrite happened: frames
  assembled in the jitter buffer, missing packets asked for again, complete
  frames taken by the decode thread, the channel stopped and started meanwhile;
* the send path: packet history, pacer, prober and RTP sender, between the
  encoder, the process thread, incoming NACKs and the application;
* the process thread that drives the modules of the engines;
* pseudo-TCP between two tunnel channels over an unreliable network;
* the message-queue threads of `base`, with synchronous `Send` between them.

TLC checks them on small instances.  TLAPS proves the invariants that the runs
check, of all five parts, that the set definitions of the jitter buffer are the
loops of the code, and that pseudo-TCP implements a byte stream, for all streams,
limits, buffers, moduli and numbers of threads.  What a theorem assumes of the
stream is in its statement.

## Inventory of the system

| Part | State | Operations | Interaction | What is hard |
|---|---|---|---|---|
| Serial numbers (`module_common_types.h`) | none | compare, latest | used everywhere | wraparound, exactly half the ring |
| Frame assembly (`frame_buffer`, `session_info`) | packets, first, last and empty sequence numbers, state | insert media or empty packet | owned by one list, the free pool or the decoder | order of arrival, duplicates, size limit |
| `VCMDecodingState` | last decoded sequence number and timestamp | set, skip empty, update by late packet | read by insertion, written by extraction | moved by padding and late packets as well |
| `VCMJitterBuffer` | decodable and incomplete lists, pool, NACK list, running flag, event | insert packet, next complete timestamp, extract, release, NACK list, start, stop, flush | one lock; network, decode, process and API thread | limits, recycling, waking the decode thread |
| `VCMReceiver`, `VideoReceiver` | decoder pointer, scheduled key request | incoming packet, decode, process, reset decoder | several critical sections per operation | state used across unlocked waits |
| `ViEChannel`, `ViEReceiver` | receiving flag, decode thread | start and stop receive | stop clears the flag, stops the buffer, joins, resets | a packet admitted before the stop |
| Timing and jitter estimate | filters | render time, wait time | called by the decode thread | numerical; appears here as a free choice |
| Packet history (`rtp_packet_history.cc`) | ring of packets with send times | put, find, get and mark as sent, purge | own lock; encoder, process and network thread | growth while packets are unsent, wrap, purge while packets are queued |
| Pacer and prober | priority queue, list and duplicate map, two budgets, probe | enqueue, process, pause, enable | calls back outside its lock | a packet out for the callback, refused packets, overuse |
| RTP sender, `PayloadRouter` | next number, marker, sending flag | send, time to send, padding, on NACK | router's lock around callbacks | marks before sending, NACK of a queued packet |
| Bandwidth estimation | bitrates, loss window, AIMD state | on report, update | pacer, encoder | bounds, state machine, floating point |
| Process thread | list of modules, task queue | register, wake up, process | calls modules under its lock | lock order, waking |
| Encoder path, RTCP | key request state | on request, on report | receiver's key requests | duplicated or early requests |
| RtcEngine API (`avengine`) | engine and channel handles | create, start, stop, release | thin layer over the engines | order of calls |
| Pseudo-TCP (`pseudotcp.cc`, `pseudotcpchannel.cc`) | segment list, buffers, windows, timers, event flags | connect, send, receive, clock, packet, close | transport channel, stream of the application | loss, repetition, reordering, closed windows, closing |
| ICE/STUN/TURN, DTLS | requests, connections | send, resend, check response | message queue | timeouts, late answers |
| Message queue, threads of `base` | queues, delayed messages, send lists, wake-up flag | post, send, clear, dispatch, quit, destroy | all of `p2p` | sends in both directions, nested waits, exit with senders waiting |
| NetEq, voice engine, audio processing | packet buffers, filters | insert, get audio | audio device threads | mostly numerical |
| Capture, rendering, devices, codecs | platform handles | I/O | callbacks | out of the model's reach |

What makes the receive path correct: frame buffers are neither lost nor freed
twice, every packet finds a frame, the NACK list stays within its limits, names
missing packets and all of them, the decoder gets whole frames in a decodable
order, the decode thread is woken when there is something to decode, and
stopping terminates and leaves a channel that can be started again.  The send
path is correct when a packet that was accepted reaches the transport or is
given up knowingly, in order, and what a NACK asks for is found.  The process
thread and the message threads must not lose a wake-up, must not change a list
under an iteration, and must stop.  Pseudo-TCP has to be a byte stream that
does not stall.
`PROJECT.json` lists the hazards line by line.

## Modules

* `SequenceNumbers` - comparison of `uint16_t` sequence numbers and `uint32_t`
  timestamps.  The moduli are constants.
* `FrameBuffer` - one frame (`VCMSessionInfo` in a `VCMFrameBuffer`) and
  `VCMDecodingState`, as operators on records.
* `JitterBuffer` - `VCMJitterBuffer` as one operator per method, from the
  state before to the state after and the result.  `jb` has one field per
  member that decides anything.  Loops over the frame lists are given by the
  set of frames they remove or move.
* `VideoReceiver` - the state machine.  Each method of the jitter buffer holds
  its lock and is one step of the thread that calls it; what the code does
  between two critical sections is a control state of that thread (`net`,
  `dec`, `api`).
* `MCVideoReceiver` - the packet streams of the runs.
* `LoopReference` - the loops of `JitterBuffer` round by round, as the reference
  for its set definitions; `MCLoops` is its instance.
* `VideoReceiverProofs`, `StreamProofs`, `LoopProofs` - their lemmas and
  theorems: the buffer and the threads around it, what follows for streams that a
  sender can produce, and the loops.
* `Lists`, `ListFacts` - erasing from a list, and lemmas on lists shared by the
  proofs below.
* `PacketHistory` - `RTPPacketHistory`, an operator per method.
* `Pacer` - `PacedSender` with its queue, budgets and prober, an operator per
  critical section.
* `SendPath` - the state machine that composes the two with `RTPSender` and
  `PayloadRouter`; `MCSendPath` has the frames of its run.  Proofs in
  `SendPathProofs`.
* `ProcessThread` - `ProcessThreadImpl`.  Proofs in `ProcessThreadProofs`.
* `PseudoTcp` - `PseudoTcp` as operators from a connection to a connection, the
  packets it writes and the notifications it makes.  Its loops are recursive
  functions.
* `PseudoTcpPair` - two `PseudoTcpChannel`s, the network between them and the
  applications on top; `MCPseudoTcp` has the constants of its runs.
* `ByteStream` - what pseudo-TCP promises: each end reads a prefix of what the
  other wrote.  `PseudoTcpPair` implements it (`StreamSpec`).  Proofs of the
  three in `PseudoTcpProofs`.
* `MessageThreads` - `rtc::Thread` and `rtc::MessageQueue`, several of them.
  Proofs in `MessageThreadsProofs`.

How `VideoReceiver` corresponds to the code:

| Thread | Control state | Code |
|---|---|---|
| network | `net`: idle, admitted, reset, resetting | before and after the test of `receiving_` in `InsertRTPPacket`; `InsertPacket`; after `kFlushIndicator` the receive-side part of `ResetDecoder`, then its end under `process_crit_sect_` |
| decode | `dec`: idle, check, wait, late, timing, decode, exited | rounds of `NextCompleteTimestamp`, `frame_event_->Wait`, the last look after a time-out, the render time computation and wait in `FrameForDecoding`, `ExtractAndSetDecode`, `Decode(frame)` and `ReleaseFrame` under `_receiveCritSect` |
| process | none | `Process` -> `NackList` -> `GetNackList` |
| API | `api`: receiving, stopping, joining, joined, stopped, starting | `StopReceive` (flag, `TriggerDecoderShutdown`, join, `ResetDecoder`), `StartReceive` (thread, flag) |

`net = "aborted"` is the failed `assert(*frame)` of `GetFrame`.  `shown` is a
history variable: the last frame given to the decoder since it was reset.

The network delivers any packet of the stream in any order, or never; with
`Duplicates` it may deliver it again, which covers duplication in the network
and retransmissions that were not needed.  Delivery happens after the admission test, so
stopping may fall between the two.  The timing module decides freely whether
a frame's render time is out of bounds (`TimingError`), not due (`NotDueYet`)
or due (`Extract`).  The decoder may fail on any frame.

Abstractions of the receive path:

* Payload bytes, statistics, logging, NACK counts and the jitter estimate are
  left out; they decide nothing in the modelled control.  A frame that grows
  beyond `kMaxJBFrameSizeBytes` takes the same path as one with too many packets.
* The codec is H.264 or unknown; VP8 picture ids, temporal layers and
  partitions, and `kSelectiveErrors`, are left out.
* NACK mode, error mode and limits are constants.  The channel uses
  `kWithErrors` without NACK by default (`ViEChannel::Init`) and `kNoErrors`
  with NACK once NACK is switched on (`SetNACKStatus`); the runs cover both.
* A decoder is registered for the payload type, so `Decode` never returns
  `VCM_NO_CODEC_REGISTERED`; the slice loss indication and failing request
  callbacks are left out.  `OnInitializeDecoder`, which also resets the
  decoder when the payload changes, is left out.
* `VCMJitterBuffer::Stop` sets the event just after it releases the lock; the
  model does both in one step.  `Start` does not clear the event, so the case of
  a restarted buffer whose event is set is present anyway.
* Senders mark the lowest packet of a frame as first and the highest with the
  marker bit, as the asserts of `VCMSessionInfo::InsertPacket` presuppose.
* `latest_received_sequence_number_`, uninitialised before the first packet,
  is never read before it is set; the model starts it at 0.

### Send path

| Thread | State | Code |
|---|---|---|
| encoder | `encoder`: put, pace, send, for each packet of a frame | `RoutePayload` to `SendToNetwork`, under the router's `crit_` |
| process | `process`: callback, send, sent or refused, pad, padded | `PacedSender::Process`; `critsect_` is free in all of these states |
| network | `nack`: fetch, pace, send, for each number of a list | `OnReceivedNACK`, `ReSendPacket` |
| application | none | `Pause`/`Resume`, `SetStatus`, `SetSendingMediaStatus`, `SetStorePacketsStatus` |

A packet that the transport refuses does not end its frame:
`RTPSenderVideo::Send` logs it and goes on, and `SetSent` marks it all the same
(`SendPacket`, `PacketDone`).  `handed` holds what the transport took.  `excused`
holds the packets that may get lost without the transport being asked: those that
are no longer in the history, because it was purged or because their slot was
overwritten (at `kMaxHistoryCapacity`, or when the packet was marked as sent before),
and those offered while no module is sending.  A packet that was marked too
early, because it was refused or NACKed while it waited, is not excused while it is
stored.  Left out: RTX (and with it redundant
payloads), packet bytes (one packet is one unit of budget), `store_` (never
off with a pacer), bitrate changes.  The byte-rate limits on NACKs are a free
choice to give up the rest of a list.  Sequence numbers wrap within the run;
the stream is shorter than the ring of numbers.

### Process thread

The worker's states follow `Process()`: head, each module (asked, called,
skipped), the task loop, the wait and the pause of 10 ms.  `next_callback` is
0, `kCallProcessImmediately`, due or later.  A caller is between the parts of
`RegisterModule`, `DeRegisterModule`, `WakeUp` or `PostTask` that lie outside
`lock_`.  Left out: debug checks; registration that overlaps `Start` or `Stop`
(the engines do not do that); calls that a module makes from inside
its own `Process()` (the lock is recursive; none of the modelled modules does).

### Pseudo-TCP

Sequence numbers count units, of which the first carries the connect message.
A handler of `PseudoTcpChannel` holds `cs_` and is one step: it calls
`PseudoTcp`, posts the notifications and ends with `AdjustClock`, which
deletes a connection that is ready for it.  Timers are flags: the timer that
runs may expire at any moment, which covers every round-trip time, back-off
and clock.  `silent` is the 15 seconds without an answer.  `PathMss` is
the largest packet that the channel takes, `WR_TOO_LARGE` above it, down to the end
of the table of sizes ("MTU too small").  What else a handler meets is `io`, a
member of `Conditions`: whether the test of `m_lastsend` at the head of
`attemptSend` finds the end `idle`, after how many segments a write of
`attemptSend` returns `WR_FAIL` and at which step of the table, and whether the
write of a retransmission fails, which closes the connection.  `failed` says
that the last `attemptSend` ended with "transmit failed"; nothing of the
program depends on it.  An MTU that the channel reports may be any of `Mtus`, larger
or smaller, in the table or not, and a stream may be closed in every state.  The
network is a set of packets on the way to each end.  The application reads and
writes when told, until the call would block.  Left out: window scaling and
buffer sizes (the peers agree), resets, forceful close, an ack delay
of 0, wrap of the `uint8` count of duplicate acks and of sequence numbers after
4 GB.

### Message threads

`stack[t]` is the call stack of thread `t`: the loop of `ProcessMessages`, a
handler of a posted or sent message, a `Post`, `PostDelayed` or `Send` that
the handler makes, and so on inwards; `pc` is the place in the innermost one.
`signaled` is the wake-up flag of each socket server, `ready` the answered
Sends.  `Main` is a thread without a loop that makes calls and destroys a
thread.  Left out: `Peek` and `Get` with a time limit, disposed objects (like a
handler that makes no call), socket I/O inside `Wait`, `Restart`.
Sends in a circle of three threads deadlock by design (`Send` runs only
messages of its target) and are beyond the two workers of the runs.  A thread
is destroyed when nobody is between the test of `fStop_` and the push
(`AboutToPush`); the code leaves that to its users.

## Runs

Bounds of the receive path: both moduli are 16, so that sequence numbers and timestamps
wrap within each stream and half the ring (8) is more than the length of a
stream, as in the code, where a stream never spans half of 2^16 packets within the
buffer; at most 3 packets per frame, which a redelivered packet exceeds; 1 to 3 frame buffers (5 in `delta_order`), so that allocation, the
limit and recycling all happen; a NACK list of at most 2 packets (1 in `restart` and `delta_order`) of age at most 3, so
that both limits are exceeded; a flush after 2 old packets (5 in
`delta_order`).  Four to seven packets per stream make two key frames and the delta frames
between them; `delta_order` has eight, with three key frames.

| Run | Configuration | Shows |
|---|---|---|
| `nack` | NACK mode, redelivery, incomplete-time limit | types, whole frames, frame conservation, a frame for every packet, size and age of the NACK list, nothing buffered on it, no lost wake-up, no complete continuous frame left behind |
| `restart` | one stop and start, fair threads | stopping terminates in spite of a packet that restarts the buffer; a complete frame at the front leaves |
| `loops` | NACK mode, padding, two key frames | set definitions agree with the loops in every reachable state; skipping padding keeps continuity |
| `send` | frames whose packets wrap the numbers, history of 1 growing to 2, one padding packet, one NACK, one change of settings | the queue's views agree, stored packets are found, no packet that is still stored or was never asked for is counted as sent, order, the queue drains |
| `process_thread` | 2 modules, 2 callers, 3 calls, 2 starts | list stable during a pass, attached modules agree, no lost wake-up, tasks and wake-ups served, `Stop` returns |
| `pseudo_tcp` | 2 units and the connect message, packets repeated on the way to the receiver, receive buffer 2, send buffer 3, packets of 2 units split to 1 | only what arrived is acknowledged; refinement of `ByteStream` |
| `pseudo_tcp_window` | 3 units through buffers of 2, MTUs 1 and 2, a path that takes 1, failed writes, graceful close | segments cover the buffer, window kept, timers, events, no stall, closing loses nothing |
| `message_threads` | 2 workers and `Main`, 2 calls besides the first message of each worker, one worker destroyed | every Send returns, posted messages are dispatched or cleared, the destructor returns |
| `sends` | the same, 3 calls (Send and PostDelayed), nobody destroyed | no wake-up lost to nested waits; only messages of the target run inside `Send` |

The type invariants of `SendPath`, `ProcessThread`, `PseudoTcpPair` and
`MessageThreads` hold on the same instances.

Why the bounds are enough for the cases that matter: in `send` the history
grows, evicts at its limit and is purged with packets queued, a probe
starts and ends, and a queued packet is NACKed and refused.  In
`process_thread` two callers meet the worker in each of its states, and a
second start finds what the first left.  In `pseudo_tcp` four duplicate acks
arrive, so fast retransmit, recovery with a partial ack, saved
segments and their recovery happen, each segment is sent up to
`MaxXmit` times before the connection is given up, and the first packets are
too large for the path.  In `pseudo_tcp_window` the window closes with data
left, is probed and opens; two segments are in flight and acknowledged one at a
time; segments are split when they are sent again after a smaller MTU; Nagle's
rule holds a unit back behind one in flight; a write blocks on the full buffer;
and writes fail, with `WR_FAIL` or "MTU too small", in each of the handlers.  The
real buffers are 60 and 90 KB; what matters of them is that they are full, empty or between.  In `sends` a thread is three Sends deep.
`NetworkSize` and `MaxSaved` bound the packets on the way and the saved
segments, `MaxCwnd` the congestion window.

Runs that show a disagreement between the code and what the repository says of
it (each is a finding in `PROJECT.json`):

| Run | What happens |
|---|---|
| `delta_order` | a delta frame that was overtaken by a key frame is decoded after it, although nothing was redelivered |
| `leak` | frames dropped by `ExtractAndSetDecode` never return to the pool; the assert in `GetFrame` fails |
| `not_running` | stopping before the first decoded frame leaves the buffer stopped after `StartReceive` |

### Observations

Limits of the receive path that can be reproduced by changing a
configuration:

* `DeltaFollowsPredecessor` fails in `MCDeltaOrder.cfg`, against the comments at
  `jitter_buffer.cc:407` and 1242.  The decode thread has
  chosen the second key frame when a late delta frame that
  continues the first one becomes decodable.  After the key frame was extracted, the NACK
  list overflows; recycling drops `incomplete_frames_` up to the third key frame
  and resets `last_decoded_state_`, so the late frame in `decodable_frames_` is
  no longer old, and is decoded after a key frame that is newer.
* It fails with redelivery too (`Duplicates = TRUE`, `ShortStream`, 3 frames, a flush after
  2 old packets), in a shorter trace: a timestamp chosen before
  an unlocked wait is extracted after a flush put an older frame before it.
* In the default mode (the constants of `MCLeak.cfg`) `NoLostWakeup` fails: a
  frame is decodable from its first packet, and its completion is not
  signalled (`jitter_buffer.cc:818`).  `DeltaFollowsPredecessor` fails there too:
  `IsContinuousInState` calls every frame continuous.  `DecodedWhole` holds.
* `NackOnlyMissing` fails in `MCNack.cfg` with `MaxRestarts = 1`: `Stop` and
  `Start` keep `missing_sequence_numbers_`, and the first packet after a restart
  does not pass `UpdateNackList`.
* `KeyFrameAfterReset` fails in `MCDeltaOrder.cfg` as well: recycling resets
  `last_decoded_state_` while decodable delta frames remain, which are decoded
  before the key frame, against the comment at `jitter_buffer.cc:1243`.
* `KeyRequestServed` fails in `MCRestart.cfg` with `MaxRestarts = 0`: the part of
  `Process` that serves a scheduled key request is compiled out
  (`video_receiver.cc:144`).
* `NoStrandedFrame` fails on a stream with padding (`MCNack.cfg` with
  `MixedStream`): `UpdateEmptyFrame` moves the decoding position, and nothing
  then looks for complete frames in `incomplete_frames_` that have become next.
* What is missing below the first packet received after a reset is never put on the
  NACK list, even if an older key frame arrives and is decoded.

Of the other parts:

* A packet that was marked as sent before the transport took it
  (`TimeToSendPacket`, `ReSendPacket`) no longer protects its slot in the history:
  it may be overwritten below `kMaxHistoryCapacity`, which the comment at
  `rtp_packet_history.cc:141` excludes for packets that have not been sent.  At
  the limit any packet is overwritten, and `SetStorePacketsStatus` purges all.  The pacer
  counts what it no longer finds as sent (`rtp_sender.cc:836`).
* A write that fails in `attemptSend` leaves its data with the window open and no timer
  (`pseudotcp.cc:1109`, "TODO: consider closing socket"), until the application
  writes or reads or a packet arrives; after a failed CONNECT message nothing of
  the kind need happen.  Without `failed` the property `NeverStalls` fails.
  Debug builds stop before that, at the `ASSERT(false)` of `pseudotcpchannel.cc:522`.
* `PacedSender::SetStatus(false)` leaves what is queued in the queue: `Process`
  returns at once until the pacer is enabled again.
* `m_rlist` has no test for segments it already holds (`pseudotcp.cc:934`).
* When Nagle's algorithm holds data back, `attemptSend` returns without sending
  or scheduling the ack that its caller asked for (`pseudotcp.cc:1090`); the
  comment at 837 says that a segment with data must be acknowledged.  The
  peer's retransmission and the ack of the data in flight end the situation.
* A partial ack of a segment would shorten it without moving its sequence number
  (`pseudotcp.cc:743`); no receiver cuts a segment (`WindowIsKept`), and it is
  proved that no partial ack comes.
* A message posted after the thread's last look at its queue and before it sees
  `fStop_` is not dispatched but cleared.  A Send pushed in that time returns
  only in the destructor's `Clear`, and then uses `crit_` of the destroyed thread
  once more (`thread.cc:463`).

### Fairness

`FairSpec` of `VideoReceiver` assumes that a thread that is not blocked keeps running (the OS
scheduler) and that a wait ends at its time-out.  `ProcessNackList` is called periodically.
Strong fairness of `Extract` says that a frame that is offered again and again
becomes due some day: render times lie at most `max_video_delay_ms_` away.
Strong fairness of the join says that the decode loop tests its stop flag each
time it comes round (`ThreadPosix`).  Nothing is assumed of the network, of timing
errors or of the callers of `StopReceive` and `StartReceive`.

`FairSpec` of `SendPath`: each thread goes on; `Process` is called again
after time has passed, as `TimeUntilNextProcess` asks; and a transport that
is offered the same packet again and again takes it some day (strong
fairness of `SendPacedPacket(TRUE)`), without which `Process` puts the packet
back and tries it first for ever.  Nothing is assumed of NACKs and of the
application; `QueueDrains` is conditional on the pacer staying enabled and
running.

`FairSpec` of `ProcessThread`: the worker and a caller in the middle of a call
go on; who waits for `lock_` gets it although others take it in between
(strong fairness).  Modules and tasks return.  The one-minute limit of the
wait is not assumed to expire, so a lost wake-up would show.

`FairSpec` of `MessageThreads`: each thread goes on (weak fairness of its
steps), handlers return, and the wait for a delayed message ends.  Nobody has
to call anything.

`PseudoTcpPair` has no fairness: the network may lose everything.  That a
connection can always go on is stated as invariants instead (`NeverStalls`,
`TimerRunsInFlight`, `NoLostEvent`).

## Proofs

Assumptions are the ASSUMEs of the modules: moduli above 1, limits natural
numbers, `kStartNumberOfFrames <= kMaxNumberOfFrames`, packets well typed.
Whatever a theorem needs beyond them is in its statement.  Each component has
one inductive invariant `IInv` and a theorem `Invariance`; the proof has a
lemma or a step per action.  The strengthenings were first checked with TLC.

### Jitter buffer and receiver (`VideoReceiverProofs`)

* `TypeCorrect`: `Spec => []TypeOK`.
* `NackListFits`: `Spec => []NackListBounded`, in every mode.
* `FramesConserved`: `Spec => []FrameConservation` in `kNoErrors` mode.
* `FrameForEveryPacket`: `Spec => []AlwaysAFrame` in `kNoErrors` mode with at
  least two frame buffers.  With one, the decoder may hold it.  The run `leak` shows
  that `kNoErrors` is needed.

None of the properties is inductive alone.  Conservation needs that the two
frame lists have no timestamp in
common (a frame moved to a list that already has its timestamp would be
lost) and, in `kNoErrors` mode, that `decodable_frames_` holds only complete
frames (so the leaking branch of `ExtractAndSetDecode` is not taken).  That a
packet finds a frame needs conservation: if the pool is exhausted, the decoder
holds at most one frame (`HeldInv`), so with two frames one list is not empty
and recycling frees at least one.  That the decoder holds at most one needs where
each thread is, and that the decode thread has exited exactly between the join and
the restart (`ExitInv`).  The module begins with a lemma per operator of the buffer: it
keeps the buffer sound, the pool balanced (`Balanced`: frames lost from the
lists equal frames gained by the pool), and the NACK list bounded.

### Streams (`StreamProofs`)

What a stream has to be like for the order of numbers to mean anything:
`ShortFrames` (no frame spans half of the sequence numbers), `MarkedFrames`
(the sender marks the first and the last packet of a frame, as the asserts of
`VCMSessionInfo::InsertPacket` presuppose), `PaddingApart` (padding has
timestamps of its own), `ShortNumbers` and `ShortTimes` (the stream has less
than half of the sequence numbers or timestamps), `SentInOrder` (newer frames
have newer sequence numbers), `NoPadding`.

* `FramesAreWhole`: with `ShortFrames` and `MarkedFrames`,
  `Spec => []DecodedWhole` in both error modes.  `StreamInv`: every frame in a
  list or at the decoder was assembled from packets of the stream with its
  timestamp, so a frame between a first and a last packet without a gap is the
  frame that was sent.
* `NoFrameIsMissed`: in `kNoErrors` mode, with `PaddingApart` and `ShortTimes` besides,
  `Spec => []NoLostWakeup`.  `WakeInv`: while the decode thread waits, the event
  is set or `decodable_frames_` is empty.  `PaddingApart` is needed because
  `InsertPacket` sets no event when padding moves a frame that was complete
  already.
* `NacksAreMissing`, `NacksAreYoung`: with `ShortNumbers` (and `ShortTimes`), `NackOnlyMissing` and
  `NackAgeBounded` hold until the first `StopReceive` (`restarts = 0`); the
  first one really fails after it, see Observations.  `NackGood`: before
  the first packet after a reset nothing is buffered or missing; packets of buffered frames are no newer than
  `latest_received_sequence_number_` and not on the list; what is on the list
  is older than the latest and not too old; the decoding state is not ahead
  of the latest unless the list is empty.
* `NoFrameIsStranded`: in `kNoErrors` mode, with `OrderedStream` (`ShortNumbers`,
  `ShortTimes`, `MarkedFrames`, `SentInOrder`, `NoPadding`),
  `Spec => []NoStrandedFrame`, for any number of restarts and any loss,
  duplication and reordering.  The property says that no complete frame in
  `incomplete_frames_` continues the last decoded one.  For that to survive
  an extraction, which makes a decodable frame the last decoded one
  without looking at `incomplete_frames_`, no complete frame there may follow
  any frame of `decodable_frames_` either (`NoneStranded`).  `OrderGood` adds that
  frames hold media packets only (`SolidFrames`), so that their ends are the
  numbers of packets, and that no packet with the timestamp of the decoding
  state is ahead of it (`LastWhole`), so that `UpdateOldPacket` moves nothing.
  A frame that becomes complete or decodable is looked for in both directions:
  `IsContinuous` compares it with every decodable frame below it, and the walk of
  `FindAndInsertContinuousFrames` reaches each frame that follows.
  `NoPadding` is needed: with padding the property fails, see Observations.

### Loops (`LoopProofs`)

`JitterBuffer` gives the loops over the frame lists by the frames they remove
or move.  With `ShortTimes` (`std::map` needs an order), in every state:

* `CleanUpIsTheLoop` (`CleanUpAgrees`): `CleanUpList` is the loop of
  `CleanUpOldOrEmptyFrames`, with the decoding state moved on by each empty
  frame.
* `InsertIsTheWalk` (`WalkAgrees`): `FindAndInsertContinuousFrames` is its walk,
  from every decodable frame.
* `RecyclingIsTheLoop` (`RecycleAgrees`): `RecycleFramesUntilKeyFrame`,
  `HandleTooLargeNackList` and `HandleTooOldPackets` are the loops over the two
  lists, for every NACK list that `UpdateNackList` builds.

The invariant is `FramesIn(jb, TimedFrames)`: frames have timestamps of the
stream, so that each list has a first frame, and a frame without media packets is
not a key frame.  A loop takes a frame in each round, so after as many rounds
as there are frames it has ended (`LoopEnds`, `TakingLoopEnds`).  The recycling
loops need more, since a round takes any number of frames.  The lists between two
rounds are known by where they begin: at a key frame of
`incomplete_frames_` (`AtKey`), after the last one (`NoIncomplete`), at a key frame of
`decodable_frames_` (`AtDecodableKey`), or both empty (`NoFrames`).  The
rounds go through these places in order and end at the first one that is good
enough (`RoundsReach`, `RoundsEnd`), which is the place that `RecycleUntil` chooses.

### Send path (`SendPathProofs`)

* `QueueIsConsistent`, `StoredPacketsAreFound`, `TypeCorrect` hold always.
  `IInv` adds to the types that the pacer's heap, list and duplicate map have
  the same packets but for the one that is out for the callback (`QueueInv`),
  that the ring of the history fills from below (`RingInv`), and who holds the
  router's lock (`RouterInv`).
* `NothingIsLostSilently`: `Spec /\ [](rtp.pos <= HistorySeqMod) => []NoSilentLoss`,
  that is for the first 65536 packets of a stream, padding included; after that the
  16-bit numbers are used again, and a queued packet may be taken for another one.
  `LossInv`: a packet that is queued, or on its way into the queue, and neither
  handed over nor excused is stored in the history, and as a retransmission it is one
  that may be sent again, so that the callback finds it.  A lookup finds it because of
  `StoredIsFound`; a slot is overwritten only as `Overwritten` says.
* `PacedInOrder`: for the same packets `SentInOrder` (an action
  property), from `SettingsInv`: while nobody changed the settings, the
  packets that were done, the one at the callback, those queued and
  the one the encoder holds follow each other.

### Process thread (`ProcessThreadProofs`)

* `WakeupsAreKept` (`NoLostWakeup`), `AttachmentIsKept` (`AttachedAgrees`),
  `PassesAreUndisturbed` (`PassIsUndisturbed`, an action property),
  `TypeCorrect`, for any modules, callers and calls.  `IInv`: the worker holds `lock_`
  exactly in its pass and while it looks for tasks (`WorkerInv`), what a thread object and each part of `Start` and
  `Stop` imply (`LifeInv`), what the worker has looked at when it is on its
  way to `Wait` (`WakeInv`), one list entry per module and who has been told so far
  (`AttachInv`).

### Message threads (`MessageThreadsProofs`)

* `SendsOnlyNest` (`OnlyFromTarget`), `WakeupsAreKept` (`NoLostWakeup`) and
  `TypeCorrect`, for any number of threads and any depth of nested calls.
  `IInv`: what is on a call stack in which order (`StackInv`); a Send is known by its message and
  has one owner, wherever it is (`OwnerInv`); an answered
  Send that is not the innermost one will be noticed, since each wait that took
  a wake-up meant for an outer one gives it back (`ReadyInv`); and what a thread has already
  looked at when it goes to sleep (`SleepInv`).

### Pseudo-TCP (`PseudoTcpProofs`)

* `ImplementsByteStream`: `Spec => StreamSpec`, so each end reads what the
  other wrote, in order, once and without gaps, for any amount of data,
  buffer sizes (the send buffer the larger), packet sizes, MTUs and limits,
  whatever the network loses, repeats and reorders and whichever writes fail.
* `AcksAreTrue`, `WindowsAreKept`, `SegmentsAreCorrect`, `TimerIsCorrect`,
  `StallingNever`, `EventsAreTold`, `ClosingLosesNothing`, `TypeCorrect`: the
  invariants of the runs, each of which follows from `IInv`.

`IInv` describes an end as a sender (`GoodSender`: segments without gaps, those
sent below `snd_nxt`, the unit at each place of the buffer), as a receiver
(`GoodReceiver`: a saved segment is in the buffer) and the flow from a
sender to a receiver with the packets of both directions (`Flow`).  The
fact that carries the argument is `Reached`: `rcv_nxt`, every saved
segment, every packet and every acknowledgement on the way ends where a segment ends
that was sent or was acknowledged, so that an acknowledgement
removes whole segments only and the cut of `pseudotcp.cc:743` is
never made.  Splitting a segment or acknowledging one keeps old packets in
`Flow`, because it only adds such ends or moves `snd_una` past them.  Nothing is
sent beyond `rcv_nxt + rcv_wnd`, which never moves back (`Arrives`).  `Life` and `Got`
tie the positions to what was written and read, `Local`, `Running` and `Heard` are the
timers and the notifications.  `StallingNever` is `Running`: with data left the timer
runs, the window is 0 or `failed` is set.  It is kept because a handler that leaves the loop of `attemptSend`
in any other way has something in flight or no window, and because
nothing but `attemptSend` clears `failed`.

A method in the middle of a handler is described by `Works`, which is `IInv` for
the end as it is then and the packets written so far; there is a lemma per method that
it goes from one working handler to the next, one per call of the channel (`Done`), and
one per action of the pair.

### How the proofs work

`Lists` and the other models write loops as recursive functions, so that the provers can
unfold one step.  An induction needs a predicate, which the provers cannot
pass to the library's theorems; the lemmas use a set of numbers in its
place (`SetInduction`).  `LoopReference` writes its loops in the same way, as the state
after a number of rounds.

### Only model-checked

Liveness, which the prover does not support.  `DeltaFollowsPredecessor`: it holds on
the instance of `loops` and not for every stream and limit, see `delta_order`.
Every invariant of the passing runs is proved.

## Plan

Done: the modules above.  Next, in this order:

1. The order of the receive path: a condition on recycling (no decodable frame kept
   when the decoding state is reset) under which the action property on delta
   frames holds for every stream without redelivery.
2. Run-time changes of NACK mode and settings (`SetNACKStatus`,
   `SetNackSettings`) in `VideoReceiver`.
3. An abstract specification of the receiver (frames delivered whole and in
   order, or skipped up to a key frame) refined by `VideoReceiver`; the
   composition of `SendPath` and the receiver's NACK list.
4. `SendSideBandwidthEstimation` and AIMD as bounded integer state machines.
5. `StunRequestManager` and connection states.
6. `RwLock` (`rw_lock_generic.cc`) and the periodic timer event.
7. The life cycle of the `avengine` API.

Not modelled and not planned: codecs and signal processing (numerical), audio devices, capture
and rendering (platform I/O), third-party code, tests, tools and examples.
