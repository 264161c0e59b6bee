---------------------------- MODULE JitterBuffer ----------------------------
(***************************************************************************)
(* VCMJitterBuffer: the frames being assembled, the frames ready for the   *)
(* decoder, the pool of free frame buffers and the list of missing packets *)
(* (the NACK list).  Every public method runs under crit_sect_, so each is *)
(* one operator from the state before to the state after, which the module *)
(* VideoReceiver turns into a step of the calling thread.                  *)
(*                                                                         *)
(* Loops over the frame lists are given by the set of frames they remove   *)
(* or move.                                                                *)
(***************************************************************************)
EXTENDS FrameBuffer, Functions

CONSTANTS NackMode,                   \* nack_mode_
          kStartNumberOfFrames, kMaxNumberOfFrames, kMaxConsecutiveOldPackets,
          MaxNackListSize,            \* max_nack_list_size_
          MaxPacketAgeToNack,         \* max_packet_age_to_nack_
          MaxIncompleteTime           \* 90 * max_incomplete_time_ms_, 0: off

ASSUME JitterBufferAssumption ==
    /\ NackMode \in {"kNack", "kNoNack"}
    /\ kStartNumberOfFrames \in Nat
    /\ kMaxNumberOfFrames \in Nat
    /\ kStartNumberOfFrames <= kMaxNumberOfFrames
    /\ kMaxConsecutiveOldPackets \in Nat
    /\ MaxNackListSize \in Nat
    /\ MaxPacketAgeToNack \in Nat
    /\ MaxIncompleteTime \in Nat

-----------------------------------------------------------------------------
(***************************************************************************)
(* FrameList: a std::map from timestamp to frame, ordered by timestamp.    *)
(***************************************************************************)
IsFrameList(L) ==
    /\ DOMAIN L \subseteq Timestamp
    /\ L \in [DOMAIN L -> Frame]
    /\ \A t \in DOMAIN L : HasSeqNum(L[t])

EmptyList == [t \in {} |-> EmptyFrame]

IsEmpty(L) == DOMAIN L = {}

IsFront(L, t) == t \in DOMAIN L /\ \A u \in DOMAIN L : ~IsNewerTimestamp(t, u)
IsBack(L, t) == t \in DOMAIN L /\ \A u \in DOMAIN L : ~IsNewerTimestamp(u, t)

\* map::insert keeps an entry that is already there.
InsertFrame(L, t, f) ==
    [u \in DOMAIN L \cup {t} |-> IF u \in DOMAIN L THEN L[u] ELSE f]

Remove(L, S) == Restrict(L, DOMAIN L \ S)

\* The number of frames that an operation took out of L, leaving K.
Dropped(L, K) == Cardinality(DOMAIN L) - Cardinality(DOMAIN K)

-----------------------------------------------------------------------------
(***************************************************************************)
(* The state of a jitter buffer.  Frame buffers are interchangeable, so    *)
(* free_frames_ is represented by its length.  The statistics and the      *)
(* jitter estimate, which decide nothing here, are left out.               *)
(***************************************************************************)
IsJitterBuffer(j) ==
    /\ j \in [decodable : {j.decodable},     \* decodable_frames_
              incomplete : {j.incomplete},   \* incomplete_frames_
              free : Nat,                    \* free_frames_.size()
              allocated : Nat,               \* max_number_of_frames_
              last : DecodingState,          \* last_decoded_state_
              missing : SUBSET SeqNum,       \* missing_sequence_numbers_
              latest : SeqNum,               \* latest_received_sequence_number_
              fresh : BOOLEAN,               \* first_packet_since_reset_
              old : Nat,                     \* num_consecutive_old_packets_
              running : BOOLEAN,             \* running_
              event : BOOLEAN]               \* frame_event_ is signaled
    /\ IsFrameList(j.decodable)
    /\ IsFrameList(j.incomplete)

\* The constructor.
NewJB == [decodable |-> EmptyList, incomplete |-> EmptyList,
          free |-> kStartNumberOfFrames, allocated |-> kStartNumberOfFrames,
          last |-> InitialDecodingState, missing |-> {}, latest |-> 0,
          fresh |-> TRUE, old |-> 0, running |-> FALSE, event |-> FALSE]

\* DropPacketsFromNackList: what is left of M above seq.
DropPackets(M, seq) == {m \in M : IsNewerSequenceNumber(m, seq)}

Start(j) == [j EXCEPT !.running = TRUE, !.old = 0, !.fresh = TRUE,
                      !.last = InitialDecodingState]

\* A mutant of FreeAllFrames: incomplete frames are cleared, not given back.
FreeDecodableFrames(j) ==
    [j EXCEPT !.free = @ + Cardinality(DOMAIN j.decodable),
              !.decodable = EmptyList, !.incomplete = EmptyList,
              !.last = InitialDecodingState]

\* Every frame of both lists goes back to the pool.
FreeAllFrames(j) ==
    [j EXCEPT !.free = @ + Cardinality(DOMAIN j.decodable)
                         + Cardinality(DOMAIN j.incomplete),
              !.decodable = EmptyList, !.incomplete = EmptyList,
              !.last = InitialDecodingState]

Stop(j) == [FreeAllFrames(j) EXCEPT !.running = FALSE, !.event = TRUE]

Flush(j) == [FreeAllFrames(j) EXCEPT !.old = 0, !.fresh = TRUE, !.missing = {}]

-----------------------------------------------------------------------------
(***************************************************************************)
(* RecycleFramesUntilKeyFrame drops the oldest frames up to the next key   *)
(* frame: from incomplete_frames_, or from decodable_frames_ if the former *)
(* is empty.  HandleTooLargeNackList and HandleTooOldPackets repeat it     *)
(* until the NACK list is good enough.  RecycleUntil covers both: with     *)
(* Enough(M) = TRUE for every M it is a single round.                      *)
(***************************************************************************)
EstimatedLowSequenceNumber(f) ==
    IF HaveFirstPacket(f) THEN LowSequenceNumber(f)
    ELSE SeqDec(LowSequenceNumber(f))

\* The key frames a round can stop at: at least one frame is thrown first.
LaterKeys(L) == {t \in DOMAIN L : L[t].type = "key" /\ ~IsFront(L, t)}

\* The NACK list after the rounds that stopped at each of the keys in K.
DropBelowKeys(L, M, K) ==
    {m \in M : \A k \in K :
        IsNewerSequenceNumber(m, EstimatedLowSequenceNumber(L[k]))}

UpTo(L, t) == {k \in LaterKeys(L) : ~IsNewerTimestamp(k, t)}

\* The first key frame of L at which the rounds end, as a set of at most one.
StopKey(L, M, Enough(_)) ==
    LET good == {t \in LaterKeys(L) : Enough(DropBelowKeys(L, M, UpTo(L, t)))}
    IN  {t \in good : \A u \in good : ~IsNewerTimestamp(t, u)}

\* A mutant of From: the key frame is thrown as well.
After(L, t) == Restrict(L, {u \in DOMAIN L : IsNewerTimestamp(u, t)})

\* The frames of L from the one at t on.
From(L, t) == Restrict(L, {u \in DOMAIN L : ~IsNewerTimestamp(t, u)})

RecycleUntil(j, Enough(_)) ==
    LET inc == j.incomplete
        dec == j.decodable
        inStop == StopKey(inc, j.missing, Enough)
        \* The NACK list once incomplete_frames_ has been used up.
        M == DropBelowKeys(inc, j.missing, LaterKeys(inc))
        decStop == StopKey(dec, M, Enough)
        reset == [j EXCEPT !.last = InitialDecodingState]
        Freed(i, d) == j.free + Dropped(inc, i) + Dropped(dec, d)
    IN  IF inStop # {}
        THEN LET t == CHOOSE t \in inStop : TRUE
             IN  [jb |-> [reset EXCEPT
                            !.incomplete = From(inc, t),
                            !.free = Freed(From(inc, t), dec),
                            !.missing = DropBelowKeys(inc, j.missing, UpTo(inc, t))],
                  key |-> TRUE]
        ELSE IF ~IsEmpty(inc) /\ ~IsEmpty(dec) /\ Enough(M)
        THEN [jb |-> [j EXCEPT !.incomplete = EmptyList,
                               !.free = Freed(EmptyList, dec),
                               !.missing = M],
              key |-> FALSE]
        ELSE IF (IsEmpty(inc) \/ ~Enough(M)) /\ decStop # {}
        THEN LET t == CHOOSE t \in decStop : TRUE
             IN  [jb |-> [reset EXCEPT
                            !.incomplete = EmptyList,
                            !.decodable = From(dec, t),
                            !.free = Freed(EmptyList, From(dec, t)),
                            !.missing = DropBelowKeys(dec, M, UpTo(dec, t))],
                  key |-> TRUE]
        ELSE [jb |-> [reset EXCEPT !.incomplete = EmptyList,
                                   !.decodable = EmptyList,
                                   !.free = Freed(EmptyList, EmptyList),
                                   !.missing = {}],
              key |-> FALSE]

RecycleFramesUntilKeyFrame(j) == RecycleUntil(j, LAMBDA M : TRUE)

\* Mutants of the two limits: off by one.
NearlySmallEnough(M) == Cardinality(M) <= MaxNackListSize + 1
NearlyYoungEnough(M, seq) ==
    \A m \in M : Ahead(seq, m, SeqMod) <= MaxPacketAgeToNack + 1

SmallEnough(M) == Cardinality(M) <= MaxNackListSize

YoungEnough(M, seq) == \A m \in M : Ahead(seq, m, SeqMod) <= MaxPacketAgeToNack

HandleTooLargeNackList(j) == RecycleUntil(j, SmallEnough)

HandleTooOldPackets(j, seq) == RecycleUntil(j, LAMBDA M : YoungEnough(M, seq))

\* What UpdateNackList does for the age of the packets, after it has looked at
\* their number.
DropTooOld(small, seq) ==
    IF ~small.key \/ YoungEnough(small.jb.missing, seq) THEN small
    ELSE HandleTooOldPackets(small.jb, seq)

\* UpdateNackList: the state after it, and whether decoding can go on.
UpdateNackList(j, seq) ==
    LET latest == IF j.last.initial THEN j.latest
                  ELSE LatestSequenceNumber(j.latest, j.last.seq)
        grown == [j EXCEPT !.latest = latest,
                           !.missing = @ \cup SeqBetween(latest, seq)]
        small == IF SmallEnough(grown.missing) THEN [jb |-> grown, key |-> TRUE]
                 ELSE HandleTooLargeNackList(grown)
    IN  IF NackMode = "kNoNack" THEN [jb |-> j, key |-> TRUE]
        ELSE IF ~IsNewerSequenceNumber(seq, latest)
        THEN [jb |-> [j EXCEPT !.latest = latest, !.missing = @ \ {seq}],
              key |-> TRUE]
        ELSE DropTooOld(small, seq)

-----------------------------------------------------------------------------
(***************************************************************************)
(* GetFrame takes the frame for a packet out of the buffer: the one being  *)
(* assembled, or a free one, allocating or recycling when the pool is      *)
(* empty.  "none" stands for a NULL frame_list, ret "assert" for a failed  *)
(* assert on frame.                                                        *)
(***************************************************************************)
CanGetEmptyFrame(j) == j.free > 0 \/ j.allocated < kMaxNumberOfFrames

GetEmptyFrame(j) ==
    IF j.free > 0 THEN [j EXCEPT !.free = @ - 1]
                  ELSE [j EXCEPT !.allocated = @ + 1]

Found(k, f, from, ret) == [jb |-> k, frame |-> f, from |-> from, ret |-> ret]

\* No frame was free: what GetFrame finds after recycling.
FindRecycled(recycled) ==
    IF ~CanGetEmptyFrame(recycled.jb)
    THEN Found(recycled.jb, EmptyFrame, "none", "assert")
    ELSE IF ~recycled.key
    THEN Found(recycled.jb, EmptyFrame, "none", "kFlushIndicator")
    ELSE Found(GetEmptyFrame(recycled.jb), EmptyFrame, "none", "kNoError")

GetFrame(j, ts) ==
    IF ts \in DOMAIN j.incomplete
    THEN Found([j EXCEPT !.incomplete = Remove(@, {ts})],
               j.incomplete[ts], "incomplete", "kNoError")
    ELSE IF ts \in DOMAIN j.decodable
    THEN Found([j EXCEPT !.decodable = Remove(@, {ts})],
               j.decodable[ts], "decodable", "kNoError")
    ELSE IF CanGetEmptyFrame(j)
    THEN Found(GetEmptyFrame(j), EmptyFrame, "none", "kNoError")
    ELSE FindRecycled(RecycleFramesUntilKeyFrame(j))

IsContinuousInState(f, st) ==
    \/ DecodeErrorMode = "kWithErrors"
    \/ f.state \in {"Complete", "Decodable"} /\ ContinuousFrame(st, f)

IsContinuous(j, f, ts) ==
    \/ IsContinuousInState(f, j.last)
    \/ \E d \in DOMAIN j.decodable :
          /\ ~IsNewerTimestamp(d, ts)
          /\ IsContinuousInState(f, SetState(j.decodable[d], d))

\* A mutant of FindAndInsertContinuousFrames: nothing is moved.
LeaveIncompleteFrames(j, f, ts) == j

(***************************************************************************)
(* FindAndInsertContinuousFrames walks incomplete_frames_ from the new     *)
(* frame on and moves what continues the last frame moved.  Without        *)
(* temporal layers TemporalId() is 255, so the walk never stops early.     *)
(* Exactly one set of frames satisfies IsWalk.                             *)
(***************************************************************************)
FindAndInsertContinuousFrames(j, f, ts) ==
    LET inc == j.incomplete
        ahead == {t \in DOMAIN inc : ~IsNewerTimestamp(ts, t)}
        Before(S, t) == {u \in S : IsNewerTimestamp(t, u)}
        \* t continues the newest frame of S before it, or the new frame.
        Continues(S, t) ==
            IF Before(S, t) = {} THEN IsContinuousInState(inc[t], SetState(f, ts))
            ELSE \E u \in Before(S, t) :
                    /\ \A v \in Before(S, t) : ~IsNewerTimestamp(v, u)
                    /\ IsContinuousInState(inc[t], SetState(inc[u], u))
        IsWalk(S) == \A t \in ahead : t \in S <=> Continues(S, t)
        moved == UNION {S \in SUBSET ahead : IsWalk(S)}
    IN  [j EXCEPT !.decodable = [t \in DOMAIN @ \cup moved |->
                                   IF t \in DOMAIN @ THEN @[t] ELSE inc[t]],
                  !.incomplete = Remove(@, moved)]

(***************************************************************************)
(* InsertPacket: the state after it and the result.                        *)
(***************************************************************************)
InsertOldPacket(j, p) ==
    LET last == UpdateOldPacket(j.last, p)
        seen == [j EXCEPT !.old = IF p.type = "empty" THEN @ ELSE @ + 1,
                          !.last = last,
                          !.missing = DropPackets(@, last.seq)]
    IN  IF seen.old > kMaxConsecutiveOldPackets
        THEN [jb |-> Flush(seen), ret |-> "kFlushIndicator"]
        ELSE [jb |-> seen, ret |-> "kOldPacket"]

\* A mutant of SignalsFrame: only a frame of a single packet is announced.
SignalsNewFrame(ret, prev, continuous) ==
    ret = "kCompleteSession" /\ prev = "Empty" /\ continuous

\* frame_event_->Set: a frame has become complete and can be decoded.
SignalsFrame(ret, prev, continuous) ==
    /\ ret = "kCompleteSession"
    /\ prev \notin {"Decodable", "Complete"}
    /\ continuous

\* The switch on buffer_state: where the frame of the packet goes.
PlaceFrame(j, f, p, from, prev, ret) ==
    LET ts == p.ts
        continuous == IsContinuous(j, f, ts)
        Free == [j EXCEPT !.free = @ + 1]
        Put(list) ==
            IF list = "decodable"
            THEN [j EXCEPT !.decodable = InsertFrame(@, ts, f)]
            ELSE IF list = "incomplete"
            THEN [j EXCEPT !.incomplete = InsertFrame(@, ts, f)]
            ELSE Free
        Result(k, r) == [jb |-> k, ret |-> r]
    IN  CASE ret \in {"kCompleteSession", "kDecodableSession"} ->
               LET k == [(IF continuous
                          THEN FindAndInsertContinuousFrames(Put("decodable"), f, ts)
                          ELSE Put("incomplete"))
                         EXCEPT !.event = @ \/ SignalsFrame(ret, prev, continuous)]
               IN  Result(k, ret)
          [] ret = "kIncomplete" ->
               IF f.state = "Empty" /\ CanSkipEmptyFrame(j.last, f)
               THEN Result([Free EXCEPT !.last = SkipEmptyFrame(@, f, ts)], "kNoError")
               ELSE Result(Put("incomplete"), ret)
          [] ret = "kDuplicatePacket" -> Result(Put(from), ret)
          [] ret \in {"kSizeError", "kFlushIndicator"} -> Result(Free, ret)

\* The packet p and the frame g that GetFrame has found for it.
InsertIntoFrame(g, p) ==
    LET r == FrameInsertPacket(g.frame, p)
        \* buffer_state > 0: the packet belongs to the stream.
        counted == r.ret # "kSizeError"
        update == UpdateNackList(g.jb, p.seq)
        k == IF ~counted THEN g.jb
             ELSE IF g.jb.fresh
             THEN [g.jb EXCEPT !.latest = p.seq, !.fresh = FALSE]
             ELSE [update.jb EXCEPT !.latest = LatestSequenceNumber(@, p.seq)]
        ret == IF counted /\ ~g.jb.fresh /\ ~update.key /\ p.type # "key"
               THEN "kFlushIndicator" ELSE r.ret
    IN  IF g.ret # "kNoError" THEN [jb |-> g.jb, ret |-> g.ret]
        ELSE PlaceFrame(k, r.frame, p, g.from, g.frame.state, ret)

InsertNewPacket(j, p) ==
    InsertIntoFrame(GetFrame([j EXCEPT !.old = 0], p.ts), p)

InsertPacket(j, p) ==
    IF IsOldTimestamp(j.last, p.ts) THEN InsertOldPacket(j, p)
                                    ELSE InsertNewPacket(j, p)

-----------------------------------------------------------------------------
(***************************************************************************)
(* CleanUpOldOrEmptyFrames, on one list: frames leave from the front while *)
(* they are old, or empty and skippable.  Skipping a frame moves the       *)
(* decoding state, which decides about the frames after it; in the initial *)
(* state it does not move.                                                 *)
(***************************************************************************)
\* A mutant of IsVoid: the last frame of the list can be skipped as well.
IsVoidOrLast(L, t) == L[t].state = "Empty"

IsVoid(L, t) == L[t].state = "Empty" /\ ~IsBack(L, t)

\* The decoding state once the frames S of L, from its front, were skipped.
StateAfterSkipping(L, st, S) ==
    LET newest == {u \in S : \A v \in S : ~IsNewerTimestamp(v, u)}
        u == CHOOSE u \in newest : TRUE
    IN  IF st.initial \/ newest = {} THEN st ELSE SkipEmptyFrame(st, L[u], u)

\* L and the decoding state st when the frames in gone have left.
WithoutFrames(L, st, gone) ==
    [list |-> Remove(L, gone),
     last |-> StateAfterSkipping(L, st, {t \in gone : IsVoid(L, t)})]

CleanUpList(L, st) ==
    LET Older(t) == {u \in DOMAIN L : IsNewerTimestamp(t, u)}
        \* The decoding state when t has come to the front, if it does.
        StateAt(t) == StateAfterSkipping(L, st, {u \in Older(t) : IsVoid(L, u)})
        Removable(t) == IF IsVoid(L, t) THEN CanSkipEmptyFrame(StateAt(t), L[t])
                                        ELSE IsOldTimestamp(StateAt(t), t)
    IN  WithoutFrames(L, st, {t \in DOMAIN L :
            Removable(t) /\ \A u \in Older(t) : Removable(u)})

\* d and i are the two lists after their clean-up, i with the final state.
CleanedUp(j, d, i) ==
    [j EXCEPT !.decodable = d.list,
              !.incomplete = i.list,
              !.free = @ + Dropped(j.decodable, d.list)
                         + Dropped(j.incomplete, i.list),
              !.last = i.last,
              !.missing = IF i.last.initial THEN @
                          ELSE DropPackets(@, i.last.seq)]

CleanUpOldOrEmptyFrames(j) ==
    LET d == CleanUpList(j.decodable, j.last)
    IN  CleanedUp(j, d, CleanUpList(j.incomplete, d.last))

\* The timestamp of the front of decodable_frames_ if that frame is complete.
CompleteFront(j) ==
    {t \in DOMAIN j.decodable :
        IsFront(j.decodable, t) /\ j.decodable[t].state = "Complete"}

\* What NextCompleteTimestamp settles for after its wait: the front of the
\* list, even an incomplete one if a complete key frame is further back.
LastChance(j) ==
    {t \in DOMAIN j.decodable :
        /\ IsFront(j.decodable, t)
        /\ \/ j.decodable[t].state = "Complete"
           \/ \E k \in DOMAIN j.decodable :
                 j.decodable[k].type = "key" /\ j.decodable[k].state = "Complete"}

(***************************************************************************)
(* ExtractAndSetDecode: frames is the empty set for NULL, or holds the     *)
(* frame handed out with its timestamp.  When the frame at ts is not       *)
(* complete, it and the frames up to the next complete key frame are taken *)
(* off the list; none of them is given back to free_frames_.               *)
(***************************************************************************)
ExtractAndSetDecode(j, ts) ==
    LET dec == j.decodable
        keys == {t \in DOMAIN dec : /\ t # ts
                                    /\ IsNewerTimestamp(t, ts)
                                    /\ dec[t].type = "key"
                                    /\ dec[t].state = "Complete"}
        next == {t \in keys : \A u \in keys : ~IsNewerTimestamp(t, u)}
        HandOut(t, left) ==
            LET st == SetState(dec[t], t)
            IN  [jb |-> [j EXCEPT !.decodable = left,
                                  !.last = st,
                                  !.missing = DropPackets(@, st.seq)],
                 frames |-> {[ts |-> t, frame |-> dec[t],
                              continuous |-> ContinuousFrame(j.last, dec[t])]}]
    IN  IF ~j.running \/ ts \notin DOMAIN dec
        THEN [jb |-> j, frames |-> {}]
        ELSE IF dec[ts].state = "Complete"
        THEN HandOut(ts, Remove(dec, {ts}))
        ELSE IF next = {}
        THEN [jb |-> [j EXCEPT !.decodable = EmptyList], frames |-> {}]
        ELSE LET t == CHOOSE t \in next : TRUE
             IN  HandOut(t, Remove(From(dec, t), {t}))

\* A mutant of ReleaseFrame: the frame is forgotten.
ForgetFrame(j) == j

ReleaseFrame(j) == [j EXCEPT !.free = @ + 1]

-----------------------------------------------------------------------------
(***************************************************************************)
(* GetNackList: the state after it, the packets to ask for and whether to  *)
(* ask for a key frame.                                                    *)
(***************************************************************************)
\* NextFrame is a key frame and has its first packet.
FirstFrameIsKey(j) ==
    LET L == IF IsEmpty(j.decodable) THEN j.incomplete ELSE j.decodable
    IN  \E t \in DOMAIN L : /\ IsFront(L, t)
                            /\ L[t].type = "key"
                            /\ HaveFirstPacket(L[t])

HaveNonEmptyFrame(j) ==
    \/ \E t \in DOMAIN j.decodable : j.decodable[t].state # "Empty"
    \/ \E t \in DOMAIN j.incomplete : j.incomplete[t].state # "Empty"

\* NonContinuousOrIncompleteDuration, as a signed difference, is too long.
IncompleteTooLong(j) ==
    /\ MaxIncompleteTime > 0
    /\ \E b \in DOMAIN j.incomplete : \E s \in Timestamp :
          /\ IsBack(j.incomplete, b)
          /\ IF IsEmpty(j.decodable) THEN IsFront(j.incomplete, s)
                                     ELSE IsBack(j.decodable, s)
          /\ Ahead(b, s, TsMod) > MaxIncompleteTime
          /\ Ahead(b, s, TsMod) < TsMod \div 2

\* The newest key frame of incomplete_frames_, as a set of at most one.
LastIncompleteKey(j) ==
    LET keys == {t \in DOMAIN j.incomplete : j.incomplete[t].type = "key"}
    IN  {t \in keys : \A u \in keys : ~IsNewerTimestamp(u, t)}

NackAnswer(k, nack, request) ==
    [jb |-> k, nack |-> nack, request_key_frame |-> request]

\* The end of GetNackList: the limit on the incomplete time, and the list.
AnswerNackList(sized) ==
    LET keys == LastIncompleteKey(sized.jb)
        key == CHOOSE t \in keys : TRUE
        skipped == [sized.jb EXCEPT
                      !.last = InitialDecodingState,
                      !.missing = DropPackets(@,
                        EstimatedLowSequenceNumber(sized.jb.incomplete[key]))]
    IN  IF ~IncompleteTooLong(sized.jb)
        THEN NackAnswer(sized.jb, sized.jb.missing, ~sized.key)
        ELSE IF keys = {} THEN NackAnswer(sized.jb, {}, TRUE)
        ELSE NackAnswer(skipped, skipped.missing, ~sized.key)

GetNackList(j) ==
    LET recycle == j.last.initial /\ ~FirstFrameIsKey(j)
        recycled == IF recycle THEN RecycleFramesUntilKeyFrame(j)
                               ELSE [jb |-> j, key |-> TRUE]
        sized == IF SmallEnough(recycled.jb.missing)
                 THEN [jb |-> recycled.jb, key |-> TRUE]
                 ELSE HandleTooLargeNackList(recycled.jb)
    IN  IF NackMode = "kNoNack" THEN NackAnswer(j, {}, FALSE)
        ELSE IF ~recycled.key
        THEN NackAnswer(recycled.jb, {}, HaveNonEmptyFrame(j))
        ELSE AnswerNackList(sized)
=============================================================================
