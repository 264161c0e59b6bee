--------------------------- MODULE LoopReference ---------------------------
(***************************************************************************)
(* JitterBuffer gives the loops over the frame lists by the frames they    *)
(* remove or move.  Here are the same loops written round by round: each   *)
(* has an operator from the state before a round to the state after it,    *)
(* which changes nothing once the loop has ended, and takes that round as  *)
(* often as the loop can go around at most.                                *)
(***************************************************************************)
EXTENDS VideoReceiver

\* begin() of a list that is not empty.
FrontOf(L) == CHOOSE t \in DOMAIN L : IsFront(L, t)

PopFront(L) == Remove(L, {FrontOf(L)})

\* A round of FrameList::RecycleFramesUntilKeyFrame; stop: a key frame is at
\* the front of the list.
RecycleRound(s) ==
    IF s.stop \/ IsEmpty(s.list) THEN s
    ELSE LET rest == PopFront(s.list)
         IN  [list |-> rest,
              stop |-> ~IsEmpty(rest) /\ rest[FrontOf(rest)].type = "key"]

\* FrameList::RecycleFramesUntilKeyFrame: the list left, empty for end().
RecycleList(L) ==
    LET after[i \in Nat] == IF i = 0 THEN [list |-> L, stop |-> FALSE]
                                     ELSE RecycleRound(after[i - 1])
    IN  after[Cardinality(DOMAIN L)].list

\* VCMJitterBuffer::RecycleFramesUntilKeyFrame.
RecycleOnce(j) ==
    LET i == RecycleList(j.incomplete)
        d == IF IsEmpty(j.incomplete) THEN RecycleList(j.decodable)
                                      ELSE j.decodable
        L == IF IsEmpty(j.incomplete) THEN d ELSE i
        k == [j EXCEPT !.incomplete = i, !.decodable = d,
                       !.free = @ + Dropped(j.incomplete, i)
                                  + Dropped(j.decodable, d)]
    IN  IF ~IsEmpty(L)
        THEN [jb |-> [k EXCEPT !.last = InitialDecodingState,
                               !.missing = DropPackets(@,
                                   EstimatedLowSequenceNumber(L[FrontOf(L)]))],
              key |-> TRUE]
        ELSE IF IsEmpty(d)
        THEN [jb |-> [k EXCEPT !.last = InitialDecodingState, !.missing = {}],
              key |-> FALSE]
        ELSE [jb |-> k, key |-> FALSE]

\* Every round but the one that empties both lists takes a frame.
RoundsAtMost(j) ==
    Cardinality(DOMAIN j.incomplete) + Cardinality(DOMAIN j.decodable) + 1

\* HandleTooLargeNackList.
ShrinkRound(r) == IF SmallEnough(r.jb.missing) THEN r ELSE RecycleOnce(r.jb)

ShrinkLoop(j) ==
    LET after[i \in Nat] == IF i = 0 THEN [jb |-> j, key |-> FALSE]
                                     ELSE ShrinkRound(after[i - 1])
    IN  after[RoundsAtMost(j)]

\* HandleTooOldPackets.
AgeRound(r, seq) == IF YoungEnough(r.jb.missing, seq) THEN r ELSE RecycleOnce(r.jb)

AgeLoop(j, seq) ==
    LET after[i \in Nat] == IF i = 0 THEN [jb |-> j, key |-> FALSE]
                                     ELSE AgeRound(after[i - 1], seq)
    IN  after[RoundsAtMost(j)]

\* A round of FindAndInsertContinuousFrames, for the frame at the front of rest.
WalkRound(s) ==
    IF IsEmpty(s.rest) THEN s
    ELSE LET t == FrontOf(s.rest)
             f == s.rest[t]
         IN  IF IsContinuousInState(f, s.st)
             THEN [jb |-> [s.jb EXCEPT !.decodable = InsertFrame(@, t, f),
                                       !.incomplete = Remove(@, {t})],
                   rest |-> PopFront(s.rest),
                   st |-> SetState(f, t)]
             ELSE [s EXCEPT !.rest = PopFront(@)]

\* FindAndInsertContinuousFrames, from the frame f at ts on.
WalkLoop(j, f, ts) ==
    LET ahead == {t \in DOMAIN j.incomplete : ~IsNewerTimestamp(ts, t)}
        after[i \in Nat] ==
            IF i = 0 THEN [jb |-> j, rest |-> Restrict(j.incomplete, ahead),
                           st |-> SetState(f, ts)]
            ELSE WalkRound(after[i - 1])
    IN  after[Cardinality(ahead)].jb

\* A round of FrameList::CleanUpOldOrEmptyFrames.
CleanUpRound(s) ==
    IF IsEmpty(s.list) THEN s
    ELSE LET t == FrontOf(s.list)
             f == s.list[t]
         IN  IF f.state = "Empty" /\ Cardinality(DOMAIN s.list) > 1
             THEN IF CanSkipEmptyFrame(s.last, f)
                  THEN [list |-> PopFront(s.list),
                        last |-> SkipEmptyFrame(s.last, f, t)]
                  ELSE s
             ELSE IF IsOldTimestamp(s.last, t)
             THEN [s EXCEPT !.list = PopFront(@)]
             ELSE s

\* FrameList::CleanUpOldOrEmptyFrames.
CleanUpLoop(L, st) ==
    LET after[i \in Nat] == IF i = 0 THEN [list |-> L, last |-> st]
                                     ELSE CleanUpRound(after[i - 1])
    IN  after[Cardinality(DOMAIN L)]

\* RecycleUntil computes what the recycling loops of RecycleFramesUntilKeyFrame,
\* HandleTooLargeNackList and HandleTooOldPackets do, for the NACK lists that
\* UpdateNackList can build.
RecycleAgrees ==
    /\ RecycleFramesUntilKeyFrame(jb) = RecycleOnce(jb)
    /\ \A p \in {p \in Packets : IsNewerSequenceNumber(p.seq, jb.latest)} :
         LET grown == [jb EXCEPT !.missing = @ \cup SeqBetween(jb.latest, p.seq)]
         IN  /\ ~SmallEnough(grown.missing) =>
                   HandleTooLargeNackList(grown) = ShrinkLoop(grown)
             /\ ~YoungEnough(grown.missing, p.seq) =>
                   HandleTooOldPackets(grown, p.seq) = AgeLoop(grown, p.seq)

\* FindAndInsertContinuousFrames moves the frames its walk moves, whichever
\* decodable frame it starts from.
WalkAgrees ==
    \A t \in DOMAIN jb.decodable :
        LET f == jb.decodable[t]
        IN  FindAndInsertContinuousFrames(jb, f, t) = WalkLoop(jb, f, t)

\* CleanUpList removes the frames that CleanUpOldOrEmptyFrames pops one by one,
\* and leaves the same decoding state.
CleanUpAgrees ==
    \A L \in {jb.decodable, jb.incomplete} :
        CleanUpList(L, jb.last) = CleanUpLoop(L, jb.last)
=============================================================================
