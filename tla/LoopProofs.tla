----------------------------- MODULE LoopProofs -----------------------------
(***************************************************************************)
(* JitterBuffer gives the loops over the frame lists by the frames they    *)
(* remove or move.  Here it is proved that these are the frames that the   *)
(* loops of LoopReference, which go round by round, remove or move.        *)
(***************************************************************************)
EXTENDS StreamProofs, LoopReference

-----------------------------------------------------------------------------
(***************************************************************************)
(* Loops that come nearer to their end in every round.                     *)
(***************************************************************************)
\* The rounds h lower the measure m unless they change nothing.
Lowers(h, m, S) == \A x \in S : h[x] = x \/ m[h[x]] < m[x]

\* The states p of a loop from a on, with the rounds h, that has ended after N.
RunsTo(p, a, h, N) ==
    p[0] = a /\ (\A n \in Nat : p[n + 1] = h[p[n]]) /\ h[p[N]] = p[N]

\* A loop has ended after N rounds if its measure does not exceed N.
LEMMA LoopEnds ==
    ASSUME NEW S, NEW a \in S, NEW h \in [S -> S], NEW m \in [S -> Nat],
           Lowers(h, m, S), NEW N \in Nat, m[a] <= N
    PROVE  \E p \in [Nat -> S] : RunsTo(p, a, h, N)
<1> DEFINE hh == [n \in Nat |-> h]
<1>1. PICK p \in [Nat -> S] : LF!Iterates(p, a, hh)
  <2>1. hh \in [Nat -> [S -> S]]
    OBVIOUS
  <2> HIDE DEF hh
  <2> QED BY <2>1, LF!RecursionExists
<1>2. p[0] = a /\ \A n \in Nat : p[n + 1] = h[p[n]]
  BY <1>1 DEF LF!Iterates
<1> DEFINE A == {n \in Nat : h[p[n]] = p[n] \/ m[p[n]] + n <= N}
<1>3. 0 \in A
  BY <1>2
<1>4. ASSUME NEW n \in Nat, n \in A PROVE n + 1 \in A
  <2>1. p[n] \in S /\ p[n + 1] \in S /\ p[n + 1] = h[p[n]]
    BY <1>2
  <2>2. CASE h[p[n]] = p[n]
    BY <2>1, <2>2
  <2>3. CASE h[p[n]] # p[n]
    <3>1. m[p[n]] + n <= N /\ m[p[n + 1]] < m[p[n]]
      BY <1>4, <2>1, <2>3 DEF Lowers
    <3>2. m[p[n]] \in Nat /\ m[p[n + 1]] \in Nat
      BY <2>1
    <3>3. m[p[n + 1]] + (n + 1) <= N
      BY <3>1, <3>2
    <3> QED BY <3>3
  <2> QED BY <2>2, <2>3
<1>5. Nat \subseteq A
  <2> HIDE DEF A
  <2> QED BY <1>3, <1>4, LF!SetInduction
<1>6. h[p[N]] = p[N]
  <2>1. h[p[N]] = p[N] \/ m[p[N]] + N <= N
    BY <1>5
  <2>2. p[N] \in S /\ h[p[N]] \in S /\ m[p[N]] \in Nat /\ m[h[p[N]]] \in Nat
    OBVIOUS
  <2>3. h[p[N]] = p[N] \/ m[h[p[N]]] < m[p[N]]
    BY <2>2 DEF Lowers
  <2> QED BY <2>1, <2>2, <2>3
<1> QED BY <1>2, <1>6 DEF RunsTo

\* Rounds that never give back what they have taken end after as many rounds
\* as there is to take.
LEMMA TakingLoopEnds ==
    ASSUME NEW D, IsFiniteSet(D), NEW S, S \subseteq SUBSET D, {} \in S,
           NEW h \in [S -> S], \A P \in S : P \subseteq h[P]
    PROVE  \E p \in [Nat -> S] :
              /\ p[0] = {}
              /\ \A n \in Nat : p[n + 1] = h[p[n]]
              /\ h[p[Cardinality(D)]] = p[Cardinality(D)]
<1> DEFINE N == Cardinality(D)
           m == [P \in S |-> N - Cardinality(P)]
<1>1. \A P \in S : /\ IsFiniteSet(P) /\ Cardinality(P) \in Nat
                   /\ Cardinality(P) <= Cardinality(D)
  BY FS_Subset, FS_CardinalityType
<1>2. N \in Nat
  BY FS_CardinalityType
<1>3. m \in [S -> Nat]
  BY <1>1, <1>2
<1>4. ASSUME NEW P \in S, h[P] # P PROVE m[h[P]] < m[P]
  <2> DEFINE Q == h[P]
  <2>1. Q \in S /\ P \subseteq Q /\ P # Q /\ IsFiniteSet(Q)
    BY <1>1, <1>4
  <2> HIDE DEF Q
  <2>2. Cardinality(P) <= Cardinality(Q) /\ Cardinality(P) # Cardinality(Q)
    BY <2>1, FS_Subset
  <2>3. Cardinality(P) \in Nat /\ Cardinality(Q) \in Nat
    BY <1>1, <2>1
  <2>4. m[P] = N - Cardinality(P) /\ m[Q] = N - Cardinality(Q)
    BY <2>1
  <2>5. m[Q] < m[P]
    BY <1>2, <2>2, <2>3, <2>4
  <2> QED BY <2>5 DEF Q
<1> DEFINE a == {}
<1>5. m[a] <= N /\ a \in S
  BY <1>1, <1>2
<1> HIDE DEF m, N, a
<1>6. Lowers(h, m, S)
  BY <1>4 DEF Lowers
<1>7. \E p \in [Nat -> S] : RunsTo(p, a, h, N)
  BY <1>2, <1>3, <1>5, <1>6, LoopEnds
<1> QED BY <1>7 DEF N, a, RunsTo

\* The lists of frames of the stream.
TimedList == {L \in FrameList : DOMAIN L \subseteq Times}

\* Their frames are finitely many.
LEMMA TimedListFinite ==
    ASSUME NEW L \in TimedList, NEW S, S \subseteq DOMAIN L
    PROVE  /\ L \in FrameList /\ DOMAIN L \subseteq Times
           /\ DOMAIN L \subseteq Timestamp
           /\ IsFiniteSet(S) /\ Cardinality(S) \in Nat
<1>1. L \in FrameList /\ DOMAIN L \subseteq Times
  BY DEF TimedList
<1>2. DOMAIN L \subseteq Timestamp
  BY <1>1 DEF FrameList
<1>3. IsFiniteSet(Timestamp)
  BY ModAssumption, FS_Interval DEF Timestamp
<1>4. IsFiniteSet(S)
  BY <1>2, <1>3, FS_Subset
<1> QED BY <1>1, <1>2, <1>4, FS_CardinalityType

\* A list of frames that is not empty has one front, which the loops find.
LEMMA FrontOfList ==
    ASSUME ShortTimes, NEW L \in TimedList, ~IsEmpty(L)
    PROVE  /\ FrontOf(L) \in DOMAIN L /\ IsFront(L, FrontOf(L))
           /\ \A t \in DOMAIN L : t # FrontOf(L) => IsNewerTimestamp(t, FrontOf(L))
           /\ \A t \in DOMAIN L : IsFront(L, t) => t = FrontOf(L)
<1>1. L \in FrameList /\ DOMAIN L \subseteq Times
  BY DEF TimedList
<1>2. \E t \in DOMAIN L : IsFront(L, t)
  BY <1>1, OldestExists DEF IsEmpty, IsFront
<1>3. FrontOf(L) \in DOMAIN L /\ IsFront(L, FrontOf(L))
  BY <1>2 DEF FrontOf
<1>4. ASSUME NEW t \in DOMAIN L, t # FrontOf(L) PROVE IsNewerTimestamp(t, FrontOf(L))
  BY <1>1, <1>3, <1>4, TimesOrdered DEF IsFront
<1>5. ASSUME NEW t \in DOMAIN L, IsFront(L, t) PROVE t = FrontOf(L)
  BY <1>3, <1>4, <1>5 DEF IsFront
<1> QED BY <1>3, <1>4, <1>5

\* The frames that have left a list from its front.
Prefix(L, P) ==
    /\ P \subseteq DOMAIN L
    /\ \A t \in P : \A u \in DOMAIN L : IsNewerTimestamp(t, u) => u \in P

\* What is left of a list, and its front.
LEMMA RestOfList ==
    ASSUME ShortTimes, NEW L \in TimedList, NEW P, Prefix(L, P)
    PROVE  LET rest == Remove(L, P)
               t == FrontOf(rest)
           IN  /\ rest \in TimedList /\ DOMAIN rest = DOMAIN L \ P
               /\ \A u \in DOMAIN rest : rest[u] = L[u]
               /\ IsEmpty(rest) <=> P = DOMAIN L
               /\ ~IsEmpty(rest) =>
                    /\ t \in DOMAIN L /\ t \notin P /\ rest[t] = L[t]
                    /\ {u \in DOMAIN L : IsNewerTimestamp(t, u)} = P
                    /\ Prefix(L, P \cup {t})
                    /\ PopFront(rest) = Remove(L, P \cup {t})
                    /\ \A u \in DOMAIN L \ P : u = t \/ IsNewerTimestamp(u, t)
<1> DEFINE rest == Remove(L, P)
           t == FrontOf(rest)
<1>1. L \in FrameList /\ DOMAIN L \subseteq Times /\ P \subseteq DOMAIN L
  BY DEF TimedList, Prefix
<1>2. rest \in FrameList /\ DOMAIN rest = DOMAIN L \ P /\ \A u \in DOMAIN rest : rest[u] = L[u]
  BY <1>1, RemoveType DEF Sublist
<1>3. rest \in TimedList
  BY <1>1, <1>2 DEF TimedList
<1>4. IsEmpty(rest) <=> P = DOMAIN L
  BY <1>1, <1>2 DEF IsEmpty
<1> HIDE DEF rest
<1>5. ASSUME ~IsEmpty(rest)
      PROVE  /\ t \in DOMAIN L /\ t \notin P /\ rest[t] = L[t]
             /\ {u \in DOMAIN L : IsNewerTimestamp(t, u)} = P
             /\ Prefix(L, P \cup {t})
             /\ PopFront(rest) = Remove(L, P \cup {t})
             /\ \A u \in DOMAIN L \ P : u = t \/ IsNewerTimestamp(u, t)
  <2>1. /\ t \in DOMAIN rest
        /\ \A u \in DOMAIN rest : u # t => IsNewerTimestamp(u, t)
    BY <1>3, <1>5, FrontOfList
  <2>2. t \in DOMAIN L /\ t \notin P /\ rest[t] = L[t]
    BY <1>2, <2>1
  <2>3. PopFront(rest) = Remove(rest, {t})
    BY DEF PopFront
  <2> HIDE DEF t
  <2>4. ASSUME NEW u \in DOMAIN L PROVE IsNewerTimestamp(t, u) <=> u \in P
    <3>1. CASE u \in P
      <4>1. ~IsNewerTimestamp(u, t)
        BY <2>2, <3>1 DEF Prefix
      <4>2. u # t
        BY <2>2, <3>1
      <4> QED BY <1>1, <2>2, <3>1, <4>1, <4>2, TimesOrdered
    <3>2. CASE u \notin P
      <4>1. u \in DOMAIN rest
        BY <1>2, <3>2
      <4>2. u = t \/ IsNewerTimestamp(u, t)
        BY <2>1, <4>1
      <4> QED BY <1>1, <2>2, <3>2, <4>2, TimesOrdered
    <3> QED BY <3>1, <3>2
  <2>5. Prefix(L, P \cup {t})
    BY <2>2, <2>4 DEF Prefix
  <2>6. PopFront(rest) = Remove(L, P \cup {t})
    <3>1. (DOMAIN L \ P) \ {t} = DOMAIN L \ (P \cup {t})
      OBVIOUS
    <3>2. Remove(rest, {t}) = [x \in DOMAIN L \ (P \cup {t}) |-> L[x]]
      BY <1>2, <3>1 DEF Remove, Restrict
    <3>3. Remove(L, P \cup {t}) = [x \in DOMAIN L \ (P \cup {t}) |-> L[x]]
      BY DEF Remove, Restrict
    <3> QED BY <2>3, <3>2, <3>3
  <2>7. {u \in DOMAIN L : IsNewerTimestamp(t, u)} = P
    BY <1>1, <2>4
  <2> QED BY <1>2, <2>1, <2>2, <2>5, <2>6, <2>7
<1> QED BY <1>2, <1>3, <1>4, <1>5 DEF rest

-----------------------------------------------------------------------------
(***************************************************************************)
(* CleanUpOldOrEmptyFrames.                                                *)
(***************************************************************************)
\* The decoding state after some frames were skipped.
LEMMA SkippedState ==
    ASSUME NEW L \in TimedList, NEW st \in DecodingState, NEW S, S \subseteq DOMAIN L
    PROVE  /\ StateAfterSkipping(L, st, S) \in DecodingState
           /\ StateAfterSkipping(L, st, S).initial = st.initial
           /\ st.initial => StateAfterSkipping(L, st, S) = st
<1> DEFINE newest == {u \in S : \A v \in S : ~IsNewerTimestamp(v, u)}
           u == CHOOSE u \in newest : TRUE
<1>1. StateAfterSkipping(L, st, S) = IF st.initial \/ newest = {} THEN st
                                     ELSE SkipEmptyFrame(st, L[u], u)
  BY DEF StateAfterSkipping
<1>2. newest # {} => u \in newest
  OBVIOUS
<1>3. newest \subseteq DOMAIN L /\ L \in FrameList /\ DOMAIN L \subseteq Timestamp
  BY TimedListFinite
<1> HIDE DEF newest, u
<1>4. CASE st.initial \/ newest = {}
  BY <1>1, <1>4
<1>5. CASE ~st.initial /\ newest # {}
  <2>1. u \in DOMAIN L /\ u \in Timestamp /\ L[u] \in FilledFrame
    BY <1>2, <1>3, <1>5 DEF FrameList
  <2>2. HighSequenceNumber(L[u]) \in SeqNum
    BY <2>1, FilledFrameTypes
  <2>3. SkipEmptyFrame(st, L[u], u)
          = [st EXCEPT !.seq = HighSequenceNumber(L[u]), !.ts = u]
    BY <1>5 DEF SkipEmptyFrame
  <2> HIDE DEF HighSequenceNumber
  <2> QED BY <1>1, <1>5, <2>1, <2>2, <2>3 DEF DecodingState
<1> QED BY <1>4, <1>5

\* The last frame skipped decides.
LEMMA SkippedOneMore ==
    ASSUME NEW L, NEW st, NEW S, NEW t, ~IsNewerTimestamp(t, t),
           \A u \in S : IsNewerTimestamp(t, u) /\ ~IsNewerTimestamp(u, t)
    PROVE  StateAfterSkipping(L, st, S \cup {t})
             = IF st.initial THEN st ELSE SkipEmptyFrame(st, L[t], t)
<1> DEFINE T == S \cup {t}
           newest == {u \in T : \A v \in T : ~IsNewerTimestamp(v, u)}
           u == CHOOSE u \in newest : TRUE
<1>1. StateAfterSkipping(L, st, S \cup {t}) = IF st.initial \/ newest = {} THEN st
                                              ELSE SkipEmptyFrame(st, L[u], u)
  BY DEF StateAfterSkipping
<1>2. newest = {t}
  OBVIOUS
<1>3. u = t
  <2> HIDE DEF newest
  <2> QED BY <1>2
<1> HIDE DEF newest, u
<1> QED BY <1>1, <1>2, <1>3

\* One frame is left in a list exactly if its front is its back.
LEMMA LastFrameLeft ==
    ASSUME ShortTimes, NEW L \in TimedList, NEW P, Prefix(L, P), P # DOMAIN L
    PROVE  LET rest == Remove(L, P)
               t == FrontOf(rest)
           IN  Cardinality(DOMAIN rest) > 1 <=> ~IsBack(L, t)
<1> DEFINE rest == Remove(L, P)
           t == FrontOf(rest)
           D == DOMAIN rest
<1>1. /\ D = DOMAIN L \ P /\ t \in DOMAIN L /\ t \notin P
      /\ {u \in DOMAIN L : IsNewerTimestamp(t, u)} = P
      /\ \A u \in DOMAIN L \ P : u = t \/ IsNewerTimestamp(u, t)
  BY RestOfList
<1>2. IsFiniteSet(D) /\ Cardinality(D) \in Nat
  <2>1. D \subseteq DOMAIN L
    BY <1>1
  <2> HIDE DEF D
  <2> QED BY <2>1, TimedListFinite
<1>3. DOMAIN L \subseteq Times
  BY DEF TimedList
<1> HIDE DEF D, rest, t
<1>4. ~IsBack(L, t) <=> D # {t}
  <2>1. ASSUME NEW u \in P PROVE ~IsNewerTimestamp(u, t)
    BY <1>1, <1>3, <2>1, TimesOrdered
  <2>2. ASSUME NEW u \in D, u # t PROVE IsNewerTimestamp(u, t)
    BY <1>1, <2>2
  <2>3. ~IsNewerTimestamp(t, t)
    BY <1>1, <1>3, TimesOrdered
  <2> QED BY <1>1, <2>1, <2>2, <2>3 DEF IsBack
<1>5. {t} \subseteq D /\ Cardinality({t}) = 1
  BY <1>1, FS_Singleton
<1>6. 1 <= Cardinality(D) /\ (Cardinality(D) = 1 => D = {t})
  BY <1>2, <1>5, FS_Subset
<1>7. D = {t} => Cardinality(D) = 1
  BY <1>5
<1>8. Cardinality(D) > 1 <=> D # {t}
  BY <1>2, <1>6, <1>7
<1> QED BY <1>4, <1>8 DEF D, rest, t

\* CleanUpList removes what the rounds of CleanUpOldOrEmptyFrames remove: a
\* frame is at the front when the older ones have left, and the decoding state
\* is then the one that the skipped ones among them leave behind.
LEMMA CleanUpListLoops ==
    ASSUME ShortTimes, NEW L \in TimedList, NEW st \in DecodingState,
           \A t \in DOMAIN L : L[t].state = "Empty" => L[t].type = "delta"
    PROVE  CleanUpList(L, st) = CleanUpLoop(L, st)
<1> DEFINE Older(t) == {u \in DOMAIN L : IsNewerTimestamp(t, u)}
           Void(S) == {u \in S : IsVoid(L, u)}
           StateAt(t) == StateAfterSkipping(L, st, Void(Older(t)))
           Removable(t) == IF IsVoid(L, t) THEN CanSkipEmptyFrame(StateAt(t), L[t])
                                           ELSE IsOldTimestamp(StateAt(t), t)
           gone == {t \in DOMAIN L :
                      Removable(t) /\ \A u \in Older(t) : Removable(u)}
           W(P) == WithoutFrames(L, st, P)
           S == {P \in SUBSET DOMAIN L : P \subseteq gone /\ Prefix(L, P)}
           Front(P) == FrontOf(Remove(L, P))
           h == [P \in S |-> IF P = gone THEN P ELSE P \cup {Front(P)}]
<1>0. CleanUpList(L, st) = W(gone)
  BY DEF CleanUpList
<1>1. /\ L \in FrameList /\ DOMAIN L \subseteq Times /\ IsFiniteSet(DOMAIN L)
  BY TimedListFinite
<1>2. Prefix(L, gone)
  <2>1. ASSUME NEW t \in gone, NEW u \in DOMAIN L, IsNewerTimestamp(t, u)
        PROVE  u \in gone
    <3>1. \A v \in Older(u) : v \in Older(t)
      BY <1>1, <2>1, TimesOrdered
    <3>2. t \in DOMAIN L /\ u \in Older(t) /\ \A v \in Older(t) : Removable(v)
      BY <2>1
    <3> HIDE DEF Older, Removable
    <3> QED BY <3>1, <3>2
  <2>2. gone \subseteq DOMAIN L
    OBVIOUS
  <2> HIDE DEF gone
  <2> QED BY <2>1, <2>2 DEF Prefix
<1>3. ASSUME NEW t \in DOMAIN L, Older(t) \subseteq gone
      PROVE  t \in gone <=> Removable(t)
  <2> HIDE DEF Removable, Older
  <2> QED BY <1>3
<1> DEFINE Last(P) == StateAfterSkipping(L, st, Void(P))
<1>4. \A P : W(P) = [list |-> Remove(L, P), last |-> Last(P)]
  BY DEF WithoutFrames
<1> HIDE DEF gone, W
<1>5. ASSUME NEW P \in S, P # gone
      PROVE  /\ P # DOMAIN L /\ Front(P) \in gone /\ Front(P) \notin P
             /\ P \cup {Front(P)} \in S
  <2>1. P \subseteq gone /\ Prefix(L, P) /\ gone \subseteq DOMAIN L
    BY <1>2 DEF Prefix
  <2>2. P # DOMAIN L
    BY <1>5, <2>1
  <2>3. PICK g \in gone : g \notin P
    BY <1>5, <2>1
  <2>4. /\ Front(P) \in DOMAIN L /\ Front(P) \notin P /\ Prefix(L, P \cup {Front(P)})
        /\ g = Front(P) \/ IsNewerTimestamp(g, Front(P))
    BY <2>1, <2>2, <2>3, RestOfList
  <2>5. Front(P) \in gone
    BY <1>2, <2>3, <2>4 DEF Prefix
  <2> QED BY <2>1, <2>2, <2>4, <2>5
<1>6. {} \in S /\ h \in [S -> S] /\ \A P \in S : P \subseteq h[P]
  <2>1. {} \in S
    BY DEF Prefix
  <2>2. ASSUME NEW P \in S PROVE h[P] \in S /\ P \subseteq h[P]
    BY <1>5
  <2> QED BY <2>1, <2>2
<1>7. ASSUME NEW P \in S PROVE CleanUpRound(W(P)) = W(h[P])
  <2> DEFINE rest == Remove(L, P)
             t == FrontOf(rest)
  <2>1. P \subseteq gone /\ Prefix(L, P) /\ gone \subseteq DOMAIN L
    BY <1>2 DEF Prefix
  <2>2. W(P).list = rest /\ W(P).last = Last(P)
    BY <1>4
  <2>3. h[P] = IF P = gone THEN P ELSE P \cup {t}
    OBVIOUS
  <2>4. CASE P = DOMAIN L
    <3>1. h[P] = P
      BY <2>1, <2>3, <2>4
    <3>2. IsEmpty(rest)
      <4> HIDE DEF h, S
      <4> QED BY <2>1, <2>4, RestOfList
    <3> QED BY <2>2, <3>1, <3>2 DEF CleanUpRound
  <2>5. CASE P # DOMAIN L
    <3>1. /\ ~IsEmpty(rest) /\ t \in DOMAIN L /\ t \notin P /\ rest[t] = L[t]
          /\ Older(t) = P /\ PopFront(rest) = Remove(L, P \cup {t})
      <4> HIDE DEF h, S
      <4> QED BY <2>1, <2>5, RestOfList, ZenonT(60)
    <3>2. (L[t].state = "Empty" /\ Cardinality(DOMAIN rest) > 1) <=> IsVoid(L, t)
      BY <2>1, <2>5, LastFrameLeft DEF IsVoid
    <3>3. StateAt(t) = Last(P)
      BY <3>1
    <3>4. Removable(t) <=> IF IsVoid(L, t) THEN CanSkipEmptyFrame(Last(P), L[t])
                                           ELSE IsOldTimestamp(Last(P), t)
      BY <3>3
    <3>5. t \in gone <=> Removable(t)
      BY <1>3, <2>1, <3>1
    <3>6. P # gone <=> t \in gone
      BY <1>5, <3>1
    <3>7. Last(P) \in DecodingState /\ Last(P).initial = st.initial
          /\ (st.initial => Last(P) = st)
      BY <2>1, SkippedState
    <3>8. ASSUME IsVoid(L, t), Removable(t)
          PROVE  Last(P \cup {t}) = SkipEmptyFrame(Last(P), L[t], t)
      <4>1. Void(P \cup {t}) = Void(P) \cup {t}
        BY <3>8
      <4>2. \A u \in Void(P) : IsNewerTimestamp(t, u) /\ ~IsNewerTimestamp(u, t)
        BY <1>1, <3>1, TimesOrdered
      <4>3. ~IsNewerTimestamp(t, t)
        BY <1>1, <3>1, TimesOrdered
      <4>4. Last(P \cup {t}) = IF st.initial THEN st ELSE SkipEmptyFrame(st, L[t], t)
        <5> DEFINE V == Void(P)
        <5>1. Last(P \cup {t}) = StateAfterSkipping(L, st, V \cup {t})
          BY <4>1
        <5>2. \A u \in V : IsNewerTimestamp(t, u) /\ ~IsNewerTimestamp(u, t)
          BY <4>2
        <5> HIDE DEF V, t, Last
        <5>3. StateAfterSkipping(L, st, V \cup {t})
                = IF st.initial THEN st ELSE SkipEmptyFrame(st, L[t], t)
          BY ONLY <4>3, <5>2, SkippedOneMore
        <5> QED BY <5>1, <5>3
      <4>5. CanSkipEmptyFrame(Last(P), L[t])
        BY <3>4, <3>8
      <4>6. L[t].type = "delta"
        BY <3>1, <3>8 DEF IsVoid
      <4>7. CASE st.initial
        <5>1. HighSequenceNumber(L[t]) = LowSequenceNumber(L[t])
          BY <3>7, <4>5, <4>6, <4>7 DEF CanSkipEmptyFrame, ContinuousFrame
        <5>2. SkipEmptyFrame(st, L[t], t) = st
          BY <4>7, <5>1 DEF SkipEmptyFrame
        <5> QED BY <3>7, <4>4, <4>7, <5>2
      <4>8. CASE ~st.initial
        <5> DEFINE l == Last(P)
                   n == HighSequenceNumber(L[t])
        <5>1. l \in DecodingState /\ ~l.initial
          BY <3>7, <4>8
        <5>2. SkipEmptyFrame(st, L[t], t) = [st EXCEPT !.seq = n, !.ts = t]
          BY <4>8 DEF SkipEmptyFrame
        <5>3. SkipEmptyFrame(l, L[t], t) = [l EXCEPT !.seq = n, !.ts = t]
          BY <5>1 DEF SkipEmptyFrame
        <5> HIDE DEF l, n
        <5>4. [st EXCEPT !.seq = n, !.ts = t] = [l EXCEPT !.seq = n, !.ts = t]
          BY <4>8, <5>1 DEF DecodingState
        <5> QED BY <4>4, <4>8, <5>2, <5>3, <5>4 DEF l
      <4> QED BY <4>7, <4>8
    <3>9. ASSUME ~IsVoid(L, t) PROVE Last(P \cup {t}) = Last(P)
      <4>1. Void(P \cup {t}) = Void(P)
        BY <3>9
      <4> QED BY <4>1
    <3> DEFINE s == W(P)
               f == s.list[t]
    <3>10. CleanUpRound(s) =
             IF f.state = "Empty" /\ Cardinality(DOMAIN s.list) > 1
             THEN IF CanSkipEmptyFrame(s.last, f)
                  THEN [list |-> PopFront(s.list),
                        last |-> SkipEmptyFrame(s.last, f, t)]
                  ELSE s
             ELSE IF IsOldTimestamp(s.last, t)
             THEN [s EXCEPT !.list = PopFront(@)]
             ELSE s
      BY <2>2, <3>1 DEF CleanUpRound
    <3>11. s.list = rest /\ s.last = Last(P) /\ f = L[t]
      BY <2>2, <3>1
    <3>12. [s EXCEPT !.list = PopFront(@)] = [list |-> PopFront(rest), last |-> Last(P)]
      BY <1>4, <2>2
    <3>13. W(P \cup {t}) = [list |-> PopFront(rest), last |-> Last(P \cup {t})]
      BY <1>4, <3>1
    <3> HIDE DEF s, f, Last, rest, t, Removable, h
    <3> QED
      BY <2>3, <3>2, <3>4, <3>5, <3>6, <3>8, <3>9, <3>10, <3>11, <3>12, <3>13 DEF s
  <2> QED BY <2>4, <2>5
<1> HIDE DEF h, S
<1>8. S \subseteq SUBSET DOMAIN L
  BY DEF S
<1> DEFINE N == Cardinality(DOMAIN L)
<1>9. PICK p \in [Nat -> S] :
         p[0] = {} /\ (\A n \in Nat : p[n + 1] = h[p[n]]) /\ h[p[N]] = p[N]
  BY <1>1, <1>6, <1>8, TakingLoopEnds, SMTT(40)
<1>10. N \in Nat
  BY <1>1, FS_CardinalityType
<1>11. p[N] = gone
  <2>1. p[N] \in S /\ h[p[N]] = p[N]
    BY <1>9, <1>10
  <2>2. ASSUME p[N] # gone PROVE FALSE
    <3>1. h[p[N]] = p[N] \cup {Front(p[N])}
      BY <2>1, <2>2 DEF h
    <3> QED BY <1>5, <2>1, <2>2, <3>1
  <2> QED BY <2>2
<1> DEFINE Is(g) == g = [i \in Nat |-> IF i = 0 THEN [list |-> L, last |-> st]
                                       ELSE CleanUpRound(g[i - 1])]
           after == CHOOSE g : Is(g)
<1>12. CleanUpLoop(L, st) = after[N]
  BY DEF CleanUpLoop
<1>13. W({}) = [list |-> L, last |-> st]
  <2>1. Remove(L, {}) = L
    BY <1>1 DEF Remove, Restrict, FrameList
  <2>2. Void({}) = {} /\ Last({}) = st
    BY DEF StateAfterSkipping
  <2> QED BY <1>4, <2>1, <2>2
<1>14. Is([i \in Nat |-> W(p[i])])
  <2> DEFINE g == [i \in Nat |-> W(p[i])]
  <2>1. ASSUME NEW i \in Nat
        PROVE  g[i] = IF i = 0 THEN [list |-> L, last |-> st] ELSE CleanUpRound(g[i - 1])
    <3>1. CASE i = 0
      BY <1>9, <1>13, <3>1
    <3>2. CASE i # 0
      <4>1. i - 1 \in Nat /\ i - 1 + 1 = i
        BY <3>2
      <4>2. p[i - 1] \in S /\ p[i] = h[p[i - 1]]
        BY <1>9, <4>1
      <4> QED BY <1>7, <3>2, <4>1, <4>2
    <3> QED BY <3>1, <3>2
  <2> QED BY <2>1
<1>15. Is(after)
  <2> HIDE DEF Is
  <2> QED BY <1>14
<1> DEFINE A == {n \in Nat : after[n] = W(p[n])}
<1>16. Nat \subseteq A
  <2>1. 0 \in A
    BY <1>9, <1>13, <1>15
  <2>2. ASSUME NEW n \in Nat, n \in A PROVE n + 1 \in A
    <3>1. after[n + 1] = CleanUpRound(after[n])
      <4>1. n + 1 \in Nat /\ n + 1 # 0 /\ (n + 1) - 1 = n
        OBVIOUS
      <4> QED BY <1>15, <4>1
    <3>2. after[n] = W(p[n]) /\ p[n] \in S /\ p[n + 1] = h[p[n]]
      BY <1>9, <2>2
    <3> QED BY <1>7, <3>1, <3>2
  <2> HIDE DEF A
  <2> QED BY <2>1, <2>2, LF!SetInduction
<1> QED BY <1>0, <1>10, <1>11, <1>12, <1>16

-----------------------------------------------------------------------------
(***************************************************************************)
(* FindAndInsertContinuousFrames.                                          *)
(***************************************************************************)
\* The decoding state after the walk from the frame f at ts has moved S.
WalkState(inc, f, ts, S) ==
    IF S = {} THEN SetState(f, ts)
    ELSE LET u == CHOOSE u \in S : \A v \in S : ~IsNewerTimestamp(v, u)
         IN  SetState(inc[u], u)

\* It is the one that decides whether the walk goes on with the frame at t.
LEMMA WalkContinuesState ==
    ASSUME ShortTimes, NEW inc, NEW f, NEW ts, NEW S, S \subseteq Times, NEW t
    PROVE  WalkContinues(inc, f, ts, S, t)
             <=> IsContinuousInState(inc[t], WalkState(inc, f, ts, OlderIn(S, t)))
<1> DEFINE O == OlderIn(S, t)
           u == CHOOSE u \in O : \A v \in O : ~IsNewerTimestamp(v, u)
<1>1. O \subseteq Times
  BY DEF OlderIn
<1> HIDE DEF O
<1>2. CASE O = {}
  BY <1>2 DEF O, WalkContinues, WalkState
<1>3. CASE O # {}
  <2>1. \E w \in O : \A v \in O : ~IsNewerTimestamp(v, w)
    BY <1>1, <1>3, NewestExists
  <2>2. u \in O /\ \A v \in O : ~IsNewerTimestamp(v, u)
    BY <2>1
  <2>3. WalkState(inc, f, ts, O) = SetState(inc[u], u)
    BY <1>3 DEF WalkState
  <2> HIDE DEF u
  <2>4. ASSUME NEW w \in O, \A v \in O : ~IsNewerTimestamp(v, w) PROVE w = u
    BY <1>1, <2>2, <2>4, TimesOrdered
  <2>5. WalkContinues(inc, f, ts, S, t)
          <=> \E w \in O : /\ \A v \in O : ~IsNewerTimestamp(v, w)
                           /\ IsContinuousInState(inc[t], SetState(inc[w], w))
    BY <1>3 DEF WalkContinues, O
  <2> QED BY <2>2, <2>3, <2>4, <2>5 DEF O
<1> QED BY <1>2, <1>3

\* The last frame moved decides.
LEMMA WalkStateOneMore ==
    ASSUME NEW inc, NEW f, NEW ts, NEW T, NEW t \in T, ~IsNewerTimestamp(t, t),
           \A u \in T : u = t \/ (IsNewerTimestamp(t, u) /\ ~IsNewerTimestamp(u, t))
    PROVE  WalkState(inc, f, ts, T) = SetState(inc[t], t)
<1> DEFINE u == CHOOSE u \in T : \A v \in T : ~IsNewerTimestamp(v, u)
<1>1. T # {}
  OBVIOUS
<1>2. WalkState(inc, f, ts, T) = SetState(inc[u], u)
  BY <1>1 DEF WalkState
<1>3. t \in T /\ \A v \in T : ~IsNewerTimestamp(v, t)
  OBVIOUS
<1>4. u \in T /\ \A v \in T : ~IsNewerTimestamp(v, u)
  BY <1>3
<1> HIDE DEF u
<1>5. u = t
  BY <1>4
<1> QED BY <1>2, <1>5

\* The step of the walk that moves the frame x at t.
MoveOne(k, t, x) ==
    [k EXCEPT !.decodable = InsertFrame(@, t, x), !.incomplete = Remove(@, {t})]

\* Moving one more frame.
LEMMA MovedOneMore ==
    ASSUME NEW j \in JB, NEW S, S \subseteq DOMAIN j.incomplete,
           NEW t \in DOMAIN j.incomplete, NEW T, T = S \cup {t}
    PROVE  WithMoved(j, T) = MoveOne(WithMoved(j, S), t, j.incomplete[t])
<1> DEFINE inc == j.incomplete
           D(X) == [u \in DOMAIN j.decodable \cup X |->
                      IF u \in DOMAIN j.decodable THEN j.decodable[u] ELSE inc[u]]
           k == WithMoved(j, S)
<1>1. /\ WithMoved(j, S) = [j EXCEPT !.decodable = D(S), !.incomplete = Remove(inc, S)]
      /\ WithMoved(j, T) = [j EXCEPT !.decodable = D(T), !.incomplete = Remove(inc, T)]
  BY DEF WithMoved
<1>2. InsertFrame(D(S), t, inc[t]) = D(T)
  BY DEF InsertFrame
<1>3. Remove(Remove(inc, S), {t}) = Remove(inc, T)
  <2>1. (DOMAIN inc \ S) \ {t} = DOMAIN inc \ T
    OBVIOUS
  <2>2. Remove(inc, S) = [x \in DOMAIN inc \ S |-> inc[x]]
    BY DEF Remove, Restrict
  <2>3. Remove(inc, T) = [x \in DOMAIN inc \ T |-> inc[x]]
    BY DEF Remove, Restrict
  <2>4. Remove([x \in DOMAIN inc \ S |-> inc[x]], {t}) = [x \in DOMAIN inc \ T |-> inc[x]]
    BY <2>1 DEF Remove, Restrict
  <2> QED BY <2>2, <2>3, <2>4
<1> DEFINE DS == D(S)
           DT == D(T)
           IS == Remove(inc, S)
           IT == Remove(inc, T)
           x == inc[t]
<1>4. /\ k = [j EXCEPT !.decodable = DS, !.incomplete = IS]
      /\ WithMoved(j, T) = [j EXCEPT !.decodable = DT, !.incomplete = IT]
      /\ InsertFrame(DS, t, x) = DT /\ Remove(IS, {t}) = IT
  BY <1>1, <1>2, <1>3
<1> HIDE DEF DS, DT, IS, IT, x, k
<1>5. k.decodable = DS /\ k.incomplete = IS
  BY <1>4 DEF JB
<1>6. [k EXCEPT !.decodable = InsertFrame(@, t, x), !.incomplete = Remove(@, {t})]
        = [k EXCEPT !.decodable = DT, !.incomplete = IT]
  BY <1>4, <1>5
<1>7. [k EXCEPT !.decodable = DT, !.incomplete = IT]
        = [j EXCEPT !.decodable = DT, !.incomplete = IT]
  BY <1>4 DEF JB
<1> QED BY <1>4, <1>6, <1>7 DEF x, k, MoveOne

\* FindAndInsertContinuousFrames moves what the rounds of its loop move.
LEMMA FindAndInsertLoops ==
    ASSUME ShortTimes, NEW j \in JB, DOMAIN j.incomplete \subseteq Times, NEW f, NEW ts
    PROVE  FindAndInsertContinuousFrames(j, f, ts) = WalkLoop(j, f, ts)
<1> DEFINE inc == j.incomplete
           ahead == WalkAhead(inc, ts)
           L == Restrict(inc, ahead)
<1>1. PICK M : /\ WalkMoves(inc, f, ts, M)
               /\ FindAndInsertContinuousFrames(j, f, ts) = WithMoved(j, M)
  BY FindAndInsertWalks
<1>2. inc \in FrameList /\ DOMAIN inc \subseteq Timestamp
  BY CountType, FrameListTypes
<1>3. ahead \subseteq DOMAIN inc /\ M \subseteq ahead
      /\ \A t \in ahead : t \in M <=> WalkContinues(inc, f, ts, M, t)
  BY <1>1 DEF WalkMoves, WalkAhead
<1>4. L \in TimedList /\ DOMAIN L = ahead /\ \A t \in ahead : L[t] = inc[t]
  <2>1. L \in FrameList /\ DOMAIN L = ahead /\ \A t \in ahead : L[t] = inc[t]
    <3> HIDE DEF ahead
    <3> QED BY <1>2, <1>3, RestrictType DEF Restrict
  <2> QED BY <1>3, <2>1 DEF TimedList
<1> HIDE DEF L, ahead
<1>5. DOMAIN L \subseteq Times /\ IsFiniteSet(DOMAIN L)
  BY <1>4, TimedListFinite
<1> DEFINE W(P) == [jb |-> WithMoved(j, M \cap P), rest |-> Remove(L, P),
                    st |-> WalkState(inc, f, ts, M \cap P)]
           S == {P \in SUBSET DOMAIN L : Prefix(L, P)}
           Front(P) == FrontOf(Remove(L, P))
           h == [P \in S |-> IF P = DOMAIN L THEN P ELSE P \cup {Front(P)}]
<1>6. ASSUME NEW P \in S, P # DOMAIN L
      PROVE  Front(P) \in DOMAIN L /\ Front(P) \notin P /\ P \cup {Front(P)} \in S
  <2>1. Prefix(L, P)
    OBVIOUS
  <2>2. Front(P) \in DOMAIN L /\ Front(P) \notin P /\ Prefix(L, P \cup {Front(P)})
    BY <1>4, <1>6, <2>1, RestOfList
  <2> QED BY <2>2
<1>7. {} \in S /\ h \in [S -> S] /\ \A P \in S : P \subseteq h[P]
  <2>1. {} \in S
    BY DEF Prefix
  <2>2. ASSUME NEW P \in S PROVE h[P] \in S /\ P \subseteq h[P]
    BY <1>6
  <2> QED BY <2>1, <2>2
<1>8. ASSUME NEW P \in S PROVE WalkRound(W(P)) = W(h[P])
  <2> DEFINE rest == Remove(L, P)
             t == FrontOf(rest)
             s == W(P)
             X == M \cap P
  <2>1. Prefix(L, P) /\ P \subseteq DOMAIN L
    BY DEF Prefix
  <2>2. h[P] = IF P = DOMAIN L THEN P ELSE P \cup {t}
    OBVIOUS
  <2>3. s.rest = rest /\ s.jb = WithMoved(j, X) /\ s.st = WalkState(inc, f, ts, X)
    OBVIOUS
  <2> HIDE DEF h, S
  <2>4. CASE P = DOMAIN L
    <3>1. IsEmpty(rest)
      BY <1>4, <2>1, <2>4, RestOfList
    <3>2. h[P] = P
      BY <2>2, <2>4
    <3> HIDE DEF s
    <3>3. WalkRound(s) = s
      BY <2>3, <3>1 DEF WalkRound
    <3> QED BY <3>2, <3>3 DEF s
  <2>5. CASE P # DOMAIN L
    <3>1. /\ ~IsEmpty(rest) /\ t \in DOMAIN L /\ t \notin P /\ rest[t] = L[t]
          /\ {u \in DOMAIN L : IsNewerTimestamp(t, u)} = P
          /\ PopFront(rest) = Remove(L, P \cup {t})
      <4>1. L \in TimedList /\ Prefix(L, P) /\ P # DOMAIN L
        BY <1>4, <2>1, <2>5
      <4> HIDE DEF W, s, X
      <4> QED BY ONLY ShortTimes, <4>1, RestOfList DEF rest, t
    <3>2. h[P] = P \cup {t} /\ L[t] = inc[t] /\ t \in ahead /\ t \in DOMAIN inc
      BY <1>3, <1>4, <2>2, <2>5, <3>1
    <3>3. OlderIn(M, t) = X
      BY <1>3, <1>4, <3>1 DEF OlderIn
    <3>4. t \in M <=> IsContinuousInState(inc[t], s.st)
      <4>1. M \subseteq Times
        BY <1>3, <1>4, <1>5
      <4>2. WalkContinues(inc, f, ts, M, t)
              <=> IsContinuousInState(inc[t], WalkState(inc, f, ts, X))
        BY <3>3, <4>1, WalkContinuesState
      <4> QED BY <1>3, <2>3, <3>2, <4>2
    <3> DEFINE g == inc[t]
               next == [jb |-> [s.jb EXCEPT !.decodable = InsertFrame(@, t, g),
                                            !.incomplete = Remove(@, {t})],
                        rest |-> PopFront(s.rest),
                        st |-> SetState(g, t)]
    <3>5. WalkRound(s) = IF IsContinuousInState(g, s.st) THEN next
                         ELSE [s EXCEPT !.rest = PopFront(@)]
      <4>1. ~IsEmpty(s.rest) /\ FrontOf(s.rest) = t /\ s.rest[t] = g
        BY <2>3, <3>1, <3>2
      <4> HIDE DEF s, t
      <4> QED BY <4>1 DEF WalkRound
    <3>6. CASE t \in M
      <4> DEFINE XT == X \cup {t}
      <4>1. M \cap (P \cup {t}) = XT
        BY <3>6
      <4>2. WithMoved(j, XT)
              = [s.jb EXCEPT !.decodable = InsertFrame(@, t, g),
                             !.incomplete = Remove(@, {t})]
        <5>1. X \subseteq DOMAIN inc
          BY <1>3
        <5>2. t \in DOMAIN j.incomplete /\ X \subseteq DOMAIN j.incomplete /\ XT = X \cup {t}
          BY <3>2, <5>1
        <5>3. WithMoved(j, XT) = MoveOne(WithMoved(j, X), t, j.incomplete[t])
          <6> HIDE DEF X, XT, t, W, s, rest
          <6> QED BY ONLY j \in JB, <5>2, MovedOneMore
        <5> QED BY <2>3, <5>3 DEF MoveOne
      <4>3. WalkState(inc, f, ts, XT) = SetState(g, t)
        <5>1. \A u \in XT : u = t \/ (IsNewerTimestamp(t, u) /\ ~IsNewerTimestamp(u, t))
          BY <1>5, <3>1, TimesOrdered
        <5>2. ~IsNewerTimestamp(t, t) /\ t \in XT
          BY <1>5, <3>1, TimesOrdered
        <5> HIDE DEF XT, t, W, s, rest, inc
        <5>3. WalkState(inc, f, ts, XT) = SetState(inc[t], t)
          BY ONLY <5>1, <5>2, WalkStateOneMore
        <5> QED BY <5>3 DEF g
      <4>4. W(P \cup {t}) = [jb |-> WithMoved(j, XT), rest |-> PopFront(rest),
                             st |-> WalkState(inc, f, ts, XT)]
        BY <3>1, <4>1
      <4>5. W(P \cup {t}) = next
        BY <2>3, <4>2, <4>3, <4>4
      <4> HIDE DEF W, next, s, t
      <4> QED BY <3>2, <3>4, <3>5, <3>6, <4>5 DEF s
    <3>7. CASE t \notin M
      <4>1. M \cap (P \cup {t}) = X
        BY <3>7
      <4>2. W(P \cup {t}) = [jb |-> WithMoved(j, X), rest |-> PopFront(rest),
                             st |-> WalkState(inc, f, ts, X)]
        BY <3>1, <4>1
      <4>3. [s EXCEPT !.rest = PopFront(@)]
              = [jb |-> WithMoved(j, X), rest |-> PopFront(rest),
                 st |-> WalkState(inc, f, ts, X)]
        OBVIOUS
      <4> HIDE DEF W, next, s, t
      <4> QED BY <3>2, <3>4, <3>5, <3>7, <4>2, <4>3 DEF s
    <3> QED BY <3>6, <3>7
  <2> QED BY <2>4, <2>5
<1> HIDE DEF h, S, W
<1>9. S \subseteq SUBSET DOMAIN L
  BY DEF S
<1> DEFINE N == Cardinality(DOMAIN L)
<1>10. PICK p \in [Nat -> S] :
          p[0] = {} /\ (\A n \in Nat : p[n + 1] = h[p[n]]) /\ h[p[N]] = p[N]
  BY <1>5, <1>7, <1>9, TakingLoopEnds
<1>11. N \in Nat
  BY <1>5, FS_CardinalityType
<1>12. p[N] = DOMAIN L
  <2>1. p[N] \in S /\ h[p[N]] = p[N]
    BY <1>10, <1>11
  <2>2. ASSUME p[N] # DOMAIN L PROVE FALSE
    <3>1. h[p[N]] = p[N] \cup {Front(p[N])}
      BY <2>1, <2>2 DEF h
    <3> QED BY <1>6, <2>1, <2>2, <3>1
  <2> QED BY <2>2
<1> DEFINE first == [jb |-> j, rest |-> L, st |-> SetState(f, ts)]
           Is(g) == g = [i \in Nat |-> IF i = 0 THEN first ELSE WalkRound(g[i - 1])]
           after == CHOOSE g : Is(g)
<1>13. WalkLoop(j, f, ts) = after[N].jb
  BY <1>4 DEF WalkLoop, WalkAhead, ahead, L
<1>14. W({}) = first
  <2>1. Remove(L, {}) = L
    BY <1>4 DEF Remove, Restrict, FrameList, TimedList
  <2>2. WithMoved(j, {}) = j
    <3>1. j.decodable \in FrameList
      BY DEF JB
    <3>2. [t \in DOMAIN j.decodable \cup {} |->
             IF t \in DOMAIN j.decodable THEN j.decodable[t] ELSE inc[t]] = j.decodable
      BY <3>1 DEF FrameList
    <3>3. Remove(inc, {}) = inc
      BY <1>2 DEF Remove, Restrict, FrameList
    <3> DEFINE D == [t \in DOMAIN j.decodable \cup {} |->
                       IF t \in DOMAIN j.decodable THEN j.decodable[t] ELSE inc[t]]
               I == Remove(inc, {})
    <3>4. WithMoved(j, {}) = [j EXCEPT !.decodable = D, !.incomplete = I]
      BY DEF WithMoved
    <3>5. D = j.decodable /\ I = j.incomplete
      BY <3>2, <3>3
    <3> HIDE DEF D, I
    <3> QED BY <3>4, <3>5 DEF JB
  <2>3. M \cap {} = {} /\ WalkState(inc, f, ts, {}) = SetState(f, ts)
    BY DEF WalkState
  <2> QED BY <2>1, <2>2, <2>3 DEF W
<1>15. Is([i \in Nat |-> W(p[i])])
  <2> DEFINE g == [i \in Nat |-> W(p[i])]
  <2>1. ASSUME NEW i \in Nat
        PROVE  g[i] = IF i = 0 THEN first ELSE WalkRound(g[i - 1])
    <3>1. CASE i = 0
      BY <1>10, <1>14, <3>1
    <3>2. CASE i # 0
      <4>1. i - 1 \in Nat /\ i - 1 + 1 = i
        BY <3>2
      <4>2. p[i - 1] \in S /\ p[i] = h[p[i - 1]]
        BY <1>10, <4>1
      <4> QED BY <1>8, <3>2, <4>1, <4>2
    <3> QED BY <3>1, <3>2
  <2> QED BY <2>1
<1>16. Is(after)
  <2> HIDE DEF Is
  <2> QED BY <1>15
<1> HIDE DEF first
<1> DEFINE A == {n \in Nat : after[n] = W(p[n])}
<1>17. Nat \subseteq A
  <2>1. 0 \in A
    BY <1>10, <1>14, <1>16
  <2>2. ASSUME NEW n \in Nat, n \in A PROVE n + 1 \in A
    <3>1. after[n + 1] = WalkRound(after[n])
      <4>1. n + 1 \in Nat /\ n + 1 # 0 /\ (n + 1) - 1 = n
        OBVIOUS
      <4> QED BY <1>16, <4>1
    <3>2. after[n] = W(p[n]) /\ p[n] \in S /\ p[n + 1] = h[p[n]]
      BY <1>10, <2>2
    <3> QED BY <1>8, <3>1, <3>2
  <2> HIDE DEF A
  <2> QED BY <2>1, <2>2, LF!SetInduction
<1>18. after[N] = W(DOMAIN L) /\ M \cap DOMAIN L = M
  BY <1>3, <1>4, <1>11, <1>12, <1>17
<1>19. after[N].jb = WithMoved(j, M)
  BY <1>18 DEF W
<1> QED BY <1>1, <1>13, <1>19

-----------------------------------------------------------------------------
(***************************************************************************)
(* RecycleFramesUntilKeyFrame.                                             *)
(***************************************************************************)
\* The first of the key frames at which a round can stop.
FirstKey(L, t) ==
    t \in LaterKeys(L) /\ \A u \in LaterKeys(L) : ~IsNewerTimestamp(t, u)

\* The rounds on one list keep it from the first later key frame on.
LEMMA RecycleListLoops ==
    ASSUME ShortTimes, NEW L \in TimedList
    PROVE  IF LaterKeys(L) = {} THEN RecycleList(L) = EmptyList
           ELSE \E t : FirstKey(L, t) /\ RecycleList(L) = From(L, t)
<1> DEFINE Front(P) == FrontOf(Remove(L, P))
           Stops(P) == P # {} /\ P # DOMAIN L /\ L[Front(P)].type = "key"
           W(P) == [list |-> Remove(L, P), stop |-> Stops(P)]
           S == {P \in SUBSET DOMAIN L : Prefix(L, P) /\ P \cap LaterKeys(L) = {}}
           h == [P \in S |-> IF P = DOMAIN L \/ Stops(P) THEN P
                             ELSE P \cup {Front(P)}]
<1>1. DOMAIN L \subseteq Times /\ IsFiniteSet(DOMAIN L) /\ L \in FrameList
  BY TimedListFinite
<1>2. ASSUME NEW P \in S, P # DOMAIN L
      PROVE  /\ ~IsEmpty(Remove(L, P)) /\ Front(P) \in DOMAIN L /\ Front(P) \notin P
             /\ Remove(L, P)[Front(P)] = L[Front(P)]
             /\ {u \in DOMAIN L : IsNewerTimestamp(Front(P), u)} = P
             /\ Prefix(L, P \cup {Front(P)})
             /\ PopFront(Remove(L, P)) = Remove(L, P \cup {Front(P)})
             /\ \A u \in DOMAIN L \ P : u = Front(P) \/ IsNewerTimestamp(u, Front(P))
  <2>1. Prefix(L, P)
    OBVIOUS
  <2> HIDE DEF W, h, S, Stops
  <2> QED BY <1>2, <2>1, RestOfList
<1>3. ASSUME NEW P \in S, P # DOMAIN L, ~Stops(P)
      PROVE  Front(P) \notin P /\ P \cup {Front(P)} \in S
  <2> DEFINE t == Front(P)
  <2>1. t \in DOMAIN L /\ t \notin P /\ Prefix(L, P \cup {t})
        /\ {u \in DOMAIN L : IsNewerTimestamp(t, u)} = P
    BY <1>2, <1>3
  <2>2. t \notin LaterKeys(L)
    <3>1. CASE P = {}
      <4>1. IsFront(L, t)
        BY <2>1, <3>1 DEF IsFront
      <4> QED BY <4>1 DEF LaterKeys
    <3>2. CASE P # {}
      <4>1. L[t].type # "key"
        BY <1>3, <3>2
      <4> QED BY <4>1 DEF LaterKeys
    <3> QED BY <3>1, <3>2
  <2> HIDE DEF t
  <2>3. P \cup {t} \in S
    BY <2>1, <2>2
  <2> QED BY <2>1, <2>3 DEF t
<1>4. {} \in S /\ h \in [S -> S] /\ \A P \in S : P \subseteq h[P]
  <2>1. {} \in S
    BY DEF Prefix
  <2>2. ASSUME NEW P \in S PROVE h[P] \in S /\ P \subseteq h[P]
    <3> HIDE DEF Stops, Front
    <3> QED BY <1>3
  <2> QED BY <2>1, <2>2
<1>5. ASSUME NEW P \in S PROVE RecycleRound(W(P)) = W(h[P])
  <2> DEFINE s == W(P)
             rest == Remove(L, P)
             t == Front(P)
             Q == P \cup {t}
  <2>1. s.list = rest /\ s.stop = Stops(P)
    OBVIOUS
  <2>2. CASE P = DOMAIN L \/ Stops(P)
    <3>1. h[P] = P
      BY <2>2
    <3>2. s.stop \/ IsEmpty(s.list)
      <4>1. P = DOMAIN L => IsEmpty(rest)
        <5>1. DOMAIN rest = DOMAIN L \ P
          BY <1>1, RemoveType
        <5> QED BY <5>1 DEF IsEmpty
      <4> HIDE DEF s, Stops, rest
      <4> QED BY <2>1, <2>2, <4>1
    <3>3. RecycleRound(s) = s
      <4> HIDE DEF s
      <4> QED BY <3>2 DEF RecycleRound
    <3> QED BY <3>1, <3>3
  <2>3. CASE P # DOMAIN L /\ ~Stops(P)
    <3>1. h[P] = Q
      BY <2>3
    <3>2. /\ ~IsEmpty(rest) /\ PopFront(rest) = Remove(L, Q)
          /\ Q \in S /\ Q # {} /\ t \in DOMAIN L
      BY <1>2, <1>3, <2>3
    <3>3. IsEmpty(Remove(L, Q)) <=> Q = DOMAIN L
      <4>1. DOMAIN Remove(L, Q) = DOMAIN L \ Q
        BY <1>1, RemoveType
      <4>2. Q \subseteq DOMAIN L
        BY <3>2
      <4> HIDE DEF Q
      <4> QED BY <4>1, <4>2 DEF IsEmpty
    <3>4. Q # DOMAIN L => Remove(L, Q)[FrontOf(Remove(L, Q))] = L[Front(Q)]
      BY <1>2, <3>2
    <3> DEFINE R == Remove(L, Q)
    <3>5. RecycleRound(s) = [list |-> PopFront(s.list),
             stop |-> /\ ~IsEmpty(PopFront(s.list))
                      /\ PopFront(s.list)[FrontOf(PopFront(s.list))].type = "key"]
      <4>1. ~s.stop /\ ~IsEmpty(s.list)
        BY <2>1, <2>3, <3>2
      <4> HIDE DEF s
      <4> QED BY <4>1 DEF RecycleRound
    <3>6. RecycleRound(s) = [list |-> R, stop |-> ~IsEmpty(R) /\ R[FrontOf(R)].type = "key"]
      BY <2>1, <3>2, <3>5
    <3>7. Stops(Q) = (~IsEmpty(R) /\ R[FrontOf(R)].type = "key")
      BY <3>2, <3>3, <3>4
    <3> QED BY <3>1, <3>6, <3>7
  <2> QED BY <2>2, <2>3
<1> HIDE DEF h, S, W
<1>6. S \subseteq SUBSET DOMAIN L
  BY DEF S
<1> DEFINE N == Cardinality(DOMAIN L)
<1>7. PICK p \in [Nat -> S] :
          p[0] = {} /\ (\A n \in Nat : p[n + 1] = h[p[n]]) /\ h[p[N]] = p[N]
  BY <1>1, <1>4, <1>6, TakingLoopEnds
<1>8. N \in Nat
  BY <1>1, FS_CardinalityType
<1>9. p[N] = DOMAIN L \/ Stops(p[N])
  <2> HIDE DEF Stops
  <2>1. p[N] \in S /\ h[p[N]] = p[N]
    BY <1>7, <1>8
  <2>2. ASSUME p[N] # DOMAIN L, ~Stops(p[N]) PROVE FALSE
    <3>1. h[p[N]] = p[N] \cup {Front(p[N])}
      BY <2>1, <2>2 DEF h
    <3> QED BY <1>3, <2>1, <2>2, <3>1
  <2> QED BY <2>2
<1> DEFINE first == [list |-> L, stop |-> FALSE]
           Is(g) == g = [i \in Nat |-> IF i = 0 THEN first ELSE RecycleRound(g[i - 1])]
           after == CHOOSE g : Is(g)
<1>10. RecycleList(L) = after[N].list
  BY DEF RecycleList
<1>11. W({}) = first
  <2>1. Remove(L, {}) = L
    BY <1>1 DEF Remove, Restrict, FrameList
  <2> QED BY <2>1 DEF W
<1>12. Is([i \in Nat |-> W(p[i])])
  <2> DEFINE g == [i \in Nat |-> W(p[i])]
  <2>1. ASSUME NEW i \in Nat
        PROVE  g[i] = IF i = 0 THEN first ELSE RecycleRound(g[i - 1])
    <3>1. CASE i = 0
      BY <1>7, <1>11, <3>1
    <3>2. CASE i # 0
      <4>1. i - 1 \in Nat /\ i - 1 + 1 = i
        BY <3>2
      <4>2. p[i - 1] \in S /\ p[i] = h[p[i - 1]]
        BY <1>7, <4>1
      <4> QED BY <1>5, <3>2, <4>1, <4>2
    <3> QED BY <3>1, <3>2
  <2> QED BY <2>1
<1>13. Is(after)
  <2> HIDE DEF Is
  <2> QED BY <1>12
<1> HIDE DEF first
<1> DEFINE A == {n \in Nat : after[n] = W(p[n])}
<1>14. Nat \subseteq A
  <2>1. 0 \in A
    BY <1>7, <1>11, <1>13
  <2>2. ASSUME NEW n \in Nat, n \in A PROVE n + 1 \in A
    <3>1. after[n + 1] = RecycleRound(after[n])
      <4>1. n + 1 \in Nat /\ n + 1 # 0 /\ (n + 1) - 1 = n
        OBVIOUS
      <4> QED BY <1>13, <4>1
    <3>2. after[n] = W(p[n]) /\ p[n] \in S /\ p[n + 1] = h[p[n]]
      BY <1>7, <2>2
    <3> QED BY <1>5, <3>1, <3>2
  <2> HIDE DEF A
  <2> QED BY <2>1, <2>2, LF!SetInduction
<1> DEFINE P == p[N]
<1>15. RecycleList(L) = Remove(L, P)
  <2>1. after[N] = W(P)
    BY <1>8, <1>14
  <2> QED BY <1>10, <2>1 DEF W
<1>16. P \in S /\ P \cap LaterKeys(L) = {} /\ LaterKeys(L) \subseteq DOMAIN L
  BY <1>7, <1>8 DEF S, LaterKeys
<1> HIDE DEF P
<1>17. CASE P = DOMAIN L
  <2>1. LaterKeys(L) = {}
    BY <1>16, <1>17
  <2>2. Remove(L, DOMAIN L) = EmptyList
    BY DEF Remove, Restrict, EmptyList
  <2> QED BY <1>15, <1>17, <2>1, <2>2
<1>18. CASE Stops(P)
  <2> DEFINE t == Front(P)
  <2>1. P # {} /\ P # DOMAIN L /\ L[t].type = "key"
    BY <1>18
  <2>2. /\ t \in DOMAIN L /\ t \notin P
        /\ {u \in DOMAIN L : IsNewerTimestamp(t, u)} = P
        /\ \A u \in DOMAIN L \ P : u = t \/ IsNewerTimestamp(u, t)
    BY <1>2, <1>16, <2>1
  <2> HIDE DEF t
  <2>3. t \in LaterKeys(L)
    BY <2>1, <2>2 DEF LaterKeys, IsFront
  <2>4. FirstKey(L, t)
    <3>1. ASSUME NEW u \in LaterKeys(L) PROVE ~IsNewerTimestamp(t, u)
      BY <1>16, <2>2
    <3> QED BY <2>3, <3>1 DEF FirstKey
  <2>5. Remove(L, P) = From(L, t)
    <3>1. DOMAIN L \ P = {u \in DOMAIN L : ~IsNewerTimestamp(t, u)}
      BY <2>2
    <3> QED BY <3>1 DEF Remove, From
  <2> QED BY <1>15, <2>3, <2>4, <2>5
<1> QED BY <1>9, <1>17, <1>18 DEF P

\* A buffer with frames of the stream.
TimedJB == {j \in JB : j.incomplete \in TimedList /\ j.decodable \in TimedList}

\* The first of some key frames exists, and there is only one.
LEMMA FirstKeyExists ==
    ASSUME ShortTimes, NEW L \in TimedList
    PROVE  /\ LaterKeys(L) # {} => \E t : FirstKey(L, t)
           /\ \A t, u : FirstKey(L, t) /\ FirstKey(L, u) => t = u
<1>1. LaterKeys(L) \subseteq Times
  BY TimedListFinite DEF LaterKeys
<1>2. LaterKeys(L) # {} => \E t : FirstKey(L, t)
  <2> DEFINE S == LaterKeys(L)
  <2>1. S \subseteq Times
    BY <1>1
  <2> HIDE DEF S
  <2>2. S # {} => \E t \in S : \A u \in S : ~IsNewerTimestamp(t, u)
    BY <2>1, OldestExists
  <2> QED BY <2>2 DEF S, FirstKey
<1>3. ASSUME NEW t, NEW u, FirstKey(L, t), FirstKey(L, u) PROVE t = u
  BY <1>1, <1>3, TimesOrdered DEF FirstKey
<1> QED BY <1>2, <1>3

\* The list from one of its later key frames on.
LEMMA FromKey ==
    ASSUME ShortTimes, NEW L \in TimedList, NEW t \in LaterKeys(L)
    PROVE  LET K == From(L, t)
           IN  /\ K \in TimedList /\ Sublist(K, L)
               /\ DOMAIN K = {u \in DOMAIN L : ~IsNewerTimestamp(t, u)}
               /\ \A u \in DOMAIN K : K[u] = L[u]
               /\ t \in DOMAIN K /\ ~IsEmpty(K) /\ FrontOf(K) = t
               /\ LaterKeys(K) = {u \in LaterKeys(L) : IsNewerTimestamp(u, t)}
               /\ \A u \in LaterKeys(K) : From(K, u) = From(L, u)
<1> DEFINE K == From(L, t)
           S == {u \in DOMAIN L : ~IsNewerTimestamp(t, u)}
<1>1. L \in FrameList /\ DOMAIN L \subseteq Times /\ t \in DOMAIN L
  BY TimedListFinite DEF LaterKeys
<1>2. K \in FrameList /\ DOMAIN K = S /\ \A u \in S : K[u] = L[u]
  <2>1. S \subseteq DOMAIN L
    OBVIOUS
  <2>2. K = Restrict(L, S)
    BY DEF From
  <2> HIDE DEF S, K
  <2> QED BY <1>1, <2>1, <2>2, RestrictType
<1>3. K \in TimedList /\ Sublist(K, L)
  <2> HIDE DEF K
  <2> QED BY <1>1, <1>2 DEF TimedList, Sublist
<1>4. t \in S
  BY <1>1, TimesOrdered
<1> HIDE DEF K
<1>5. ~IsEmpty(K)
  BY <1>2, <1>4 DEF IsEmpty
<1>6. FrontOf(K) = t
  <2>1. IsFront(K, t)
    BY <1>2, <1>4 DEF IsFront
  <2> QED BY <1>2, <1>3, <1>4, <1>5, <2>1, FrontOfList
<1>7. \A u \in DOMAIN L : u \in S <=> u = t \/ IsNewerTimestamp(u, t)
  BY <1>1, TimesOrdered
<1>8. LaterKeys(K) = {u \in LaterKeys(L) : IsNewerTimestamp(u, t)}
  <2>1. ASSUME NEW u \in LaterKeys(K)
        PROVE  u \in LaterKeys(L) /\ IsNewerTimestamp(u, t)
    <3>1. u \in S /\ L[u].type = "key" /\ ~IsFront(K, u)
      BY <1>2, <2>1 DEF LaterKeys
    <3>2. u # t
      BY <1>2, <1>4, <3>1 DEF IsFront
    <3>3. IsNewerTimestamp(u, t)
      BY <1>7, <3>1, <3>2
    <3> QED BY <1>1, <3>1, <3>3 DEF LaterKeys, IsFront
  <2>2. ASSUME NEW u \in LaterKeys(L), IsNewerTimestamp(u, t) PROVE u \in LaterKeys(K)
    <3>1. u \in DOMAIN L /\ L[u].type = "key"
      BY <2>2 DEF LaterKeys
    <3>2. u \in S
      BY <1>7, <2>2, <3>1
    <3> QED BY <1>2, <1>4, <2>2, <3>1, <3>2 DEF LaterKeys, IsFront
  <2> QED BY <2>1, <2>2
<1>9. ASSUME NEW u \in LaterKeys(K) PROVE From(K, u) = From(L, u)
  <2>1. IsNewerTimestamp(u, t) /\ u \in DOMAIN L
    BY <1>8 DEF LaterKeys
  <2> DEFINE X == {v \in DOMAIN L : ~IsNewerTimestamp(u, v)}
  <2>2. {v \in DOMAIN K : ~IsNewerTimestamp(u, v)} = X
    BY <1>1, <1>2, <1>7, <2>1, TimesOrdered
  <2>3. X \subseteq S
    BY <1>2, <2>2
  <2>4. From(K, u) = [v \in X |-> K[v]] /\ From(L, u) = [v \in X |-> L[v]]
    BY <2>2 DEF From, Restrict
  <2> QED BY <1>2, <2>3, <2>4
<1> QED BY <1>2, <1>3, <1>4, <1>5, <1>6, <1>8, <1>9 DEF K

\* The NACK list after a round that stops at a key frame.
LEMMA DropAtKey ==
    ASSUME ShortTimes, NEW L \in TimedList, NEW M
    PROVE  /\ \A u : FirstKey(L, u) =>
                 DropPackets(M, EstimatedLowSequenceNumber(L[u]))
                   = DropBelowKeys(L, M, UpTo(L, u))
           /\ \A t \in LaterKeys(L) : \A u : FirstKey(From(L, t), u) =>
                 DropPackets(DropBelowKeys(L, M, UpTo(L, t)),
                             EstimatedLowSequenceNumber(L[u]))
                   = DropBelowKeys(L, M, UpTo(L, u))
           /\ \A t \in LaterKeys(L) :
                 LaterKeys(From(L, t)) = {} => UpTo(L, t) = LaterKeys(L)
<1>1. LaterKeys(L) \subseteq Times
  BY TimedListFinite DEF LaterKeys
<1>2. ASSUME NEW u, FirstKey(L, u)
      PROVE  DropPackets(M, EstimatedLowSequenceNumber(L[u]))
               = DropBelowKeys(L, M, UpTo(L, u))
  <2>1. UpTo(L, u) = {u}
    BY <1>1, <1>2, TimesOrdered DEF FirstKey, UpTo
  <2> HIDE DEF EstimatedLowSequenceNumber
  <2> QED BY <2>1 DEF DropPackets, DropBelowKeys
<1>3. ASSUME NEW t \in LaterKeys(L), NEW u, FirstKey(From(L, t), u)
      PROVE  DropPackets(DropBelowKeys(L, M, UpTo(L, t)),
                         EstimatedLowSequenceNumber(L[u]))
               = DropBelowKeys(L, M, UpTo(L, u))
  <2> DEFINE later == {v \in LaterKeys(L) : IsNewerTimestamp(v, t)}
  <2>1. LaterKeys(From(L, t)) = later
    BY FromKey
  <2>2. u \in later /\ \A v \in later : ~IsNewerTimestamp(u, v)
    <3> HIDE DEF later
    <3> QED BY <1>3, <2>1 DEF FirstKey
  <2>3. UpTo(L, u) = UpTo(L, t) \cup {u}
    BY <1>1, <2>2, TimesOrdered DEF UpTo
  <2> HIDE DEF later
  <2> QED BY <2>3 DEF DropPackets, DropBelowKeys
<1>4. ASSUME NEW t \in LaterKeys(L), LaterKeys(From(L, t)) = {}
      PROVE  UpTo(L, t) = LaterKeys(L)
  <2>1. {v \in LaterKeys(L) : IsNewerTimestamp(v, t)} = {}
    BY <1>4, FromKey
  <2> QED BY <2>1 DEF UpTo
<1> QED BY <1>2, <1>3, <1>4

\* A recycled buffer, field by field.
LEMMA RecycledFields ==
    ASSUME NEW j \in JB, NEW i, NEW d, NEW M, NEW st
    PROVE  LET k == Recycled(j, i, d, M, st)
           IN  /\ k.incomplete = i /\ k.decodable = d /\ k.missing = M /\ k.last = st
               /\ k.free = j.free + Dropped(j.incomplete, i) + Dropped(j.decodable, d)
<1> DEFINE n == j.free + Dropped(j.incomplete, i) + Dropped(j.decodable, d)
<1>1. Recycled(j, i, d, M, st)
        = [j EXCEPT !.incomplete = i, !.decodable = d, !.free = n,
                    !.missing = M, !.last = st]
  BY DEF Recycled
<1> HIDE DEF n
<1>2. LET k == Recycled(j, i, d, M, st)
      IN  /\ k.incomplete = i /\ k.decodable = d /\ k.missing = M /\ k.last = st
          /\ k.free = n
  BY <1>1 DEF JB
<1> QED BY <1>2 DEF n

\* Two recyclings are one.
LEMMA RecycledTwice ==
    ASSUME NEW j \in JB, NEW i, Sublist(i, j.incomplete), NEW d, Sublist(d, j.decodable),
           NEW M, NEW st, NEW i2, Sublist(i2, j.incomplete),
           NEW d2, Sublist(d2, j.decodable), NEW M2, NEW st2
    PROVE  Recycled(Recycled(j, i, d, M, st), i2, d2, M2, st2)
             = Recycled(j, i2, d2, M2, st2)
<1> DEFINE k == Recycled(j, i, d, M, st)
           n == j.free + Dropped(j.incomplete, i) + Dropped(j.decodable, d)
           n2 == j.free + Dropped(j.incomplete, i2) + Dropped(j.decodable, d2)
<1>1. /\ k.incomplete = i /\ k.decodable = d /\ k.free = n
  BY RecycledFields
<1>2. \A L \in {i, d, i2, d2, j.incomplete, j.decodable} : Cardinality(DOMAIN L) \in Nat
  BY FrameListTypes DEF Sublist, JB
<1>3. j.free \in Nat
  BY DEF JB
<1>4. n + Dropped(i, i2) + Dropped(d, d2) = n2
  <2> DEFINE a == Cardinality(DOMAIN i)
             b == Cardinality(DOMAIN d)
             a2 == Cardinality(DOMAIN i2)
             b2 == Cardinality(DOMAIN d2)
             a0 == Cardinality(DOMAIN j.incomplete)
             b0 == Cardinality(DOMAIN j.decodable)
             f == j.free
  <2>1. a \in Nat /\ b \in Nat /\ a2 \in Nat /\ b2 \in Nat /\ a0 \in Nat /\ b0 \in Nat
        /\ f \in Nat
    BY <1>2, <1>3
  <2>2. /\ n = f + (a0 - a) + (b0 - b)
        /\ n2 = f + (a0 - a2) + (b0 - b2)
        /\ Dropped(i, i2) = a - a2 /\ Dropped(d, d2) = b - b2
    BY DEF Dropped
  <2> HIDE DEF a, b, a2, b2, a0, b0, f, n, n2
  <2> QED BY <2>1, <2>2
<1>5. k = [j EXCEPT !.incomplete = i, !.decodable = d, !.free = n,
                    !.missing = M, !.last = st]
  BY DEF Recycled
<1>6. Recycled(k, i2, d2, M2, st2)
        = [k EXCEPT !.incomplete = i2, !.decodable = d2, !.free = n2,
                    !.missing = M2, !.last = st2]
  BY <1>1, <1>4 DEF Recycled
<1>7. Recycled(j, i2, d2, M2, st2)
        = [j EXCEPT !.incomplete = i2, !.decodable = d2, !.free = n2,
                    !.missing = M2, !.last = st2]
  BY DEF Recycled
<1> HIDE DEF k, n, n2
<1>8. [k EXCEPT !.incomplete = i2, !.decodable = d2, !.free = n2,
                !.missing = M2, !.last = st2]
        = [j EXCEPT !.incomplete = i2, !.decodable = d2, !.free = n2,
                    !.missing = M2, !.last = st2]
  BY <1>5 DEF JB
<1> QED BY <1>6, <1>7, <1>8 DEF k

(***************************************************************************)
(* Where the rounds of RecycleFramesUntilKeyFrame on the buffer j come to: *)
(* a key frame of incomplete_frames_, the end of that list, a key frame of *)
(* decodable_frames_, and the end of both.                                 *)
(***************************************************************************)
AtKey(j, t) ==
    [jb |-> Recycled(j, From(j.incomplete, t), j.decodable,
                     DropBelowKeys(j.incomplete, j.missing, UpTo(j.incomplete, t)),
                     InitialDecodingState),
     key |-> TRUE]

LeftMissing(j) == DropBelowKeys(j.incomplete, j.missing, LaterKeys(j.incomplete))

LeftState(j) == IF LaterKeys(j.incomplete) = {} THEN j.last ELSE InitialDecodingState

NoIncomplete(j) ==
    [jb |-> Recycled(j, EmptyList, j.decodable, LeftMissing(j), LeftState(j)),
     key |-> FALSE]

AtDecodableKey(j, t) ==
    [jb |-> Recycled(j, EmptyList, From(j.decodable, t),
                     DropBelowKeys(j.decodable, LeftMissing(j), UpTo(j.decodable, t)),
                     InitialDecodingState),
     key |-> TRUE]

NoFrames(j) ==
    [jb |-> Recycled(j, EmptyList, EmptyList, {}, InitialDecodingState), key |-> FALSE]

\* The round from j to r.
Round(j, r) ==
    LET inc == j.incomplete
        dcd == j.decodable
    IN  /\ LaterKeys(inc) # {} => \E t : FirstKey(inc, t) /\ r = AtKey(j, t)
        /\ LaterKeys(inc) = {} /\ ~IsEmpty(inc) /\ ~IsEmpty(dcd) => r = NoIncomplete(j)
        /\ IsEmpty(inc) /\ LaterKeys(dcd) # {}
              => \E t : FirstKey(dcd, t) /\ r = AtDecodableKey(j, t)
        /\ LaterKeys(inc) = {} /\ (IF IsEmpty(inc) THEN LaterKeys(dcd) = {}
                                                    ELSE IsEmpty(dcd))
              => r = NoFrames(j)

\* An empty list has no key frames and is the empty list.
LEMMA EmptyLists ==
    ASSUME NEW L \in FrameList, IsEmpty(L)
    PROVE  L = EmptyList /\ LaterKeys(L) = {} /\ \A M : DropBelowKeys(L, M, {}) = M
<1>1. DOMAIN L = {}
  BY DEF IsEmpty
<1>2. L = [t \in DOMAIN L |-> L[t]]
  BY DEF FrameList
<1>3. [t \in {} |-> L[t]] = [t \in {} |-> EmptyFrame]
  OBVIOUS
<1> QED BY <1>1, <1>2, <1>3 DEF EmptyList, LaterKeys, DropBelowKeys

\* RecycleOnce is a round.
LEMMA RecycleOnceRound ==
    ASSUME ShortTimes, NEW j \in TimedJB
    PROVE  Round(j, RecycleOnce(j))
<1> DEFINE inc == j.incomplete
           dcd == j.decodable
           i == RecycleList(inc)
           d == IF IsEmpty(inc) THEN RecycleList(dcd) ELSE dcd
           L == IF IsEmpty(inc) THEN d ELSE i
           n == j.free + Dropped(inc, i) + Dropped(dcd, d)
           k == [j EXCEPT !.incomplete = i, !.decodable = d, !.free = n]
           M == DropPackets(j.missing, EstimatedLowSequenceNumber(L[FrontOf(L)]))
           r == RecycleOnce(j)
<1>1. j \in JB /\ inc \in TimedList /\ dcd \in TimedList
      /\ inc \in FrameList /\ dcd \in FrameList
  BY DEF TimedJB, TimedList
<1>2. r = IF ~IsEmpty(L)
          THEN [jb |-> [k EXCEPT !.last = InitialDecodingState, !.missing = M], key |-> TRUE]
          ELSE IF IsEmpty(d)
          THEN [jb |-> [k EXCEPT !.last = InitialDecodingState, !.missing = {}],
                key |-> FALSE]
          ELSE [jb |-> k, key |-> FALSE]
  <2>1. k.missing = j.missing
    <3> HIDE DEF i, d, n
    <3> QED BY <1>1 DEF JB
  <2> QED BY <2>1 DEF RecycleOnce
<1>3. ASSUME NEW X, NEW st
      PROVE  [k EXCEPT !.last = st, !.missing = X] = Recycled(j, i, d, X, st)
  <2>1. Recycled(j, i, d, X, st)
          = [j EXCEPT !.incomplete = i, !.decodable = d, !.free = n,
                      !.missing = X, !.last = st]
    BY DEF Recycled
  <2>2. k = [j EXCEPT !.incomplete = i, !.decodable = d, !.free = n]
    OBVIOUS
  <2> HIDE DEF i, d, n, k
  <2>3. [k EXCEPT !.last = st, !.missing = X]
          = [j EXCEPT !.incomplete = i, !.decodable = d, !.free = n,
                      !.missing = X, !.last = st]
    <3>1. j \in JB
      BY <1>1
    <3> QED BY ONLY <2>2, <3>1 DEF JB
  <2> QED BY ONLY <2>1, <2>3
<1>4. k = Recycled(j, i, d, j.missing, j.last)
  <2>1. [k EXCEPT !.last = j.last, !.missing = j.missing] = k
    <3> HIDE DEF i, d, n
    <3> QED BY <1>1 DEF JB
  <2> HIDE DEF k, i, d, n
  <2> QED BY <1>3, <2>1
<1>5. /\ IF LaterKeys(inc) = {} THEN i = EmptyList
         ELSE \E t : FirstKey(inc, t) /\ i = From(inc, t)
      /\ IF LaterKeys(dcd) = {} THEN RecycleList(dcd) = EmptyList
         ELSE \E t : FirstKey(dcd, t) /\ RecycleList(dcd) = From(dcd, t)
  BY <1>1, RecycleListLoops
<1> HIDE DEF i, n, k, r
<1>6. ASSUME LaterKeys(inc) # {} PROVE \E t : FirstKey(inc, t) /\ r = AtKey(j, t)
  <2>1. PICK t : FirstKey(inc, t) /\ i = From(inc, t)
    BY <1>5, <1>6
  <2>2. ~IsEmpty(inc) /\ t \in LaterKeys(inc)
    BY <1>6, <2>1 DEF LaterKeys, IsEmpty, FirstKey
  <2>3. ~IsEmpty(i) /\ FrontOf(i) = t /\ i[t] = inc[t]
    BY <1>1, <2>1, <2>2, FromKey
  <2>4. d = dcd /\ L = i
    BY <2>2
  <2>5. M = DropBelowKeys(inc, j.missing, UpTo(inc, t))
    BY <1>1, <2>1, <2>3, <2>4, DropAtKey
  <2> HIDE DEF M, d, L
  <2>6. r = [jb |-> Recycled(j, i, d, M, InitialDecodingState), key |-> TRUE]
    BY <1>2, <1>3, <2>3, <2>4
  <2> QED BY <2>1, <2>4, <2>5, <2>6 DEF AtKey
<1>7. ASSUME LaterKeys(inc) = {}, ~IsEmpty(inc), ~IsEmpty(dcd) PROVE r = NoIncomplete(j)
  <2>1. i = EmptyList /\ d = dcd /\ L = i /\ IsEmpty(i)
    BY <1>5, <1>7, EmptyListType DEF IsEmpty
  <2>2. LeftMissing(j) = j.missing /\ LeftState(j) = j.last
    BY <1>7 DEF LeftMissing, LeftState, DropBelowKeys
  <2> HIDE DEF d, L, M
  <2>3. r = [jb |-> Recycled(j, EmptyList, dcd, j.missing, j.last), key |-> FALSE]
    BY <1>2, <1>4, <1>7, <2>1
  <2> QED BY <2>2, <2>3 DEF NoIncomplete
<1>8. ASSUME IsEmpty(inc), LaterKeys(dcd) # {}
      PROVE  \E t : FirstKey(dcd, t) /\ r = AtDecodableKey(j, t)
  <2>1. PICK t : FirstKey(dcd, t) /\ RecycleList(dcd) = From(dcd, t)
    BY <1>5, <1>8
  <2>2. inc = EmptyList /\ LaterKeys(inc) = {} /\ LeftMissing(j) = j.missing
    BY <1>1, <1>8, EmptyLists DEF LeftMissing
  <2>3. i = EmptyList /\ d = From(dcd, t) /\ L = d
    BY <1>5, <1>8, <2>1, <2>2
  <2>4. ~IsEmpty(d) /\ FrontOf(d) = t /\ d[t] = dcd[t]
    <3>1. t \in LaterKeys(dcd)
      BY <2>1 DEF FirstKey
    <3> HIDE DEF d, L, M
    <3> QED BY <1>1, <2>3, <3>1, FromKey
  <2>5. M = DropBelowKeys(dcd, LeftMissing(j), UpTo(dcd, t))
    <3>1. M = DropPackets(j.missing, EstimatedLowSequenceNumber(dcd[t]))
      BY <2>3, <2>4
    <3> HIDE DEF M
    <3> QED BY <1>1, <2>1, <2>2, <3>1, DropAtKey
  <2> HIDE DEF M, d, L
  <2>6. r = [jb |-> Recycled(j, i, d, M, InitialDecodingState), key |-> TRUE]
    BY <1>2, <1>3, <2>3, <2>4
  <2> QED BY <2>1, <2>3, <2>5, <2>6 DEF AtDecodableKey
<1>9. ASSUME LaterKeys(inc) = {}, IF IsEmpty(inc) THEN LaterKeys(dcd) = {} ELSE IsEmpty(dcd)
      PROVE  r = NoFrames(j)
  <2>1. i = EmptyList
    BY <1>5, <1>9
  <2>2. d = EmptyList
    <3>1. CASE IsEmpty(inc)
      BY <1>5, <1>9, <3>1
    <3>2. CASE ~IsEmpty(inc)
      BY <1>1, <1>9, <3>2, EmptyLists
    <3> QED BY <3>1, <3>2
  <2>3. IsEmpty(d) /\ IsEmpty(L)
    <3>1. L = EmptyList
      BY <2>1, <2>2
    <3> HIDE DEF L, d
    <3> QED BY <2>2, <3>1, EmptyListType DEF IsEmpty
  <2> HIDE DEF M, d, L
  <2>4. r = [jb |-> Recycled(j, i, d, {}, InitialDecodingState), key |-> FALSE]
    BY <1>2, <1>3, <2>3
  <2> QED BY <2>1, <2>2, <2>4 DEF NoFrames
<1> QED BY <1>6, <1>7, <1>8, <1>9 DEF Round, r

\* Recycling keeps the buffer one of the stream.
LEMMA RecycledTimed ==
    ASSUME NEW j \in TimedJB, NEW i, Sublist(i, j.incomplete),
           NEW d, Sublist(d, j.decodable), NEW M \in SUBSET j.missing,
           NEW st \in {j.last, InitialDecodingState}
    PROVE  Recycled(j, i, d, M, st) \in TimedJB
<1> DEFINE k == Recycled(j, i, d, M, st)
<1>1. j \in JB /\ j.incomplete \in TimedList /\ j.decodable \in TimedList
  BY DEF TimedJB
<1>2. st \in DecodingState /\ i \in FrameList /\ d \in FrameList
  BY <1>1, RingTypes DEF JB, Sublist
<1>3. IsRecycled(j, k)
  BY <1>2 DEF IsRecycled
<1>4. k.incomplete = i /\ k.decodable = d
  BY <1>1, RecycledFields
<1> HIDE DEF k
<1>5. k \in JB
  BY <1>1, <1>3, RecycledType
<1>6. i \in TimedList /\ d \in TimedList
  BY <1>1, <1>2 DEF TimedList, Sublist
<1> QED BY <1>4, <1>5, <1>6 DEF TimedJB, k

\* The NACK lists of the rounds are parts of that of the buffer.
LEMMA DropParts ==
    ASSUME NEW j, NEW L, NEW K
    PROVE  /\ LeftMissing(j) \subseteq j.missing
           /\ DropBelowKeys(L, j.missing, K) \subseteq j.missing
           /\ DropBelowKeys(L, LeftMissing(j), K) \subseteq j.missing
BY DEF LeftMissing, DropBelowKeys

\* The places of the rounds are buffers of the stream.
LEMMA PlacesTimed ==
    ASSUME NEW j \in TimedJB
    PROVE  /\ \A t : AtKey(j, t).jb \in TimedJB /\ AtDecodableKey(j, t).jb \in TimedJB
           /\ NoIncomplete(j).jb \in TimedJB /\ NoFrames(j).jb \in TimedJB
<1>1. j \in JB /\ j.incomplete \in FrameList /\ j.decodable \in FrameList
  BY DEF TimedJB, JB
<1>2. /\ Sublist(EmptyList, j.incomplete) /\ Sublist(EmptyList, j.decodable)
      /\ Sublist(j.decodable, j.decodable)
      /\ \A t : Sublist(From(j.incomplete, t), j.incomplete)
      /\ \A t : Sublist(From(j.decodable, t), j.decodable)
  BY <1>1, SublistFacts
<1>3. LeftState(j) \in {j.last, InitialDecodingState}
  BY DEF LeftState
<1>4. ASSUME NEW t PROVE AtKey(j, t).jb \in TimedJB
  <2> DEFINE M == DropBelowKeys(j.incomplete, j.missing, UpTo(j.incomplete, t))
  <2>1. M \in SUBSET j.missing
    BY DropParts
  <2>2. AtKey(j, t).jb
          = Recycled(j, From(j.incomplete, t), j.decodable, M, InitialDecodingState)
    BY DEF AtKey
  <2> HIDE DEF M
  <2> QED BY <1>2, <2>1, <2>2, RecycledTimed
<1>5. ASSUME NEW t PROVE AtDecodableKey(j, t).jb \in TimedJB
  <2> DEFINE M == DropBelowKeys(j.decodable, LeftMissing(j), UpTo(j.decodable, t))
  <2>1. M \in SUBSET j.missing
    BY DropParts
  <2>2. AtDecodableKey(j, t).jb
          = Recycled(j, EmptyList, From(j.decodable, t), M, InitialDecodingState)
    BY DEF AtDecodableKey
  <2> HIDE DEF M
  <2> QED BY <1>2, <2>1, <2>2, RecycledTimed
<1>6. NoIncomplete(j).jb \in TimedJB
  <2>1. LeftMissing(j) \in SUBSET j.missing
    BY DropParts
  <2>2. NoIncomplete(j).jb
          = Recycled(j, EmptyList, j.decodable, LeftMissing(j), LeftState(j))
    BY DEF NoIncomplete
  <2> QED BY <1>2, <1>3, <2>1, <2>2, RecycledTimed
<1>7. NoFrames(j).jb \in TimedJB
  <2>1. {} \in SUBSET j.missing
    OBVIOUS
  <2>2. NoFrames(j).jb = Recycled(j, EmptyList, EmptyList, {}, InitialDecodingState)
    BY DEF NoFrames
  <2> QED BY <1>2, <2>1, <2>2, RecycledTimed
<1> QED BY <1>4, <1>5, <1>6, <1>7

\* The number of frames in the two lists.
Size(j) == Cardinality(DOMAIN j.incomplete) + Cardinality(DOMAIN j.decodable)

\* The round from j to r takes a frame, or leaves nothing to ask for.
TakesFrame(j, r) ==
    /\ r.jb \in TimedJB /\ r.key \in BOOLEAN
    /\ Size(j) \in Nat /\ Size(r.jb) \in Nat
    /\ Size(r.jb) < Size(j) \/ (Size(r.jb) <= Size(j) /\ r.jb.missing = {})

\* RecycleOnce does.
LEMMA RoundShrinks ==
    ASSUME ShortTimes, NEW j \in TimedJB
    PROVE  TakesFrame(j, RecycleOnce(j))
<1> DEFINE r == RecycleOnce(j)
           k == r.jb
           inc == j.incomplete
           dcd == j.decodable
           C(L) == Cardinality(DOMAIN L)
<1>1. j \in JB /\ inc \in FrameList /\ dcd \in FrameList
  BY DEF TimedJB, JB
<1>2. Round(j, r)
  BY RecycleOnceRound
<1> SUFFICES TakesFrame(j, r)
  OBVIOUS
<1> HIDE DEF r
<1>3. /\ C(inc) \in Nat /\ C(dcd) \in Nat /\ C(EmptyList) = 0
      /\ \A t : C(From(inc, t)) \in Nat /\ C(From(dcd, t)) \in Nat
  BY <1>1, FrameListTypes, FromType, EmptyListType
<1>4. /\ \A t \in LaterKeys(inc) : C(From(inc, t)) < C(inc)
      /\ \A t \in LaterKeys(dcd) : C(From(dcd, t)) < C(dcd)
      /\ ~IsEmpty(inc) => 0 < C(inc)
  <2>1. /\ \A t \in LaterKeys(inc) : C(inc) - C(From(inc, t)) > 0
        /\ \A t \in LaterKeys(dcd) : C(dcd) - C(From(dcd, t)) > 0
        /\ ~IsEmpty(inc) => C(inc) - C(EmptyList) > 0
    BY <1>1, FromDrops, EmptyListDrops DEF Dropped
  <2> HIDE DEF C
  <2>2. ASSUME NEW t \in LaterKeys(inc) PROVE C(From(inc, t)) < C(inc)
    BY <1>3, <2>1
  <2>3. ASSUME NEW t \in LaterKeys(dcd) PROVE C(From(dcd, t)) < C(dcd)
    BY <1>3, <2>1
  <2> QED BY <1>3, <2>1, <2>2, <2>3
<1> HIDE DEF C
<1>5. Size(j) = C(inc) + C(dcd) /\ Size(k) = C(k.incomplete) + C(k.decodable)
  BY DEF Size, C
<1>6. CASE LaterKeys(inc) # {}
  <2>1. PICK t : FirstKey(inc, t) /\ r = AtKey(j, t)
    BY <1>2, <1>6 DEF Round
  <2>2. t \in LaterKeys(inc) /\ r.key = TRUE /\ k \in TimedJB
    BY <2>1, PlacesTimed DEF FirstKey, AtKey
  <2>3. k.incomplete = From(inc, t) /\ k.decodable = dcd
    BY <1>1, <2>1, RecycledFields DEF AtKey
  <2>4. C(From(inc, t)) < C(inc)
    BY <1>4, <2>2
  <2>5. C(From(inc, t)) \in Nat
    BY <1>3
  <2>6. Size(j) \in Nat /\ Size(k) \in Nat /\ Size(k) < Size(j)
    BY ONLY <1>3, <1>5, <2>3, <2>4, <2>5
  <2> QED BY <2>2, <2>6 DEF TakesFrame
<1>7. CASE LaterKeys(inc) = {} /\ ~IsEmpty(inc) /\ ~IsEmpty(dcd)
  <2>1. r = NoIncomplete(j)
    BY <1>2, <1>7 DEF Round
  <2>2. r.key = FALSE /\ k \in TimedJB
    BY <2>1, PlacesTimed DEF NoIncomplete
  <2>3. k.incomplete = EmptyList /\ k.decodable = dcd
    BY <1>1, <2>1, RecycledFields DEF NoIncomplete
  <2>4. 0 < C(inc)
    BY <1>4, <1>7
  <2>5. Size(j) \in Nat /\ Size(k) \in Nat /\ Size(k) < Size(j)
    BY ONLY <1>3, <1>5, <2>3, <2>4
  <2> QED BY <2>2, <2>5 DEF TakesFrame
<1>8. CASE IsEmpty(inc) /\ LaterKeys(dcd) # {}
  <2>1. PICK t : FirstKey(dcd, t) /\ r = AtDecodableKey(j, t)
    BY <1>2, <1>8 DEF Round
  <2>2. t \in LaterKeys(dcd) /\ r.key = TRUE /\ k \in TimedJB
    BY <2>1, PlacesTimed DEF FirstKey, AtDecodableKey
  <2>3. k.incomplete = EmptyList /\ k.decodable = From(dcd, t)
    BY <1>1, <2>1, RecycledFields DEF AtDecodableKey
  <2>4. C(From(dcd, t)) < C(dcd)
    BY <1>4, <2>2
  <2>5. C(From(dcd, t)) \in Nat
    BY <1>3
  <2>6. Size(j) \in Nat /\ Size(k) \in Nat /\ Size(k) < Size(j)
    BY ONLY <1>3, <1>4, <1>5, <1>8, <2>3, <2>4, <2>5
  <2> QED BY <2>2, <2>6 DEF TakesFrame
<1>9. CASE LaterKeys(inc) = {} /\ (IF IsEmpty(inc) THEN LaterKeys(dcd) = {}
                                                   ELSE IsEmpty(dcd))
  <2>1. r = NoFrames(j)
    BY <1>2, <1>9 DEF Round
  <2>2. r.key = FALSE /\ k \in TimedJB
    BY <2>1, PlacesTimed DEF NoFrames
  <2>3. k.incomplete = EmptyList /\ k.decodable = EmptyList /\ k.missing = {}
    BY <1>1, <2>1, RecycledFields DEF NoFrames
  <2>4. Size(j) \in Nat /\ Size(k) \in Nat /\ Size(k) <= Size(j)
    BY ONLY <1>3, <1>5, <2>3
  <2> QED BY <2>2, <2>3, <2>4 DEF TakesFrame
<1>10. IsEmpty(inc) => LaterKeys(inc) = {}
  BY DEF IsEmpty, LaterKeys
<1> QED BY <1>6, <1>7, <1>8, <1>9, <1>10

\* The lists that the rounds leave are parts of the lists of the buffer.
LEMMA PartsOfLists ==
    ASSUME NEW j \in TimedJB
    PROVE  /\ j \in JB /\ j.incomplete \in TimedList /\ j.decodable \in TimedList
           /\ Sublist(EmptyList, j.incomplete) /\ Sublist(EmptyList, j.decodable)
           /\ Sublist(j.decodable, j.decodable)
           /\ \A t : Sublist(From(j.incomplete, t), j.incomplete)
           /\ \A t : Sublist(From(j.decodable, t), j.decodable)
<1>1. j \in JB /\ j.incomplete \in TimedList /\ j.decodable \in TimedList
      /\ j.incomplete \in FrameList /\ j.decodable \in FrameList
  BY DEF TimedJB, TimedList
<1> QED BY <1>1, SublistFacts

\* The round from the key frame of incomplete_frames_ at t.
RoundFromKey(j, t, r) ==
    LET K == From(j.incomplete, t)
    IN  /\ LaterKeys(K) # {} => \E u : FirstKey(K, u) /\ r = AtKey(j, u)
        /\ LaterKeys(K) = {} =>
              (IsEmpty(j.decodable) /\ r = NoFrames(j)) \/ r = NoIncomplete(j)

\* It goes on to the next one or to the end of the list.
LEMMA KeyRound ==
    ASSUME ShortTimes, NEW j \in TimedJB, NEW t \in LaterKeys(j.incomplete)
    PROVE  /\ RoundFromKey(j, t, RecycleOnce(AtKey(j, t).jb))
           /\ LaterKeys(From(j.incomplete, t)) = {}
                 => LeftMissing(j) = AtKey(j, t).jb.missing
<1> DEFINE inc == j.incomplete
           dcd == j.decodable
           K == From(inc, t)
           M == DropBelowKeys(inc, j.missing, UpTo(inc, t))
           k == AtKey(j, t).jb
           r == RecycleOnce(k)
<1>1. j \in JB /\ inc \in TimedList /\ dcd \in TimedList
      /\ Sublist(EmptyList, inc) /\ Sublist(EmptyList, dcd) /\ Sublist(dcd, dcd)
      /\ \A u : Sublist(From(inc, u), inc)
  BY PartsOfLists
<1>2. k = Recycled(j, K, dcd, M, InitialDecodingState)
  BY DEF AtKey
<1>3. k.incomplete = K /\ k.decodable = dcd /\ k.missing = M /\ k.last = InitialDecodingState
  BY <1>1, <1>2, RecycledFields
<1>4. k \in TimedJB /\ Round(k, r)
  BY PlacesTimed, RecycleOnceRound
<1>5. /\ K \in TimedList /\ t \in DOMAIN K /\ ~IsEmpty(K)
      /\ \A u \in DOMAIN K : K[u] = inc[u]
      /\ \A u \in LaterKeys(K) : From(K, u) = From(inc, u)
  BY <1>1, FromKey
<1> HIDE DEF k, r, M, K
<1>6. ASSUME NEW i, Sublist(i, inc), NEW d, Sublist(d, dcd), NEW X, NEW st
      PROVE  Recycled(k, i, d, X, st) = Recycled(j, i, d, X, st)
  BY <1>1, <1>2, <1>6, RecycledTwice DEF K
<1>7. ASSUME LaterKeys(K) # {} PROVE \E u : FirstKey(K, u) /\ r = AtKey(j, u)
  <2>1. PICK u : FirstKey(K, u) /\ r = AtKey(k, u)
    BY <1>3, <1>4, <1>7 DEF Round
  <2>2. u \in LaterKeys(K) /\ u \in DOMAIN K
    BY <2>1 DEF FirstKey, LaterKeys
  <2>3. DropBelowKeys(K, M, UpTo(K, u))
          = DropBelowKeys(inc, j.missing, UpTo(inc, u))
    <3>1. DropBelowKeys(K, M, UpTo(K, u))
            = DropPackets(M, EstimatedLowSequenceNumber(K[u]))
      BY <1>5, <2>1, DropAtKey
    <3>2. DropPackets(M, EstimatedLowSequenceNumber(inc[u]))
            = DropBelowKeys(inc, j.missing, UpTo(inc, u))
      BY <1>1, <2>1, DropAtKey DEF K, M
    <3> QED BY <1>5, <2>2, <3>1, <3>2
  <2>4. From(K, u) = From(inc, u)
    BY <1>5, <2>2
  <2> DEFINE X == DropBelowKeys(inc, j.missing, UpTo(inc, u))
  <2>5. r = [jb |-> Recycled(k, From(inc, u), dcd, X, InitialDecodingState), key |-> TRUE]
    BY <1>3, <2>1, <2>3, <2>4 DEF AtKey
  <2>6. Recycled(k, From(inc, u), dcd, X, InitialDecodingState)
          = Recycled(j, From(inc, u), dcd, X, InitialDecodingState)
    <3> HIDE DEF X
    <3> QED BY <1>1, <1>6
  <2>7. r = AtKey(j, u)
    BY <2>5, <2>6 DEF AtKey
  <2> QED BY <2>1, <2>7
<1>8. ASSUME LaterKeys(K) = {} PROVE LeftMissing(j) = M
  BY <1>1, <1>8, DropAtKey DEF K, M, LeftMissing
<1>9. ASSUME LaterKeys(K) = {}
      PROVE  (IsEmpty(dcd) /\ r = NoFrames(j)) \/ r = NoIncomplete(j)
  <2>1. (IsEmpty(dcd) /\ r = NoFrames(k)) \/ r = NoIncomplete(k)
    BY <1>3, <1>4, <1>5, <1>9 DEF Round
  <2>2. NoFrames(k) = NoFrames(j)
    BY <1>1, <1>6 DEF NoFrames
  <2>3. LeftMissing(k) = LeftMissing(j) /\ LeftState(k) = LeftState(j)
    BY <1>3, <1>8, <1>9 DEF LeftMissing, LeftState, DropBelowKeys
  <2>4. NoIncomplete(k) = NoIncomplete(j)
    BY <1>1, <1>3, <1>6, <2>3 DEF NoIncomplete
  <2> QED BY <2>1, <2>2, <2>4
<1> QED BY <1>3, <1>7, <1>8, <1>9 DEF RoundFromKey, k, r, K

\* The round from a buffer with decodable frames dcd alone.
RoundFromDecodable(j, dcd, r) ==
    /\ LaterKeys(dcd) # {} => \E u : FirstKey(dcd, u) /\ r = AtDecodableKey(j, u)
    /\ LaterKeys(dcd) = {} => r = NoFrames(j)

\* Once incomplete_frames_ is empty the rounds go through decodable_frames_.
LEMMA DecodableRounds ==
    ASSUME ShortTimes, NEW j \in TimedJB
    PROVE  /\ RoundFromDecodable(j, j.decodable, RecycleOnce(NoIncomplete(j).jb))
           /\ \A t \in LaterKeys(j.decodable) :
                 RoundFromDecodable(j, From(j.decodable, t),
                                    RecycleOnce(AtDecodableKey(j, t).jb))
<1> DEFINE inc == j.incomplete
           dcd == j.decodable
           N == LeftMissing(j)
<1>1. j \in JB /\ inc \in TimedList /\ dcd \in TimedList
      /\ Sublist(EmptyList, inc) /\ Sublist(EmptyList, dcd) /\ Sublist(dcd, dcd)
      /\ \A u : Sublist(From(dcd, u), dcd)
  BY PartsOfLists
<1>2. IsEmpty(EmptyList) /\ LaterKeys(EmptyList) = {}
      /\ \A X : DropBelowKeys(EmptyList, X, {}) = X
  BY EmptyListType, EmptyLists DEF IsEmpty
<1>3. ASSUME NEW k \in TimedJB, NEW K \in TimedList, Sublist(K, dcd), NEW X, NEW st,
             k = Recycled(j, EmptyList, K, X, st),
             \A u : FirstKey(K, u) =>
                /\ From(K, u) = From(dcd, u)
                /\ DropBelowKeys(K, X, UpTo(K, u)) = DropBelowKeys(dcd, N, UpTo(dcd, u))
      PROVE  RoundFromDecodable(j, K, RecycleOnce(k))
  <2> DEFINE r == RecycleOnce(k)
  <2>1. k.incomplete = EmptyList /\ k.decodable = K /\ k.missing = X
    BY <1>1, <1>3, RecycledFields
  <2>2. Round(k, r)
    BY RecycleOnceRound
  <2> HIDE DEF r, N
  <2>3. ASSUME NEW d, Sublist(d, dcd), NEW Y, NEW s
        PROVE  Recycled(k, EmptyList, d, Y, s) = Recycled(j, EmptyList, d, Y, s)
    BY <1>1, <1>3, <2>3, RecycledTwice
  <2>4. LeftMissing(k) = X
    BY <1>2, <2>1 DEF LeftMissing
  <2>5. ASSUME LaterKeys(K) # {} PROVE \E u : FirstKey(K, u) /\ r = AtDecodableKey(j, u)
    <3>1. PICK u : FirstKey(K, u) /\ r = AtDecodableKey(k, u)
      BY <1>2, <2>1, <2>2, <2>5 DEF Round
    <3> DEFINE Y == DropBelowKeys(dcd, N, UpTo(dcd, u))
    <3>2. r = [jb |-> Recycled(k, EmptyList, From(dcd, u), Y, InitialDecodingState),
               key |-> TRUE]
      BY <1>3, <2>1, <2>4, <3>1 DEF AtDecodableKey
    <3>3. Recycled(k, EmptyList, From(dcd, u), Y, InitialDecodingState)
            = Recycled(j, EmptyList, From(dcd, u), Y, InitialDecodingState)
      <4> HIDE DEF Y
      <4> QED BY <1>1, <2>3
    <3>4. r = AtDecodableKey(j, u)
      BY <3>2, <3>3 DEF AtDecodableKey, N
    <3> QED BY <3>1, <3>4
  <2>6. ASSUME LaterKeys(K) = {} PROVE r = NoFrames(j)
    <3>1. r = NoFrames(k)
      BY <1>2, <2>1, <2>2, <2>6 DEF Round
    <3> QED BY <1>1, <2>3, <3>1 DEF NoFrames
  <2> QED BY <2>5, <2>6 DEF RoundFromDecodable, r
<1>4. RoundFromDecodable(j, dcd, RecycleOnce(NoIncomplete(j).jb))
  <2> DEFINE k == NoIncomplete(j).jb
             st == LeftState(j)
  <2>1. k \in TimedJB /\ k = Recycled(j, EmptyList, dcd, N, st)
    BY PlacesTimed DEF NoIncomplete
  <2> HIDE DEF k, N, st
  <2>2. RoundFromDecodable(j, dcd, RecycleOnce(k))
    BY <1>1, <1>3, <2>1
  <2> QED BY <2>2 DEF k
<1>5. ASSUME NEW t \in LaterKeys(dcd)
      PROVE  RoundFromDecodable(j, From(dcd, t), RecycleOnce(AtDecodableKey(j, t).jb))
  <2> DEFINE k == AtDecodableKey(j, t).jb
             K == From(dcd, t)
             X == DropBelowKeys(dcd, N, UpTo(dcd, t))
  <2>1. k \in TimedJB /\ k = Recycled(j, EmptyList, K, X, InitialDecodingState)
    BY PlacesTimed DEF AtDecodableKey
  <2>2. /\ K \in TimedList /\ Sublist(K, dcd)
        /\ \A u \in DOMAIN K : K[u] = dcd[u]
        /\ \A u \in LaterKeys(K) : From(K, u) = From(dcd, u)
    BY <1>1, FromKey
  <2> HIDE DEF k, K, X, N
  <2>3. ASSUME NEW u, FirstKey(K, u)
        PROVE  /\ From(K, u) = From(dcd, u)
               /\ DropBelowKeys(K, X, UpTo(K, u)) = DropBelowKeys(dcd, N, UpTo(dcd, u))
    <3>1. u \in LaterKeys(K) /\ u \in DOMAIN K
      BY <2>3 DEF FirstKey, LaterKeys
    <3>2. DropBelowKeys(K, X, UpTo(K, u))
            = DropPackets(X, EstimatedLowSequenceNumber(K[u]))
      BY <2>2, <2>3, DropAtKey
    <3>3. DropPackets(X, EstimatedLowSequenceNumber(dcd[u]))
            = DropBelowKeys(dcd, N, UpTo(dcd, u))
      BY <1>1, <2>3, DropAtKey DEF K, X
    <3> QED BY <2>2, <3>1, <3>2, <3>3
  <2>4. RoundFromDecodable(j, K, RecycleOnce(k))
    BY <1>3, <2>1, <2>2, <2>3
  <2> QED BY <2>4 DEF k, K
<1> QED BY <1>4, <1>5

(***************************************************************************)
(* The rounds go on until the NACK list is in a set E.                     *)
(***************************************************************************)
\* The rounds do not stop at a key frame of L before the one at t, at any.
NoneBefore(L, M, E, t) ==
    \A u \in LaterKeys(L) : IsNewerTimestamp(t, u)
                              => DropBelowKeys(L, M, UpTo(L, u)) \notin E

NoneAt(L, M, E) == \A u \in LaterKeys(L) : DropBelowKeys(L, M, UpTo(L, u)) \notin E

\* The key frame of L at which they stop, as a set of at most one.
StopIn(L, M, E) ==
    {t \in LaterKeys(L) : DropBelowKeys(L, M, UpTo(L, t)) \in E /\ NoneBefore(L, M, E, t)}

\* The next key frame is the first left, and the last one leaves none.
LEMMA NextKey ==
    ASSUME ShortTimes, NEW L \in TimedList, NEW M, NEW E
    PROVE  /\ \A u : FirstKey(L, u) => u \in LaterKeys(L) /\ NoneBefore(L, M, E, u)
           /\ \A t \in LaterKeys(L) :
                 NoneBefore(L, M, E, t) /\ DropBelowKeys(L, M, UpTo(L, t)) \notin E =>
                    /\ \A u : FirstKey(From(L, t), u)
                                => u \in LaterKeys(L) /\ NoneBefore(L, M, E, u)
                    /\ LaterKeys(From(L, t)) = {} => NoneAt(L, M, E)
<1> DEFINE D(t) == DropBelowKeys(L, M, UpTo(L, t))
<1>1. LaterKeys(L) \subseteq Times
  BY TimedListFinite DEF LaterKeys
<1>2. ASSUME NEW u, FirstKey(L, u) PROVE u \in LaterKeys(L) /\ NoneBefore(L, M, E, u)
  BY <1>2 DEF FirstKey, NoneBefore
<1>3. ASSUME NEW t \in LaterKeys(L), NoneBefore(L, M, E, t), D(t) \notin E
      PROVE  /\ \A u : FirstKey(From(L, t), u)
                          => u \in LaterKeys(L) /\ NoneBefore(L, M, E, u)
             /\ LaterKeys(From(L, t)) = {} => NoneAt(L, M, E)
  <2> DEFINE later == LaterKeys(From(L, t))
  <2>1. later = {u \in LaterKeys(L) : IsNewerTimestamp(u, t)}
    BY FromKey
  <2>2. \A u \in LaterKeys(L) : IsNewerTimestamp(t, u) => D(u) \notin E
    BY <1>3 DEF NoneBefore
  <2> HIDE DEF later, D
  <2>3. \A u \in LaterKeys(L) : u \in later \/ D(u) \notin E
    BY <1>1, <1>3, <2>1, <2>2, TimesOrdered
  <2>4. ASSUME NEW u, FirstKey(From(L, t), u)
        PROVE  u \in LaterKeys(L) /\ NoneBefore(L, M, E, u)
    <3>1. u \in later /\ \A v \in later : ~IsNewerTimestamp(u, v)
      BY <2>4 DEF FirstKey, later
    <3>2. u \in LaterKeys(L) /\ \A v \in LaterKeys(L) : IsNewerTimestamp(u, v) => D(v) \notin E
      BY <2>1, <2>3, <3>1
    <3> QED BY <3>2 DEF NoneBefore, D
  <2>5. later = {} => NoneAt(L, M, E)
    BY <2>3 DEF NoneAt, D
  <2> QED BY <2>4, <2>5 DEF later
<1> QED BY <1>2, <1>3

\* A set of at most one.
LEMMA StopInIs ==
    ASSUME ShortTimes, NEW L \in TimedList, NEW M, NEW E
    PROVE  /\ NoneAt(L, M, E) => StopIn(L, M, E) = {}
           /\ \A t \in StopIn(L, M, E) : StopIn(L, M, E) = {t}
           /\ \A t : t \in StopIn(L, M, E) => (CHOOSE u \in StopIn(L, M, E) : TRUE) = t
           /\ StopIn(L, M, E) = {} => NoneAt(L, M, E)
<1> DEFINE D(t) == DropBelowKeys(L, M, UpTo(L, t))
<1>1. LaterKeys(L) \subseteq Times
  BY TimedListFinite DEF LaterKeys
<1>2. StopIn(L, M, E) = {t \in LaterKeys(L) : D(t) \in E /\
                            \A u \in LaterKeys(L) : IsNewerTimestamp(t, u) => D(u) \notin E}
  BY DEF StopIn, NoneBefore
<1>3. NoneAt(L, M, E) <=> \A u \in LaterKeys(L) : D(u) \notin E
  BY DEF NoneAt
<1> HIDE DEF D
<1>4. NoneAt(L, M, E) => StopIn(L, M, E) = {}
  BY <1>2, <1>3
<1>5. ASSUME NEW t \in StopIn(L, M, E) PROVE StopIn(L, M, E) = {t}
  <2>1. ASSUME NEW u \in StopIn(L, M, E) PROVE u = t
    BY <1>1, <1>2, <1>5, <2>1, TimesOrdered
  <2> QED BY <1>5, <2>1
<1>6. ASSUME NEW t \in StopIn(L, M, E) PROVE (CHOOSE u \in StopIn(L, M, E) : TRUE) = t
  <2>1. StopIn(L, M, E) = {t}
    BY <1>5
  <2>2. (CHOOSE u \in {t} : TRUE) = t
    OBVIOUS
  <2> QED BY <2>1, <2>2
<1>7. ASSUME StopIn(L, M, E) = {} PROVE NoneAt(L, M, E)
  <2> DEFINE good == {t \in LaterKeys(L) : D(t) \in E}
  <2>1. good \subseteq Times
    BY <1>1
  <2>2. good \subseteq DOMAIN L
    BY DEF LaterKeys
  <2>3. IsFiniteSet(good)
    BY <2>2, TimedListFinite
  <2>4. good # {} => \E t \in good : \A u \in good : ~IsNewerTimestamp(t, u)
    <3> HIDE DEF good
    <3> QED BY <2>1, <2>3, OldestExists
  <2> QED BY <1>2, <1>3, <1>7, <2>4
<1> QED BY <1>4, <1>5, <1>6, <1>7

\* RecycleUntil for the NACK lists in E.
RecycleIn(j, E) ==
    LET inc == j.incomplete
        dcd == j.decodable
        inStop == StopIn(inc, j.missing, E)
        decStop == StopIn(dcd, LeftMissing(j), E)
    IN  IF inStop # {} THEN AtKey(j, CHOOSE t \in inStop : TRUE)
        ELSE IF ~IsEmpty(inc) /\ ~IsEmpty(dcd) /\ LeftMissing(j) \in E
        THEN [jb |-> Recycled(j, EmptyList, dcd, LeftMissing(j), j.last), key |-> FALSE]
        ELSE IF (IsEmpty(inc) \/ LeftMissing(j) \notin E) /\ decStop # {}
        THEN AtDecodableKey(j, CHOOSE t \in decStop : TRUE)
        ELSE NoFrames(j)

\* The free frames once the lists are i and d.
FreedBy(j, i, d) == j.free + Dropped(j.incomplete, i) + Dropped(j.decodable, d)

\* The places that RecycleUntil ends at, as it writes them.
LEMMA PlacesWritten ==
    ASSUME NEW j \in JB, NEW t
    PROVE  LET inc == j.incomplete
               dcd == j.decodable
               M == LeftMissing(j)
               reset == [j EXCEPT !.last = InitialDecodingState]
           IN  /\ AtKey(j, t)
                    = [jb |-> [reset EXCEPT
                                 !.incomplete = From(inc, t),
                                 !.free = FreedBy(j, From(inc, t), dcd),
                                 !.missing = DropBelowKeys(inc, j.missing, UpTo(inc, t))],
                       key |-> TRUE]
               /\ [jb |-> Recycled(j, EmptyList, dcd, M, j.last), key |-> FALSE]
                    = [jb |-> [j EXCEPT !.incomplete = EmptyList,
                                        !.free = FreedBy(j, EmptyList, dcd),
                                        !.missing = M],
                       key |-> FALSE]
               /\ AtDecodableKey(j, t)
                    = [jb |-> [reset EXCEPT
                                 !.incomplete = EmptyList,
                                 !.decodable = From(dcd, t),
                                 !.free = FreedBy(j, EmptyList, From(dcd, t)),
                                 !.missing = DropBelowKeys(dcd, M, UpTo(dcd, t))],
                       key |-> TRUE]
               /\ NoFrames(j)
                    = [jb |-> [reset EXCEPT !.incomplete = EmptyList,
                                            !.decodable = EmptyList,
                                            !.free = FreedBy(j, EmptyList, EmptyList),
                                            !.missing = {}],
                       key |-> FALSE]
<1> DEFINE inc == j.incomplete
           dcd == j.decodable
           reset == [j EXCEPT !.last = InitialDecodingState]
<1>1. ASSUME NEW i, NEW d, NEW X
      PROVE  [reset EXCEPT !.incomplete = i, !.decodable = d, !.free = FreedBy(j, i, d),
                           !.missing = X]
               = Recycled(j, i, d, X, InitialDecodingState)
  <2> DEFINE n == FreedBy(j, i, d)
  <2>1. Recycled(j, i, d, X, InitialDecodingState)
          = [j EXCEPT !.incomplete = i, !.decodable = d, !.free = n,
                      !.missing = X, !.last = InitialDecodingState]
    BY DEF Recycled, FreedBy
  <2> HIDE DEF n
  <2>2. [reset EXCEPT !.incomplete = i, !.decodable = d, !.free = n, !.missing = X]
          = [j EXCEPT !.incomplete = i, !.decodable = d, !.free = n,
                      !.missing = X, !.last = InitialDecodingState]
    <3>1. j \in JB
      OBVIOUS
    <3> QED BY ONLY <3>1 DEF JB
  <2> QED BY <2>1, <2>2 DEF n
<1>2. ASSUME NEW i, NEW X
      PROVE  [reset EXCEPT !.incomplete = i, !.free = FreedBy(j, i, dcd), !.missing = X]
               = Recycled(j, i, dcd, X, InitialDecodingState)
  <2> DEFINE n == FreedBy(j, i, dcd)
  <2>1. Recycled(j, i, dcd, X, InitialDecodingState)
          = [j EXCEPT !.incomplete = i, !.decodable = dcd, !.free = n,
                      !.missing = X, !.last = InitialDecodingState]
    BY DEF Recycled, FreedBy
  <2> HIDE DEF n
  <2>2. [reset EXCEPT !.incomplete = i, !.free = n, !.missing = X]
          = [j EXCEPT !.incomplete = i, !.decodable = dcd, !.free = n,
                      !.missing = X, !.last = InitialDecodingState]
    <3>1. j \in JB
      OBVIOUS
    <3> QED BY ONLY <3>1 DEF JB
  <2> QED BY <2>1, <2>2 DEF n
<1>3. ASSUME NEW X
      PROVE  [j EXCEPT !.incomplete = EmptyList, !.free = FreedBy(j, EmptyList, dcd),
                       !.missing = X]
               = Recycled(j, EmptyList, dcd, X, j.last)
  <2> DEFINE n == FreedBy(j, EmptyList, dcd)
  <2>1. Recycled(j, EmptyList, dcd, X, j.last)
          = [j EXCEPT !.incomplete = EmptyList, !.decodable = dcd, !.free = n,
                      !.missing = X, !.last = j.last]
    BY DEF Recycled, FreedBy
  <2> HIDE DEF n
  <2>2. [j EXCEPT !.incomplete = EmptyList, !.free = n, !.missing = X]
          = [j EXCEPT !.incomplete = EmptyList, !.decodable = dcd, !.free = n,
                      !.missing = X, !.last = j.last]
    <3>1. j \in JB
      OBVIOUS
    <3> QED BY ONLY <3>1 DEF JB
  <2> QED BY <2>1, <2>2 DEF n
<1> QED BY <1>1, <1>2, <1>3 DEF AtKey, AtDecodableKey, NoFrames

\* HandleTooLargeNackList, HandleTooOldPackets and RecycleFramesUntilKeyFrame
\* go on until the NACK list is in one of these sets.
Small == {X \in SUBSET SeqNum : SmallEnough(X)}
Young(seq) == {X \in SUBSET SeqNum : YoungEnough(X, seq)}
Anything == SUBSET SeqNum

\* The NACK lists of the rounds are sets of sequence numbers.
LEMMA NackTypes ==
    ASSUME NEW j \in JB
    PROVE  /\ LeftMissing(j) \in SUBSET SeqNum
           /\ \A L, K : DropBelowKeys(L, j.missing, K) \in SUBSET SeqNum
           /\ \A L, K : DropBelowKeys(L, LeftMissing(j), K) \in SUBSET SeqNum
<1>1. j.missing \in SUBSET SeqNum
  BY DEF JB
<1> QED BY <1>1, DropParts

\* RecycleUntil with its two stops, and whether the NACK list is good enough in
\* between, as parameters.
WrittenAt(j, inStop, decStop, ok) ==
    LET inc == j.incomplete
        dcd == j.decodable
        M == LeftMissing(j)
        reset == [j EXCEPT !.last = InitialDecodingState]
    IN  IF inStop # {}
        THEN LET t == CHOOSE t \in inStop : TRUE
             IN  [jb |-> [reset EXCEPT
                            !.incomplete = From(inc, t),
                            !.free = FreedBy(j, From(inc, t), dcd),
                            !.missing = DropBelowKeys(inc, j.missing, UpTo(inc, t))],
                  key |-> TRUE]
        ELSE IF ~IsEmpty(inc) /\ ~IsEmpty(dcd) /\ ok
        THEN [jb |-> [j EXCEPT !.incomplete = EmptyList,
                               !.free = FreedBy(j, EmptyList, dcd),
                               !.missing = M],
              key |-> FALSE]
        ELSE IF (IsEmpty(inc) \/ ~ok) /\ decStop # {}
        THEN LET t == CHOOSE t \in decStop : TRUE
             IN  [jb |-> [reset EXCEPT
                            !.incomplete = EmptyList,
                            !.decodable = From(dcd, t),
                            !.free = FreedBy(j, EmptyList, From(dcd, t)),
                            !.missing = DropBelowKeys(dcd, M, UpTo(dcd, t))],
                  key |-> TRUE]
        ELSE [jb |-> [reset EXCEPT !.incomplete = EmptyList,
                                   !.decodable = EmptyList,
                                   !.free = FreedBy(j, EmptyList, EmptyList),
                                   !.missing = {}],
              key |-> FALSE]

\* It ends at the places of the rounds.
LEMMA WrittenIn ==
    ASSUME NEW j \in JB, NEW E
    PROVE  WrittenAt(j, StopIn(j.incomplete, j.missing, E),
                     StopIn(j.decodable, LeftMissing(j), E), LeftMissing(j) \in E)
             = RecycleIn(j, E)
<1> DEFINE A == StopIn(j.incomplete, j.missing, E)
           B == StopIn(j.decodable, LeftMissing(j), E)
           ok == LeftMissing(j) \in E
           ti == CHOOSE t \in A : TRUE
           td == CHOOSE t \in B : TRUE
<1>1. WrittenAt(j, A, B, ok)
        = IF A # {} THEN AtKey(j, ti)
          ELSE IF ~IsEmpty(j.incomplete) /\ ~IsEmpty(j.decodable) /\ ok
          THEN [jb |-> Recycled(j, EmptyList, j.decodable, LeftMissing(j), j.last),
                key |-> FALSE]
          ELSE IF (IsEmpty(j.incomplete) \/ ~ok) /\ B # {}
          THEN AtDecodableKey(j, td)
          ELSE NoFrames(j)
  <2> HIDE DEF ok
  <2>1. CASE A # {}
    <3>1. WrittenAt(j, A, B, ok)
            = [jb |-> [[j EXCEPT !.last = InitialDecodingState] EXCEPT
                         !.incomplete = From(j.incomplete, ti),
                         !.free = FreedBy(j, From(j.incomplete, ti), j.decodable),
                         !.missing = DropBelowKeys(j.incomplete, j.missing,
                                                   UpTo(j.incomplete, ti))],
               key |-> TRUE]
      <4> HIDE DEF A, B
      <4> QED BY <2>1 DEF WrittenAt
    <3> HIDE DEF A, B, ti
    <3> QED BY <2>1, <3>1, PlacesWritten
  <2>2. CASE A = {} /\ ~IsEmpty(j.incomplete) /\ ~IsEmpty(j.decodable) /\ ok
    <3> HIDE DEF A, B
    <3> QED BY <2>2, PlacesWritten DEF WrittenAt
  <2>3. CASE /\ A = {} /\ ~(~IsEmpty(j.incomplete) /\ ~IsEmpty(j.decodable) /\ ok)
             /\ (IsEmpty(j.incomplete) \/ ~ok) /\ B # {}
    <3>1. WrittenAt(j, A, B, ok)
            = [jb |-> [[j EXCEPT !.last = InitialDecodingState] EXCEPT
                         !.incomplete = EmptyList,
                         !.decodable = From(j.decodable, td),
                         !.free = FreedBy(j, EmptyList, From(j.decodable, td)),
                         !.missing = DropBelowKeys(j.decodable, LeftMissing(j),
                                                   UpTo(j.decodable, td))],
               key |-> TRUE]
      <4> HIDE DEF A, B
      <4> QED BY <2>3 DEF WrittenAt
    <3> HIDE DEF A, B, td
    <3> QED BY <2>3, <3>1, PlacesWritten
  <2>4. CASE /\ A = {} /\ ~(~IsEmpty(j.incomplete) /\ ~IsEmpty(j.decodable) /\ ok)
             /\ ~((IsEmpty(j.incomplete) \/ ~ok) /\ B # {})
    <3> HIDE DEF A, B
    <3> QED BY <2>4, PlacesWritten DEF WrittenAt
  <2> HIDE DEF A, B, ti, td
  <2> QED BY <2>1, <2>2, <2>3, <2>4
<1> QED BY <1>1 DEF RecycleIn

\* The key frame at which the NACK list is in E first, as a set of at most one.
FirstIn(L, M, E) ==
    LET good == {t \in LaterKeys(L) : DropBelowKeys(L, M, UpTo(L, t)) \in E}
    IN  {t \in good : \A u \in good : ~IsNewerTimestamp(t, u)}

\* It is that of StopIn.
LEMMA FirstStop ==
    ASSUME NEW L, NEW M, NEW E
    PROVE  FirstIn(L, M, E) = StopIn(L, M, E)
BY DEF FirstIn, StopIn, NoneBefore

\* HandleTooLargeNackList goes on to a small NACK list.
LEMMA TooLargeIn ==
    ASSUME NEW j \in JB
    PROVE  HandleTooLargeNackList(j) = RecycleIn(j, Small)
<1> DEFINE inc == j.incomplete
           dcd == j.decodable
           M == LeftMissing(j)
           DI(t) == DropBelowKeys(inc, j.missing, UpTo(inc, t))
           DD(t) == DropBelowKeys(dcd, M, UpTo(dcd, t))
           gi == {t \in LaterKeys(inc) : SmallEnough(DI(t))}
           gd == {t \in LaterKeys(dcd) : SmallEnough(DD(t))}
           A == {t \in gi : \A u \in gi : ~IsNewerTimestamp(t, u)}
           B == {t \in gd : \A u \in gd : ~IsNewerTimestamp(t, u)}
<1>1. HandleTooLargeNackList(j) = WrittenAt(j, A, B, SmallEnough(M))
  BY DEF HandleTooLargeNackList, RecycleUntil, StopKey, WrittenAt, FreedBy,
         LeftMissing
<1>2. /\ \A t : SmallEnough(DI(t)) <=> DI(t) \in Small
      /\ \A t : SmallEnough(DD(t)) <=> DD(t) \in Small
      /\ SmallEnough(M) <=> M \in Small
  BY NackTypes DEF Small
<1>3. A = StopIn(inc, j.missing, Small) /\ B = StopIn(dcd, M, Small)
  <2>1. A = FirstIn(inc, j.missing, Small)
    BY <1>2 DEF FirstIn
  <2>2. B = FirstIn(dcd, M, Small)
    BY <1>2 DEF FirstIn
  <2> QED BY <2>1, <2>2, FirstStop
<1>4. SmallEnough(M) = (M \in Small)
  BY <1>2 DEF SmallEnough
<1> HIDE DEF A, B, M, DI, DD
<1>5. HandleTooLargeNackList(j) = WrittenAt(j, StopIn(inc, j.missing, Small), StopIn(dcd, M, Small), M \in Small)
  BY <1>1, <1>3, <1>4
<1> QED BY <1>5, WrittenIn DEF M

\* HandleTooOldPackets goes on to a NACK list with no packet too old.
LEMMA TooOldIn ==
    ASSUME NEW j \in JB, NEW seq
    PROVE  HandleTooOldPackets(j, seq) = RecycleIn(j, Young(seq))
<1> DEFINE inc == j.incomplete
           dcd == j.decodable
           M == LeftMissing(j)
           DI(t) == DropBelowKeys(inc, j.missing, UpTo(inc, t))
           DD(t) == DropBelowKeys(dcd, M, UpTo(dcd, t))
           gi == {t \in LaterKeys(inc) : YoungEnough(DI(t), seq)}
           gd == {t \in LaterKeys(dcd) : YoungEnough(DD(t), seq)}
           A == {t \in gi : \A u \in gi : ~IsNewerTimestamp(t, u)}
           B == {t \in gd : \A u \in gd : ~IsNewerTimestamp(t, u)}
<1>1. HandleTooOldPackets(j, seq) = WrittenAt(j, A, B, YoungEnough(M, seq))
  BY DEF HandleTooOldPackets, RecycleUntil, StopKey, WrittenAt, FreedBy,
         LeftMissing
<1>2. /\ \A t : YoungEnough(DI(t), seq) <=> DI(t) \in Young(seq)
      /\ \A t : YoungEnough(DD(t), seq) <=> DD(t) \in Young(seq)
      /\ YoungEnough(M, seq) <=> M \in Young(seq)
  BY NackTypes DEF Young
<1>3. A = StopIn(inc, j.missing, Young(seq)) /\ B = StopIn(dcd, M, Young(seq))
  <2>1. A = FirstIn(inc, j.missing, Young(seq))
    BY <1>2 DEF FirstIn
  <2>2. B = FirstIn(dcd, M, Young(seq))
    BY <1>2 DEF FirstIn
  <2> QED BY <2>1, <2>2, FirstStop
<1>4. YoungEnough(M, seq) = (M \in Young(seq))
  <2>1. YoungEnough(M, seq) \in BOOLEAN
    BY DEF YoungEnough
  <2> QED BY <1>2, <2>1
<1> HIDE DEF A, B, M, DI, DD
<1>5. HandleTooOldPackets(j, seq) = WrittenAt(j, StopIn(inc, j.missing, Young(seq)), StopIn(dcd, M, Young(seq)), M \in Young(seq))
  BY <1>1, <1>3, <1>4
<1> QED BY <1>5, WrittenIn DEF M

\* RecycleFramesUntilKeyFrame goes on to the first key frame.
LEMMA RecycleFramesIn ==
    ASSUME NEW j \in JB
    PROVE  RecycleFramesUntilKeyFrame(j) = RecycleIn(j, Anything)
<1> DEFINE inc == j.incomplete
           dcd == j.decodable
           M == LeftMissing(j)
           DI(t) == DropBelowKeys(inc, j.missing, UpTo(inc, t))
           DD(t) == DropBelowKeys(dcd, M, UpTo(dcd, t))
           gi == {t \in LaterKeys(inc) : TRUE}
           gd == {t \in LaterKeys(dcd) : TRUE}
           A == {t \in gi : \A u \in gi : ~IsNewerTimestamp(t, u)}
           B == {t \in gd : \A u \in gd : ~IsNewerTimestamp(t, u)}
<1>1. RecycleFramesUntilKeyFrame(j) = WrittenAt(j, A, B, TRUE)
  BY DEF RecycleFramesUntilKeyFrame, RecycleUntil, StopKey, WrittenAt, FreedBy,
         LeftMissing
<1>2. /\ \A t : TRUE <=> DI(t) \in Anything
      /\ \A t : TRUE <=> DD(t) \in Anything
      /\ TRUE <=> M \in Anything
  BY NackTypes DEF Anything
<1>3. A = StopIn(inc, j.missing, Anything) /\ B = StopIn(dcd, M, Anything)
  <2>1. A = FirstIn(inc, j.missing, Anything)
    BY <1>2 DEF FirstIn
  <2>2. B = FirstIn(dcd, M, Anything)
    BY <1>2 DEF FirstIn
  <2> QED BY <2>1, <2>2, FirstStop
<1>4. TRUE = (M \in Anything)
  BY <1>2
<1> HIDE DEF A, B, M, DI, DD
<1>5. RecycleFramesUntilKeyFrame(j) = WrittenAt(j, StopIn(inc, j.missing, Anything), StopIn(dcd, M, Anything), M \in Anything)
  BY <1>1, <1>3, <1>4
<1> QED BY <1>5, WrittenIn DEF M

\* RecycleFramesUntilKeyFrame is one round.
LEMMA RecycleFramesLoops ==
    ASSUME ShortTimes, NEW j \in TimedJB
    PROVE  RecycleFramesUntilKeyFrame(j) = RecycleOnce(j)
<1> DEFINE inc == j.incomplete
           dcd == j.decodable
           M == LeftMissing(j)
           A == StopIn(inc, j.missing, Anything)
           B == StopIn(dcd, M, Anything)
           r == RecycleOnce(j)
<1>1. j \in JB /\ inc \in TimedList /\ dcd \in TimedList
  BY PartsOfLists
<1>2. RecycleFramesUntilKeyFrame(j) = RecycleIn(j, Anything) /\ Round(j, r)
  BY <1>1, RecycleFramesIn, RecycleOnceRound
<1>3. /\ \A K : DropBelowKeys(inc, j.missing, K) \in Anything
      /\ \A K : DropBelowKeys(dcd, M, K) \in Anything
      /\ M \in Anything
  BY <1>1, NackTypes DEF Anything
<1> HIDE DEF r, M
<1>4. /\ \A t : FirstKey(inc, t) => t \in A
      /\ \A t : FirstKey(dcd, t) => t \in B
  BY <1>3 DEF FirstKey, StopIn, NoneBefore
<1>5. A \subseteq LaterKeys(inc) /\ B \subseteq LaterKeys(dcd)
  BY DEF StopIn
<1>6. /\ \A t \in A : (CHOOSE u \in A : TRUE) = t
      /\ \A t \in B : (CHOOSE u \in B : TRUE) = t
  BY <1>1, StopInIs
<1>7. RecycleIn(j, Anything)
        = IF A # {} THEN AtKey(j, CHOOSE t \in A : TRUE)
          ELSE IF ~IsEmpty(inc) /\ ~IsEmpty(dcd)
          THEN [jb |-> Recycled(j, EmptyList, dcd, M, j.last), key |-> FALSE]
          ELSE IF IsEmpty(inc) /\ B # {}
          THEN AtDecodableKey(j, CHOOSE t \in B : TRUE)
          ELSE NoFrames(j)
  BY <1>3 DEF RecycleIn, M
<1>8. /\ IsEmpty(inc) => LaterKeys(inc) = {}
      /\ IsEmpty(dcd) => LaterKeys(dcd) = {}
  BY DEF IsEmpty, LaterKeys
<1> HIDE DEF A, B
<1>9. CASE LaterKeys(inc) # {}
  <2>1. PICK t : FirstKey(inc, t) /\ r = AtKey(j, t)
    BY <1>2, <1>9 DEF Round
  <2>2. A # {} /\ (CHOOSE u \in A : TRUE) = t
    BY <1>4, <1>6, <2>1
  <2> QED BY <1>2, <1>7, <2>1, <2>2 DEF r
<1>10. CASE LaterKeys(inc) = {} /\ ~IsEmpty(inc) /\ ~IsEmpty(dcd)
  <2>1. r = NoIncomplete(j)
    BY <1>2, <1>10 DEF Round
  <2>2. LeftState(j) = j.last /\ A = {}
    BY <1>5, <1>10 DEF LeftState
  <2> QED BY <1>2, <1>7, <1>10, <2>1, <2>2 DEF r, NoIncomplete, M
<1>11. CASE IsEmpty(inc) /\ LaterKeys(dcd) # {}
  <2>1. PICK t : FirstKey(dcd, t) /\ r = AtDecodableKey(j, t)
    BY <1>2, <1>11 DEF Round
  <2>2. A = {} /\ B # {} /\ (CHOOSE u \in B : TRUE) = t
    BY <1>4, <1>5, <1>6, <1>8, <1>11, <2>1
  <2> QED BY <1>2, <1>7, <1>11, <2>1, <2>2 DEF r
<1>12. CASE LaterKeys(inc) = {} /\ (IF IsEmpty(inc) THEN LaterKeys(dcd) = {}
                                                    ELSE IsEmpty(dcd))
  <2>1. r = NoFrames(j)
    BY <1>2, <1>12 DEF Round
  <2>2. A = {} /\ B = {} /\ (IsEmpty(inc) \/ IsEmpty(dcd))
    BY <1>5, <1>8, <1>12
  <2> QED BY <1>2, <1>7, <2>1, <2>2 DEF r
<1> QED BY <1>8, <1>9, <1>10, <1>11, <1>12

\* The rounds have left incomplete_frames_ without stopping.
Past(j, E) == NoneAt(j.incomplete, j.missing, E) /\ LeftMissing(j) \notin E

\* Where the rounds come to.
RoundsReach(j, E, r) ==
    \/ r = [jb |-> j, key |-> FALSE]
    \/ \E t \in LaterKeys(j.incomplete) :
          r = AtKey(j, t) /\ NoneBefore(j.incomplete, j.missing, E, t)
    \/ Past(j, E) /\ r = NoIncomplete(j)
    \/ /\ Past(j, E)
       /\ \E t \in LaterKeys(j.decodable) :
             r = AtDecodableKey(j, t) /\ NoneBefore(j.decodable, LeftMissing(j), E, t)
    \/ Past(j, E) /\ NoneAt(j.decodable, LeftMissing(j), E) /\ r = NoFrames(j)

\* A round from there, with the NACK list not in E, comes there.
LEMMA ReachedOneMore ==
    ASSUME ShortTimes, NEW j \in TimedJB, NEW E, {} \in E, NEW r,
           RoundsReach(j, E, r), r.jb.missing \notin E
    PROVE  RoundsReach(j, E, RecycleOnce(r.jb))
<1> DEFINE inc == j.incomplete
           dcd == j.decodable
           M == LeftMissing(j)
           s == RecycleOnce(r.jb)
<1>1. j \in JB /\ inc \in TimedList /\ dcd \in TimedList
  BY PartsOfLists
<1>2. /\ \A t : AtKey(j, t).jb.missing = DropBelowKeys(inc, j.missing, UpTo(inc, t))
      /\ NoIncomplete(j).jb.missing = M /\ NoFrames(j).jb.missing = {}
      /\ \A t : AtDecodableKey(j, t).jb.missing = DropBelowKeys(dcd, M, UpTo(dcd, t))
  BY <1>1, RecycledFields DEF AtKey, NoIncomplete, AtDecodableKey, NoFrames
<1> SUFFICES RoundsReach(j, E, s)
  OBVIOUS
<1>3. IsEmpty(inc) => LaterKeys(inc) = {}
  BY DEF IsEmpty, LaterKeys
<1>4. LaterKeys(inc) = {} => M = j.missing /\ NoneAt(inc, j.missing, E)
  BY DEF LeftMissing, DropBelowKeys, NoneAt
<1>5. ASSUME NEW u, FirstKey(dcd, u), Past(j, E), s = AtDecodableKey(j, u)
      PROVE  RoundsReach(j, E, s)
  <2>1. u \in LaterKeys(dcd) /\ NoneBefore(dcd, M, E, u)
    BY <1>1, <1>5, NextKey
  <2> HIDE DEF s
  <2> QED BY <1>5, <2>1 DEF RoundsReach
<1>6. ASSUME LaterKeys(dcd) = {}, Past(j, E), s = NoFrames(j)
      PROVE  RoundsReach(j, E, s)
  <2>1. NoneAt(dcd, M, E)
    BY <1>6 DEF NoneAt
  <2> HIDE DEF s
  <2> QED BY <1>6, <2>1 DEF RoundsReach
<1>7. CASE r = [jb |-> j, key |-> FALSE]
  <2>1. r.jb = j /\ Round(j, s)
    BY <1>7, RecycleOnceRound
  <2>2. j.missing \notin E
    BY <2>1
  <2>3. LaterKeys(inc) = {} => Past(j, E)
    BY <1>4, <2>2 DEF Past
  <2> HIDE DEF s
  <2>4. CASE LaterKeys(inc) # {}
    <3>1. PICK t : FirstKey(inc, t) /\ s = AtKey(j, t)
      BY <2>1, <2>4 DEF Round
    <3>2. t \in LaterKeys(inc) /\ NoneBefore(inc, j.missing, E, t)
      BY <1>1, <3>1, NextKey
    <3> QED BY <3>1, <3>2 DEF RoundsReach
  <2>5. CASE LaterKeys(inc) = {} /\ ~IsEmpty(inc) /\ ~IsEmpty(dcd)
    BY <2>1, <2>3, <2>5 DEF RoundsReach, Round
  <2>6. CASE IsEmpty(inc) /\ LaterKeys(dcd) # {}
    <3>1. PICK t : FirstKey(dcd, t) /\ s = AtDecodableKey(j, t)
      BY <2>1, <2>6 DEF Round
    <3> QED BY <1>3, <1>5, <2>3, <2>6, <3>1
  <2>7. CASE LaterKeys(inc) = {} /\ (IF IsEmpty(inc) THEN LaterKeys(dcd) = {}
                                                     ELSE IsEmpty(dcd))
    <3>1. s = NoFrames(j)
      BY <2>1, <2>7 DEF Round
    <3>2. LaterKeys(dcd) = {}
      BY <2>7 DEF IsEmpty, LaterKeys
    <3> QED BY <1>6, <2>3, <2>7, <3>1, <3>2
  <2> QED BY <1>3, <2>4, <2>5, <2>6, <2>7
<1>8. CASE \E t \in LaterKeys(inc) : r = AtKey(j, t) /\ NoneBefore(inc, j.missing, E, t)
  <2>1. PICK t \in LaterKeys(inc) : r = AtKey(j, t) /\ NoneBefore(inc, j.missing, E, t)
    BY <1>8
  <2>2. /\ RoundFromKey(j, t, s)
        /\ LaterKeys(From(inc, t)) = {} => M = r.jb.missing
    BY <2>1, KeyRound
  <2>3. DropBelowKeys(inc, j.missing, UpTo(inc, t)) \notin E
    BY <1>2, <2>1
  <2>4. /\ \A u : FirstKey(From(inc, t), u)
                   => u \in LaterKeys(inc) /\ NoneBefore(inc, j.missing, E, u)
        /\ LaterKeys(From(inc, t)) = {} => NoneAt(inc, j.missing, E)
    BY <1>1, <2>1, <2>3, NextKey
  <2> HIDE DEF s, M
  <2>5. CASE LaterKeys(From(inc, t)) # {}
    <3>1. PICK u : FirstKey(From(inc, t), u) /\ s = AtKey(j, u)
      BY <2>2, <2>5 DEF RoundFromKey
    <3>2. u \in LaterKeys(inc) /\ NoneBefore(inc, j.missing, E, u)
      BY <2>4, <3>1
    <3> QED BY <3>1, <3>2 DEF RoundsReach
  <2>6. CASE LaterKeys(From(inc, t)) = {}
    <3>1. (IsEmpty(dcd) /\ s = NoFrames(j)) \/ s = NoIncomplete(j)
      BY <2>2, <2>6 DEF RoundFromKey
    <3>2. Past(j, E)
      BY <2>2, <2>4, <2>6 DEF Past, M
    <3>3. CASE s = NoIncomplete(j)
      BY <3>2, <3>3 DEF RoundsReach
    <3>4. CASE IsEmpty(dcd) /\ s = NoFrames(j)
      <4>1. LaterKeys(dcd) = {}
        BY <3>4 DEF IsEmpty, LaterKeys
      <4> QED BY <1>6, <3>2, <3>4, <4>1
    <3> QED BY <3>1, <3>3, <3>4
  <2> QED BY <2>5, <2>6
<1>9. CASE Past(j, E) /\ r = NoIncomplete(j)
  <2>1. RoundFromDecodable(j, dcd, s)
    BY <1>9, DecodableRounds
  <2> QED BY <1>5, <1>6, <1>9, <2>1 DEF RoundFromDecodable
<1>10. CASE /\ Past(j, E)
            /\ \E t \in LaterKeys(dcd) : r = AtDecodableKey(j, t) /\ NoneBefore(dcd, M, E, t)
  <2>1. PICK t \in LaterKeys(dcd) : r = AtDecodableKey(j, t) /\ NoneBefore(dcd, M, E, t)
    BY <1>10
  <2>2. RoundFromDecodable(j, From(dcd, t), s)
    BY <2>1, DecodableRounds
  <2>3. DropBelowKeys(dcd, M, UpTo(dcd, t)) \notin E
    BY <1>2, <2>1
  <2>4. /\ \A u : FirstKey(From(dcd, t), u)
                   => u \in LaterKeys(dcd) /\ NoneBefore(dcd, M, E, u)
        /\ LaterKeys(From(dcd, t)) = {} => NoneAt(dcd, M, E)
    BY <1>1, <2>1, <2>3, NextKey
  <2> HIDE DEF s
  <2>5. CASE LaterKeys(From(dcd, t)) # {}
    <3>1. PICK u : FirstKey(From(dcd, t), u) /\ s = AtDecodableKey(j, u)
      BY <2>2, <2>5 DEF RoundFromDecodable
    <3>2. u \in LaterKeys(dcd) /\ NoneBefore(dcd, M, E, u)
      BY <2>4, <3>1
    <3> QED BY <1>10, <3>1, <3>2 DEF RoundsReach
  <2>6. CASE LaterKeys(From(dcd, t)) = {}
    <3>1. s = NoFrames(j) /\ NoneAt(dcd, M, E)
      BY <2>2, <2>4, <2>6 DEF RoundFromDecodable
    <3> QED BY <1>10, <3>1 DEF RoundsReach
  <2> QED BY <2>5, <2>6
<1>11. CASE r = NoFrames(j)
  BY <1>2, <1>11
<1> QED BY <1>7, <1>8, <1>9, <1>10, <1>11 DEF RoundsReach

\* The rounds end, with the NACK list in E, where RecycleIn says.
LEMMA ReachedEnds ==
    ASSUME ShortTimes, NEW j \in TimedJB, NEW E, j.missing \notin E, NEW r,
           RoundsReach(j, E, r), r.jb.missing \in E
    PROVE  r = RecycleIn(j, E)
<1> DEFINE inc == j.incomplete
           dcd == j.decodable
           M == LeftMissing(j)
           A == StopIn(inc, j.missing, E)
           B == StopIn(dcd, M, E)
<1>1. j \in JB /\ inc \in TimedList /\ dcd \in TimedList
  BY PartsOfLists
<1>2. /\ \A t : AtKey(j, t).jb.missing = DropBelowKeys(inc, j.missing, UpTo(inc, t))
      /\ NoIncomplete(j).jb.missing = M
      /\ \A t : AtDecodableKey(j, t).jb.missing = DropBelowKeys(dcd, M, UpTo(dcd, t))
  BY <1>1, RecycledFields DEF AtKey, NoIncomplete, AtDecodableKey
<1>3. /\ \A t \in A : (CHOOSE u \in A : TRUE) = t
      /\ \A t \in B : (CHOOSE u \in B : TRUE) = t
      /\ NoneAt(inc, j.missing, E) => A = {}
      /\ NoneAt(dcd, M, E) => B = {}
  BY <1>1, StopInIs
<1>4. /\ \A t \in LaterKeys(inc) : NoneBefore(inc, j.missing, E, t)
              /\ DropBelowKeys(inc, j.missing, UpTo(inc, t)) \in E => t \in A
      /\ \A t \in LaterKeys(dcd) : NoneBefore(dcd, M, E, t)
              /\ DropBelowKeys(dcd, M, UpTo(dcd, t)) \in E => t \in B
  BY DEF StopIn
<1>5. RecycleIn(j, E)
        = IF A # {} THEN AtKey(j, CHOOSE t \in A : TRUE)
          ELSE IF ~IsEmpty(inc) /\ ~IsEmpty(dcd) /\ M \in E
          THEN [jb |-> Recycled(j, EmptyList, dcd, M, j.last), key |-> FALSE]
          ELSE IF (IsEmpty(inc) \/ M \notin E) /\ B # {}
          THEN AtDecodableKey(j, CHOOSE t \in B : TRUE)
          ELSE NoFrames(j)
  BY DEF RecycleIn
<1> HIDE DEF A, B, M
<1>6. Past(j, E) => A = {} /\ M \notin E
  BY <1>3 DEF Past, M
<1>7. r # [jb |-> j, key |-> FALSE]
  OBVIOUS
<1>8. CASE \E t \in LaterKeys(inc) : r = AtKey(j, t) /\ NoneBefore(inc, j.missing, E, t)
  <2>1. PICK t \in LaterKeys(inc) : r = AtKey(j, t) /\ NoneBefore(inc, j.missing, E, t)
    BY <1>8
  <2>2. t \in A
    BY <1>2, <1>4, <2>1
  <2> QED BY <1>3, <1>5, <2>1, <2>2
<1>9. CASE Past(j, E) /\ r = NoIncomplete(j)
  BY <1>2, <1>6, <1>9
<1>10. CASE /\ Past(j, E)
            /\ \E t \in LaterKeys(dcd) : r = AtDecodableKey(j, t) /\ NoneBefore(dcd, M, E, t)
  <2>1. PICK t \in LaterKeys(dcd) : r = AtDecodableKey(j, t) /\ NoneBefore(dcd, M, E, t)
    BY <1>10
  <2>2. t \in B
    BY <1>2, <1>4, <2>1
  <2> QED BY <1>3, <1>5, <1>6, <1>10, <2>1, <2>2
<1>11. CASE Past(j, E) /\ NoneAt(dcd, M, E) /\ r = NoFrames(j)
  BY <1>3, <1>5, <1>6, <1>11
<1> QED BY <1>7, <1>8, <1>9, <1>10, <1>11 DEF RoundsReach, M

\* A round with the NACK list in E changes nothing.
RoundTo(r, E) == IF r.jb.missing \in E THEN r ELSE RecycleOnce(r.jb)

\* The states p of the loop on j.
RoundsFrom(j, E, p) ==
    /\ p[0] = [jb |-> j, key |-> FALSE]
    /\ \A n \in Nat : p[n].jb \in TimedJB /\ p[n + 1] = RoundTo(p[n], E)
    /\ p[RoundsAtMost(j)] = RecycleIn(j, E)

\* After the rounds of RoundsAtMost the loop has ended there.
LEMMA RoundsEnd ==
    ASSUME ShortTimes, NEW j \in TimedJB, NEW E, {} \in E, j.missing \notin E
    PROVE  RoundsAtMost(j) \in Nat /\ \E p : RoundsFrom(j, E, p)
<1> DEFINE R == [jb : TimedJB, key : BOOLEAN]
           S == {r \in R : RoundsReach(j, E, r)}
           h == [r \in S |-> RoundTo(r, E)]
           m == [r \in S |-> Size(r.jb) + (IF r.jb.missing \in E THEN 0 ELSE 1)]
           a == [jb |-> j, key |-> FALSE]
           N == RoundsAtMost(j)
<1>1. ASSUME NEW r, RoundsReach(j, E, r) PROVE r \in S
  <2>1. /\ \A t : AtKey(j, t) \in R /\ AtDecodableKey(j, t) \in R
        /\ NoIncomplete(j) \in R /\ NoFrames(j) \in R /\ a \in R
    <3>1. /\ \A t : AtKey(j, t).jb \in TimedJB /\ AtDecodableKey(j, t).jb \in TimedJB
          /\ NoIncomplete(j).jb \in TimedJB /\ NoFrames(j).jb \in TimedJB
      BY PlacesTimed
    <3>2. ASSUME NEW t PROVE AtKey(j, t) \in R
      BY <3>1 DEF AtKey
    <3>3. ASSUME NEW t PROVE AtDecodableKey(j, t) \in R
      BY <3>1 DEF AtDecodableKey
    <3>4. NoIncomplete(j) \in R
      BY <3>1 DEF NoIncomplete
    <3>5. NoFrames(j) \in R
      BY <3>1 DEF NoFrames
    <3> QED BY <3>2, <3>3, <3>4, <3>5
  <2> HIDE DEF R
  <2> QED BY <1>1, <2>1 DEF RoundsReach
<1>2. a \in S
  <2>1. RoundsReach(j, E, a)
    BY DEF RoundsReach
  <2> QED BY <1>1, <2>1
<1>3. ASSUME NEW r \in S PROVE r.jb \in TimedJB /\ RoundsReach(j, E, r)
  OBVIOUS
<1>4. ASSUME NEW r \in S, r.jb.missing \notin E
      PROVE  RecycleOnce(r.jb) \in S /\ TakesFrame(r.jb, RecycleOnce(r.jb))
  <2>1. RoundsReach(j, E, RecycleOnce(r.jb))
    BY <1>3, <1>4, ReachedOneMore
  <2> QED BY <1>1, <1>3, <2>1, RoundShrinks
<1> HIDE DEF S
<1>5. h \in [S -> S]
  BY <1>4 DEF RoundTo
<1>6. ASSUME NEW k \in TimedJB PROVE Size(k) \in Nat
  BY RoundShrinks DEF TakesFrame
<1>7. m \in [S -> Nat]
  <2>1. ASSUME NEW r \in S
        PROVE  Size(r.jb) + (IF r.jb.missing \in E THEN 0 ELSE 1) \in Nat
    <3>1. Size(r.jb) \in Nat
      BY <1>3, <1>6
    <3> QED BY <3>1
  <2> QED BY <2>1
<1>8. Lowers(h, m, S)
  <2>1. ASSUME NEW r \in S, h[r] # r PROVE m[h[r]] < m[r]
    <3> DEFINE s == RecycleOnce(r.jb)
    <3>1. r.jb.missing \notin E /\ h[r] = s
      BY <2>1 DEF RoundTo
    <3>2. s \in S /\ TakesFrame(r.jb, s)
      BY <1>4, <3>1
    <3> HIDE DEF s
    <3>3. m[r] = Size(r.jb) + 1
      BY <3>1
    <3>4. m[s] = Size(s.jb) + (IF s.jb.missing \in E THEN 0 ELSE 1)
      BY <3>2
    <3>5. /\ Size(r.jb) \in Nat /\ Size(s.jb) \in Nat
          /\ Size(s.jb) < Size(r.jb) \/ (Size(s.jb) <= Size(r.jb) /\ s.jb.missing = {})
      BY <3>2 DEF TakesFrame
    <3> HIDE DEF m
    <3>6. m[s] < m[r]
      <4>1. CASE s.jb.missing \in E
        BY <3>3, <3>4, <3>5, <4>1
      <4>2. CASE s.jb.missing \notin E
        <5>1. Size(s.jb) < Size(r.jb)
          BY <3>5, <4>2
        <5>2. m[s] = Size(s.jb) + 1
          BY <3>4, <4>2
        <5> QED BY ONLY <3>3, <3>5, <5>1, <5>2
      <4> QED BY <4>1, <4>2
    <3> QED BY <3>1, <3>6
  <2> HIDE DEF h, m
  <2> QED BY <2>1 DEF Lowers
<1>9. N \in Nat /\ m[a] <= N
  <2>1. Size(j) \in Nat
    BY <1>6
  <2>2. N = Size(j) + 1
    BY DEF RoundsAtMost, Size
  <2>3. m[a] = Size(j) + 1
    BY <1>2
  <2> HIDE DEF N, m
  <2> QED BY <2>1, <2>2, <2>3
<1> HIDE DEF h, m, a, N
<1>10. PICK p \in [Nat -> S] : RunsTo(p, a, h, N)
  BY <1>2, <1>5, <1>7, <1>8, <1>9, LoopEnds
<1>11. \A n \in Nat : p[n] \in S /\ p[n].jb \in TimedJB /\ p[n + 1] = RoundTo(p[n], E)
  BY <1>3, <1>10 DEF RunsTo, h
<1>12. p[N] \in S /\ p[N] = RoundTo(p[N], E)
  BY <1>9, <1>10 DEF RunsTo, h
<1>13. p[N].jb.missing \in E
  <2> DEFINE r == p[N]
             s == RecycleOnce(r.jb)
  <2>1. SUFFICES ASSUME r.jb.missing \notin E PROVE FALSE
    OBVIOUS
  <2>2. r = s /\ r \in S
    BY <1>12, <2>1 DEF RoundTo
  <2>3. TakesFrame(r.jb, s)
    BY <1>4, <2>1, <2>2
  <2> HIDE DEF r, s
  <2>4. /\ Size(r.jb) \in Nat
        /\ Size(r.jb) < Size(r.jb) \/ r.jb.missing = {}
    BY <2>2, <2>3 DEF TakesFrame
  <2> QED BY <2>1, <2>4, SMTT(40)
<1>14. p[N] = RecycleIn(j, E)
  BY <1>3, <1>12, <1>13, ReachedEnds
<1>15. RoundsFrom(j, E, p)
  BY <1>10, <1>11, <1>14 DEF RoundsFrom, RunsTo, a, N
<1> QED BY <1>9, <1>15 DEF N

\* HandleTooLargeNackList is its loop.
LEMMA ShrinkLoops ==
    ASSUME ShortTimes, NEW j \in TimedJB, ~SmallEnough(j.missing)
    PROVE  HandleTooLargeNackList(j) = ShrinkLoop(j)
<1> DEFINE a == [jb |-> j, key |-> FALSE]
           N == RoundsAtMost(j)
           Is(g) == g = [i \in Nat |-> IF i = 0 THEN a ELSE ShrinkRound(g[i - 1])]
           after == CHOOSE g : Is(g)
<1>1. j \in JB /\ HandleTooLargeNackList(j) = RecycleIn(j, Small)
  BY PartsOfLists, TooLargeIn
<1>2. {} \in Small /\ j.missing \notin Small
  <2>1. SmallEnough({})
    BY FS_EmptySet, JitterBufferAssumption DEF SmallEnough
  <2> QED BY <2>1 DEF Small
<1>3. N \in Nat /\ \E p : RoundsFrom(j, Small, p)
  BY <1>2, RoundsEnd
<1>4. PICK p : RoundsFrom(j, Small, p)
  BY <1>3
<1>5. /\ p[0] = a
      /\ \A n \in Nat : p[n + 1] = ShrinkRound(p[n])
      /\ p[N] = RecycleIn(j, Small)
  <2>1. ASSUME NEW n \in Nat PROVE p[n + 1] = ShrinkRound(p[n])
    <3>1. p[n].jb \in TimedJB /\ p[n + 1] = RoundTo(p[n], Small)
      BY <1>4 DEF RoundsFrom
    <3>2. p[n].jb.missing \in SUBSET SeqNum
      BY <3>1, PartsOfLists DEF JB
    <3>3. p[n].jb.missing \in Small <=> SmallEnough(p[n].jb.missing)
      BY <3>2 DEF Small
    <3> QED BY <3>1, <3>3 DEF RoundTo, ShrinkRound
  <2> QED BY <1>4, <2>1 DEF RoundsFrom
<1>6. ShrinkLoop(j) = after[N]
  BY DEF ShrinkLoop
<1> HIDE DEF a, N
<1>7. Is([i \in Nat |-> p[i]])
  <2> DEFINE g == [i \in Nat |-> p[i]]
  <2>1. ASSUME NEW i \in Nat
        PROVE  g[i] = IF i = 0 THEN a ELSE ShrinkRound(g[i - 1])
    <3>1. CASE i = 0
      BY <1>5, <3>1
    <3>2. CASE i # 0
      <4>1. i - 1 \in Nat /\ i - 1 + 1 = i
        BY <3>2
      <4> QED BY <1>5, <3>2, <4>1
    <3> QED BY <3>1, <3>2
  <2> QED BY <2>1
<1>8. Is(after)
  <2> HIDE DEF Is
  <2> QED BY <1>7
<1> DEFINE A == {n \in Nat : after[n] = p[n]}
<1>9. Nat \subseteq A
  <2>1. 0 \in A
    BY <1>5, <1>8
  <2>2. ASSUME NEW n \in Nat, n \in A PROVE n + 1 \in A
    <3>1. after[n + 1] = ShrinkRound(after[n])
      <4>1. n + 1 \in Nat /\ n + 1 # 0 /\ (n + 1) - 1 = n
        OBVIOUS
      <4> QED BY <1>8, <4>1
    <3> QED BY <1>5, <2>2, <3>1
  <2> HIDE DEF A
  <2> QED BY <2>1, <2>2, LF!SetInduction
<1>10. after[N] = p[N]
  BY <1>3, <1>9 DEF N
<1> QED BY <1>1, <1>5, <1>6, <1>10

\* HandleTooOldPackets is its loop.
LEMMA AgeLoops ==
    ASSUME ShortTimes, NEW j \in TimedJB, NEW seq, ~YoungEnough(j.missing, seq)
    PROVE  HandleTooOldPackets(j, seq) = AgeLoop(j, seq)
<1> DEFINE a == [jb |-> j, key |-> FALSE]
           N == RoundsAtMost(j)
           Is(g) == g = [i \in Nat |-> IF i = 0 THEN a ELSE AgeRound(g[i - 1], seq)]
           after == CHOOSE g : Is(g)
<1>1. j \in JB /\ HandleTooOldPackets(j, seq) = RecycleIn(j, Young(seq))
  BY PartsOfLists, TooOldIn
<1>2. {} \in Young(seq) /\ j.missing \notin Young(seq)
  <2>1. YoungEnough({}, seq)
    BY DEF YoungEnough
  <2> QED BY <2>1 DEF Young
<1>3. N \in Nat /\ \E p : RoundsFrom(j, Young(seq), p)
  BY <1>2, RoundsEnd
<1>4. PICK p : RoundsFrom(j, Young(seq), p)
  BY <1>3
<1>5. /\ p[0] = a
      /\ \A n \in Nat : p[n + 1] = AgeRound(p[n], seq)
      /\ p[N] = RecycleIn(j, Young(seq))
  <2>1. ASSUME NEW n \in Nat PROVE p[n + 1] = AgeRound(p[n], seq)
    <3>1. p[n].jb \in TimedJB /\ p[n + 1] = RoundTo(p[n], Young(seq))
      BY <1>4 DEF RoundsFrom
    <3>2. p[n].jb.missing \in SUBSET SeqNum
      BY <3>1, PartsOfLists DEF JB
    <3>3. p[n].jb.missing \in Young(seq) <=> YoungEnough(p[n].jb.missing, seq)
      BY <3>2 DEF Young
    <3> QED BY <3>1, <3>3 DEF RoundTo, AgeRound
  <2> QED BY <1>4, <2>1 DEF RoundsFrom
<1>6. AgeLoop(j, seq) = after[N]
  BY DEF AgeLoop
<1> HIDE DEF a, N
<1>7. Is([i \in Nat |-> p[i]])
  <2> DEFINE g == [i \in Nat |-> p[i]]
  <2>1. ASSUME NEW i \in Nat
        PROVE  g[i] = IF i = 0 THEN a ELSE AgeRound(g[i - 1], seq)
    <3>1. CASE i = 0
      BY <1>5, <3>1
    <3>2. CASE i # 0
      <4>1. i - 1 \in Nat /\ i - 1 + 1 = i
        BY <3>2
      <4> QED BY <1>5, <3>2, <4>1
    <3> QED BY <3>1, <3>2
  <2> QED BY <2>1
<1>8. Is(after)
  <2> HIDE DEF Is
  <2> QED BY <1>7
<1> DEFINE A == {n \in Nat : after[n] = p[n]}
<1>9. Nat \subseteq A
  <2>1. 0 \in A
    BY <1>5, <1>8
  <2>2. ASSUME NEW n \in Nat, n \in A PROVE n + 1 \in A
    <3>1. after[n + 1] = AgeRound(after[n], seq)
      <4>1. n + 1 \in Nat /\ n + 1 # 0 /\ (n + 1) - 1 = n
        OBVIOUS
      <4> QED BY <1>8, <4>1
    <3> QED BY <1>5, <2>2, <3>1
  <2> HIDE DEF A
  <2> QED BY <2>1, <2>2, LF!SetInduction
<1>10. after[N] = p[N]
  BY <1>3, <1>9 DEF N
<1> QED BY <1>1, <1>5, <1>6, <1>10

-----------------------------------------------------------------------------
(***************************************************************************)
(* The buffers of the receiver: the frames have timestamps of the stream,  *)
(* and one without media packets is a delta frame still.                   *)
(***************************************************************************)
TimedFrames == {tf \in Times \X Frame : tf[2].state = "Empty" => tf[2].type = "delta"}

\* What VCMFrameBuffer::InsertPacket makes of a frame keeps it so.
LEMMA InsertKeepsEmpty ==
    ASSUME NEW f \in Frame, NEW p \in Packet, f.state = "Empty" => f.type = "delta"
    PROVE  LET g == FrameInsertPacket(f, p).frame
           IN  g.state = "Empty" => g.type = "delta"
<1> DEFINE f0 == [f EXCEPT !.state = IF @ = "Empty" /\ p.type # "empty"
                                     THEN "Incomplete" ELSE @]
           f1 == IF p.type = "empty" THEN InformOfEmptyPacket(f0, p.seq)
                                     ELSE InsertMediaPacket(f0, p)
           r == FrameInsertPacket(f, p)
<1>1. /\ f0 \in Frame /\ f0.type = f.type
      /\ f0.state = "Empty" => f.state = "Empty" /\ p.type = "empty"
  BY DEF Frame, FrameState
<1>2. p.type = "empty" => f1.type = f0.type
  <2> HIDE DEF f0
  <2> QED BY <1>1 DEF InformOfEmptyPacket, Frame
<1>3. f1.state = f0.state
  <2> HIDE DEF f0
  <2> QED BY <1>1 DEF InformOfEmptyPacket, InsertMediaPacket, Frame
<1>4. \E s \in {"Complete", "Decodable"} :
         \/ r.frame = f0 \/ r.frame = f1 \/ r.frame = [f1 EXCEPT !.state = s]
  <2> HIDE DEF f0, f1
  <2> QED BY DEF FrameInsertPacket, f0, f1
<1>5. f1 \in Frame
  <2> HIDE DEF f0
  <2> QED BY <1>1, InformOfEmptyPacketType, InsertMediaPacketType DEF Packet, FilledFrame
<1> HIDE DEF f0, f1, r
<1>6. \A s \in {"Complete", "Decodable"} : [f1 EXCEPT !.state = s].state = s
  BY <1>5 DEF Frame
<1>7. r.frame.state = "Empty" => r.frame.type = "delta"
  BY <1>1, <1>2, <1>3, <1>4, <1>6
<1> QED BY <1>7 DEF r

\* InsertPacket keeps the frames of the buffer so.
LEMMA InsertPacketTimed ==
    ASSUME NEW j \in JB, Sound(j), FramesIn(j, TimedFrames), NEW p \in Packets
    PROVE  FramesIn(InsertPacket(j, p).jb, TimedFrames)
<1> DEFINE x == InsertPacket(j, p).jb
<1>1. p \in Packet /\ p.ts \in Times
  BY VideoReceiverAssumption DEF Times
<1>2. CASE IsOldTimestamp(j.last, p.ts)
  <2>1. x = InsertOldPacket(j, p).jb
    BY <1>2 DEF InsertPacket
  <2>2. \/ \E l \in JB : x = Flush(l)
        \/ x.incomplete = j.incomplete /\ x.decodable = j.decodable
    BY <1>1, <2>1, InsertOldPacketResult
  <2> HIDE DEF x
  <2>3. ASSUME NEW l \in JB, x = Flush(l) PROVE FramesIn(x, TimedFrames)
    BY <2>3, FlushResult, EmptyFramesIn
  <2> QED BY <2>2, <2>3 DEF FramesIn, x
<1>3. CASE ~IsOldTimestamp(j.last, p.ts)
  <2> DEFINE g == GetFrame([j EXCEPT !.old = 0], p.ts)
             i == FrameInsertPacket(g.frame, p)
             k == Counted(g.jb, p, i.ret)
             r == InsertNewPacket(j, p)
  <2>1. x = r.jb
    BY <1>3 DEF InsertPacket
  <2>2. /\ g.frame \in Frame
        /\ Reduced(j, g.jb) /\ FoundIn(j, p.ts, g.from, g.frame)
        /\ Sublist(k.incomplete, g.jb.incomplete)
        /\ Sublist(k.decodable, g.jb.decodable)
        /\ \/ r.jb = g.jb
           \/ \A G : FramesIn(k, G) /\ <<p.ts, i.frame>> \in G => FramesIn(r.jb, G)
    BY <1>1, InsertNewPacketResult
  <2> HIDE DEF x, g
  <2>3. g.frame.state = "Empty" => g.frame.type = "delta"
    <3>1. \/ g.frame = EmptyFrame
          \/ <<p.ts, g.frame>> \in TimedFrames
      BY <2>2 DEF FoundIn, FramesIn
    <3>2. EmptyFrame.type = "delta"
      BY DEF EmptyFrame
    <3> QED BY <3>1, <3>2 DEF TimedFrames
  <2>4. i.frame \in Frame /\ (i.frame.state = "Empty" => i.frame.type = "delta")
    BY <1>1, <2>2, <2>3, FrameInsertPacketType, InsertKeepsEmpty
  <2> HIDE DEF i, k, r
  <2>5. <<p.ts, i.frame>> \in TimedFrames
    BY <1>1, <2>4 DEF TimedFrames
  <2>6. FramesIn(g.jb, TimedFrames) /\ FramesIn(k, TimedFrames)
    BY <2>2, ReducedFrames DEF Reduced
  <2>7. FramesIn(x, TimedFrames)
    BY <2>1, <2>2, <2>5, <2>6
  <2> QED BY <2>7 DEF x
<1> QED BY <1>2, <1>3

\* Every step does.
LEMMA TimedStep ==
    ASSUME IInv, FramesIn(jb, TimedFrames), Next
    PROVE  FramesIn(jb', TimedFrames)
<1>1. jb \in JB /\ Sound(jb)
  BY JBDef DEF IInv, MainInv, TypeOK, BufferInv
<1>2. ASSUME NEW p \in Packets, IncomingPacket(p) PROVE FramesIn(jb', TimedFrames)
  <2>1. jb' = InsertPacket(jb, p).jb
    BY <1>2 DEF IncomingPacket
  <2> QED BY <1>1, <2>1, InsertPacketTimed
<1>3. CASE Extract
  <2> DEFINE r == ExtractAndSetDecode(jb, decTs)
  <2>1. jb' = r.jb
    BY <1>3 DEF Extract
  <2>2. r.jb.incomplete = jb.incomplete /\ Sublist(r.jb.decodable, jb.decodable)
    BY <1>1, ExtractResult
  <2> HIDE DEF r
  <2> QED BY <2>1, <2>2 DEF FramesIn, Sublist
<1>4. CASE ~(\E p \in Packets : IncomingPacket(p)) /\ ~Extract
  <2>1. Sublist(jb'.incomplete, jb.incomplete) /\ Sublist(jb'.decodable, jb.decodable)
    BY <1>4, OtherSteps
  <2> QED BY <2>1, ReducedFrames
<1> QED BY <1>2, <1>3, <1>4

\* So it is always.
LEMMA TimedAlways == Spec => [](IInv /\ FramesIn(jb, TimedFrames))
<1>1. Init => FramesIn(jb, TimedFrames)
  <2> SUFFICES ASSUME Init PROVE FramesIn(jb, TimedFrames)
    OBVIOUS
  <2>1. jb.decodable = EmptyList /\ jb.incomplete = EmptyList
    BY DEF Init, Start, NewJB
  <2> QED BY <2>1, EmptyFramesIn
<1>2. IInv /\ FramesIn(jb, TimedFrames) /\ [Next]_vars => FramesIn(jb, TimedFrames)'
  <2>1. ASSUME IInv, FramesIn(jb, TimedFrames), Next PROVE FramesIn(jb, TimedFrames)'
    <3>1. FramesIn(jb', TimedFrames)
      BY <2>1, TimedStep
    <3> QED BY <3>1 DEF FramesIn
  <2>2. ASSUME FramesIn(jb, TimedFrames), UNCHANGED vars
        PROVE  FramesIn(jb, TimedFrames)'
    BY <2>2 DEF vars, FramesIn
  <2> QED BY <2>1, <2>2
<1>3. Spec => []IInv
  BY Invariance
<1> QED BY <1>1, <1>2, <1>3, PTL DEF Spec

\* What it says of the buffer.
LEMMA TimedBuffer ==
    ASSUME IInv, FramesIn(jb, TimedFrames)
    PROVE  /\ jb \in TimedJB
           /\ \A L \in {jb.decodable, jb.incomplete} : \A t \in DOMAIN L :
                 L[t].state = "Empty" => L[t].type = "delta"
<1>1. jb \in JB
  BY JBDef DEF IInv, MainInv, TypeOK
<1>2. jb.decodable \in FrameList /\ jb.incomplete \in FrameList
  BY <1>1 DEF JB
<1>3. DOMAIN jb.decodable \subseteq Times /\ DOMAIN jb.incomplete \subseteq Times
  BY DEF FramesIn, TimedFrames
<1>4. /\ \A t \in DOMAIN jb.decodable :
            jb.decodable[t].state = "Empty" => jb.decodable[t].type = "delta"
      /\ \A t \in DOMAIN jb.incomplete :
            jb.incomplete[t].state = "Empty" => jb.incomplete[t].type = "delta"
  BY DEF FramesIn, TimedFrames
<1> QED BY <1>1, <1>2, <1>3, <1>4 DEF TimedJB, TimedList

\* In every state of the receiver CleanUpList removes the frames that the loop of
\* FrameList::CleanUpOldOrEmptyFrames pops one by one, and leaves the decoding
\* state that VCMDecodingState::UpdateEmptyFrame has left after the last of them.
THEOREM CleanUpIsTheLoop ==
    ASSUME ShortTimes
    PROVE  Spec => []CleanUpAgrees
<1>1. IInv /\ FramesIn(jb, TimedFrames) => CleanUpAgrees
  <2> SUFFICES ASSUME IInv, FramesIn(jb, TimedFrames),
                      NEW L \in {jb.decodable, jb.incomplete}
               PROVE  CleanUpList(L, jb.last) = CleanUpLoop(L, jb.last)
    BY DEF CleanUpAgrees
  <2>1. jb \in TimedJB /\ \A t \in DOMAIN L : L[t].state = "Empty" => L[t].type = "delta"
    BY TimedBuffer
  <2>2. L \in TimedList /\ jb.last \in DecodingState
    BY <2>1 DEF TimedJB, JB
  <2> QED BY <2>1, <2>2, CleanUpListLoops
<1> QED BY <1>1, TimedAlways, PTL

\* In every state of the receiver, and from every decodable frame,
\* FindAndInsertContinuousFrames moves the frames that its walk over
\* incomplete_frames_ moves, each continuing the one moved before.
THEOREM InsertIsTheWalk ==
    ASSUME ShortTimes
    PROVE  Spec => []WalkAgrees
<1>1. IInv /\ FramesIn(jb, TimedFrames) => WalkAgrees
  <2> SUFFICES ASSUME IInv, FramesIn(jb, TimedFrames), NEW t \in DOMAIN jb.decodable
               PROVE  FindAndInsertContinuousFrames(jb, jb.decodable[t], t)
                        = WalkLoop(jb, jb.decodable[t], t)
    BY DEF WalkAgrees
  <2>1. jb \in JB /\ DOMAIN jb.incomplete \subseteq Times
    BY TimedBuffer DEF TimedJB, TimedList
  <2> DEFINE f == jb.decodable[t]
  <2> HIDE DEF f
  <2>2. FindAndInsertContinuousFrames(jb, f, t) = WalkLoop(jb, f, t)
    BY <2>1, FindAndInsertLoops
  <2> QED BY <2>2 DEF f
<1> QED BY <1>1, TimedAlways, PTL

\* In every state of the receiver RecycleFramesUntilKeyFrame is one round over the
\* two lists, and HandleTooLargeNackList and HandleTooOldPackets, for the NACK list
\* that UpdateNackList builds for a packet, are the loops that repeat the round
\* until the list is good enough; each ends after at most RoundsAtMost rounds.
THEOREM RecyclingIsTheLoop ==
    ASSUME ShortTimes
    PROVE  Spec => []RecycleAgrees
<1>1. IInv /\ FramesIn(jb, TimedFrames) => RecycleAgrees
  <2> SUFFICES ASSUME IInv, FramesIn(jb, TimedFrames) PROVE RecycleAgrees
    OBVIOUS
  <2>1. jb \in TimedJB
    BY TimedBuffer
  <2>2. RecycleFramesUntilKeyFrame(jb) = RecycleOnce(jb)
    BY <2>1, RecycleFramesLoops
  <2>3. ASSUME NEW p \in Packets,
               NEW k, k = [jb EXCEPT !.missing = @ \cup SeqBetween(jb.latest, p.seq)]
        PROVE  /\ ~SmallEnough(k.missing) => HandleTooLargeNackList(k) = ShrinkLoop(k)
               /\ ~YoungEnough(k.missing, p.seq) =>
                     HandleTooOldPackets(k, p.seq) = AgeLoop(k, p.seq)
    <3>1. k \in TimedJB
      <4> DEFINE X == jb.missing \cup SeqBetween(jb.latest, p.seq)
      <4>1. jb \in JB /\ jb.incomplete \in TimedList /\ jb.decodable \in TimedList
        BY <2>1 DEF TimedJB
      <4>2. X \in SUBSET SeqNum /\ k = [jb EXCEPT !.missing = X]
        <5>1. p.seq \in SeqNum /\ jb.latest \in SeqNum /\ jb.missing \subseteq SeqNum
          BY <4>1, VideoReceiverAssumption DEF JB, Packet
        <5> QED BY <2>3, <5>1, RingTypes
      <4> HIDE DEF X
      <4>3. k \in JB /\ k.incomplete = jb.incomplete /\ k.decodable = jb.decodable
        BY <4>1, <4>2 DEF JB
      <4> QED BY <4>1, <4>3 DEF TimedJB
    <3>2. ASSUME ~SmallEnough(k.missing) PROVE HandleTooLargeNackList(k) = ShrinkLoop(k)
      BY <3>1, <3>2, ShrinkLoops
    <3> DEFINE s == p.seq
    <3> HIDE DEF s
    <3>3. ASSUME ~YoungEnough(k.missing, s) PROVE HandleTooOldPackets(k, s) = AgeLoop(k, s)
      BY <3>1, <3>3, AgeLoops
    <3> QED BY <3>2, <3>3 DEF s
  <2> QED BY <2>2, <2>3 DEF RecycleAgrees
<1> QED BY <1>1, TimedAlways, PTL
=============================================================================
