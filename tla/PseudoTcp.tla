----------------------------- MODULE PseudoTcp -----------------------------
(***************************************************************************)
(* cricket::PseudoTcp: TCP over an unreliable datagram channel.  One end   *)
(* is a record tcb; all calls of it are made under the lock of its channel,*)
(* so that each method is an operator from the state before to a record w  *)
(* of the state after and the packets written meanwhile.                   *)
(*                                                                         *)
(* A byte is a unit of data; the CONNECT message is one unit.  Clocks, the *)
(* estimate of the round trip time and the window scale (0 for the default *)
(* buffers) are left out: a timer that runs may expire at any time.  The   *)
(* peer belongs to the same conversation, and nobody sends FLAG_RST. Every  *)
(* MTU is larger than the overhead of a packet.                            *)
(***************************************************************************)
EXTENDS Integers, SequencesExt

CONSTANTS RcvBuf, SndBuf,      \* m_rbuf_len, m_sbuf_len
          MssLevels,           \* PACKET_MAXIMUMS without the overhead
          PathMss,             \* what the channel takes without WR_TOO_LARGE
          UseNagling,          \* m_use_nagling
          MaxXmit,             \* 15 in the code
          MaxXmitConnecting,   \* 30 in the code
          MaxCwnd              \* bound on the congestion window

ASSUME PseudoTcpAssumption ==
    /\ RcvBuf \in Nat \ {0}
    /\ SndBuf \in Nat /\ RcvBuf <= SndBuf
    /\ MssLevels \in Seq(Nat \ {0}) /\ MssLevels # <<>>
    /\ \A i, j \in DOMAIN MssLevels : i < j => MssLevels[j] < MssLevels[i]
    /\ PathMss \in Nat
    /\ UseNagling \in BOOLEAN
    /\ MaxXmit \in Nat \ {0} /\ MaxXmitConnecting \in Nat \ {0}
    /\ MaxCwnd \in Nat \ {0}

TcpState == {"TCP_LISTEN", "TCP_SYN_SENT", "TCP_SYN_RECEIVED",
             "TCP_ESTABLISHED", "TCP_CLOSED"}

CTL_CONNECT == 0

MaxOf(a, b) == IF a > b THEN a ELSE b
MinOf(a, b) == IF a < b THEN a ELSE b

\* The constructor.  t_ack and rto_base say whether the timers run; ahead is
\* the part of m_rbuf that lies beyond the readable units, by position; failed
\* says that the last attemptSend ended with "transmit failed".
NewTcp ==
    [state |-> "TCP_LISTEN", shutdown |-> FALSE,
     slist |-> <<>>, sbuf |-> <<>>, snd_una |-> 0, snd_nxt |-> 0, snd_wnd |-> 1,
     rlist |-> <<>>, rbuf |-> <<>>, ahead |-> <<>>, rcv_nxt |-> 0,
     rcv_wnd |-> RcvBuf,
     mss |-> Last(MssLevels), msslevel |-> 1, mtu_advise |-> MssLevels[1],
     cwnd |-> 2 * Last(MssLevels), ssthresh |-> RcvBuf,
     dup_acks |-> 0, recover |-> 0, t_ack |-> FALSE, rto_base |-> FALSE,
     read_enable |-> TRUE, write_enable |-> FALSE, failed |-> FALSE]

\* A handler in progress: the end, what it wrote to the channel, and whether
\* it told the application that it is open, readable, writeable.
Start(t) == [t |-> t, out |-> {}, told |-> {}]

InFlight(t) == t.snd_nxt - t.snd_una
SendSpace(t) == SndBuf - Len(t.sbuf)
ReceiveSpace(t) == RcvBuf - Len(t.rbuf)

Capped(cwnd) == MinOf(cwnd, MaxCwnd)

\* What a handler meets.  idle: nothing was sent for longer than the time-out.
\* resent: no write of a retransmission fails.  writes: as many segments go out
\* before attemptSend meets a WR_FAIL; level: where transmit has come to then.
\* An acknowledgement that cannot be written is like one that is lost.
Conditions ==
    {io \in [idle: BOOLEAN, resent: BOOLEAN, writes: 0 .. SndBuf,
             level: DOMAIN MssLevels] :
        /\ ~io.resent => io.writes = SndBuf
        /\ io.writes = SndBuf => io.level = 1}
NoFailure == {io \in Conditions : io.resent /\ io.writes = SndBuf}

-----------------------------------------------------------------------------
\* Mutant: saved segments are acknowledged across a gap.
PacketAckingSaved(w, seq, ctrl, offset, len) ==
    [w EXCEPT
        !.t.t_ack = FALSE,
        !.out = @ \cup {[seq |-> seq, ctrl |-> ctrl,
                         ack |-> IF w.t.rlist = <<>> THEN w.t.rcv_nxt
                                 ELSE Last(w.t.rlist).seq + Last(w.t.rlist).len,
                         wnd |-> w.t.rcv_wnd,
                         data |-> SubSeq(w.t.sbuf, offset + 1, offset + len)]}]

\* Mutant: the data is taken from the front of the send buffer.
PacketFromFront(w, seq, ctrl, offset, len) ==
    [w EXCEPT
        !.t.t_ack = FALSE,
        !.out = @ \cup {[seq |-> seq, ctrl |-> ctrl, ack |-> w.t.rcv_nxt,
                         wnd |-> w.t.rcv_wnd, data |-> SubSeq(w.t.sbuf, 1, len)]}]

\* packet: units [offset, offset + len) of m_sbuf, the acknowledgement and
\* the window.
Packet(w, seq, ctrl, offset, len) ==
    [w EXCEPT
        !.t.t_ack = FALSE,
        !.out = @ \cup {[seq |-> seq, ctrl |-> ctrl, ack |-> w.t.rcv_nxt,
                         wnd |-> w.t.rcv_wnd,
                         data |-> SubSeq(w.t.sbuf, offset + 1, offset + len)]}]

Ack(w) == Packet(w, w.t.snd_nxt, FALSE, 0, 0)

\* Whether transmit of segment i comes down to a size that the channel takes;
\* otherwise "MTU too small".
Fits(t, i) ==
    \/ MinOf(t.slist[i].len, t.mss) <= PathMss
    \/ \E l \in DOMAIN MssLevels : l > t.msslevel /\ MssLevels[l] <= PathMss

\* The level that transmit ends with when a packet of n units is too large.
FittingLevel(t, n) ==
    IF n <= PathMss THEN t.msslevel
    ELSE CHOOSE l \in DOMAIN MssLevels :
            /\ l > t.msslevel /\ MssLevels[l] <= PathMss
            /\ \A k \in DOMAIN MssLevels :
                  k > t.msslevel /\ MssLevels[k] <= PathMss => l <= k

CanTransmit(t, i) ==
    t.slist[i].xmit < IF t.state = "TCP_ESTABLISHED" THEN MaxXmit
                      ELSE MaxXmitConnecting

\* The segment list with segment i cut after n units.
Split(slist, i, n, xmit) ==
    LET s == slist[i]
    IN  IF n >= s.len THEN slist
        ELSE InsertAt([slist EXCEPT ![i].len = n], i + 1,
                      [seq |-> s.seq + n, len |-> s.len - n, ctrl |-> s.ctrl,
                       xmit |-> xmit])

\* transmit that succeeds, of a segment that has not been sent too often.
Transmit(w, i) ==
    LET s == w.t.slist[i]
        n0 == MinOf(s.len, w.t.mss)
        level == FittingLevel(w.t, n0)
        n == IF n0 <= PathMss THEN n0 ELSE MssLevels[level]
        cut == Split(w.t.slist, i, n, s.xmit)
        p == Packet(w, s.seq, s.ctrl, s.seq - w.t.snd_una, n)
    IN  [p EXCEPT
            !.t.msslevel = level,
            !.t.mss = IF n0 <= PathMss THEN @ ELSE n,
            !.t.cwnd = IF n0 <= PathMss THEN @ ELSE Capped(2 * n),
            !.t.slist = [cut EXCEPT ![i].xmit = @ + 1],
            !.t.snd_nxt = IF s.xmit = 0 THEN @ + n ELSE @,
            !.t.rto_base = TRUE]

\* transmit that fails, after WR_TOO_LARGE for every size above that of level.
TransmitFails(w, i, level) ==
    LET n0 == MinOf(w.t.slist[i].len, w.t.mss)
    IN  IF /\ n0 > PathMss /\ level > w.t.msslevel
           /\ MssLevels[level] < n0 \/ level = Len(MssLevels)
           /\ \A k \in DOMAIN MssLevels :
                 k > w.t.msslevel /\ k < level => MssLevels[k] > PathMss
        THEN [w EXCEPT !.t.msslevel = level,
                       !.t.mss = MssLevels[level],
                       !.t.cwnd = Capped(2 * MssLevels[level])]
        ELSE w

-----------------------------------------------------------------------------
\* What attemptSend may send next: what the window leaves, what is buffered,
\* at most one full segment, and nothing rather than a sliver of the window.
Available(t) ==
    LET cwnd == IF t.dup_acks \in {1, 2} THEN t.cwnd + t.dup_acks * t.mss
                ELSE t.cwnd
        window == MinOf(t.snd_wnd, cwnd)
        useable == MaxOf(window - InFlight(t), 0)
        wanted == MinOf(Len(t.sbuf) - InFlight(t), t.mss)
    IN  IF wanted <= useable THEN wanted
        ELSE IF useable * 4 < window THEN 0
        ELSE useable

\* Mutant: small segments wait even when nothing is in flight.
HeldWhenSmall(t) == UseNagling /\ Available(t) < t.mss

HeldByNagle(t) == UseNagling /\ InFlight(t) > 0 /\ Available(t) < t.mss

FirstUnsent(t) ==
    CHOOSE i \in DOMAIN t.slist :
        /\ t.slist[i].xmit = 0
        /\ \A j \in DOMAIN t.slist : t.slist[j].xmit = 0 => i <= j

\* The first unsent segment, broken into two if it is too large.
NextSegment(w) ==
    [w EXCEPT !.t.slist = Split(@, FirstUnsent(w.t), Available(w.t), 0)]

\* Round k of the loop of attemptSend: the segment is sent, or the loop ends.
SendSegment(w, k, io) ==
    LET i == FirstUnsent(w.t)
        cut == NextSegment(w)
    IN  IF k <= io.writes /\ Fits(cut.t, i) THEN Transmit(cut, i)
        ELSE [TransmitFails(cut, i, IF k > io.writes THEN io.level
                                    ELSE Len(MssLevels)) EXCEPT !.t.failed = TRUE]

\* A round with nothing to send: an acknowledgement now, or later.
SendNothing(w, sflags) ==
    IF Available(w.t) > 0 \/ sflags = "sfNone" THEN w
    ELSE IF sflags = "sfImmediateAck" \/ w.t.t_ack THEN Ack(w)
    ELSE [w EXCEPT !.t.t_ack = TRUE]

MaySend(t) == Available(t) > 0 /\ ~HeldByNagle(t)

\* attemptSend.  Each round but a failing one sends at least one unit, so SndBuf
\* rounds are enough.
AttemptSend(w, sflags, io) ==
    LET first == [w EXCEPT !.t.cwnd = IF io.idle THEN w.t.mss ELSE @,
                           !.t.failed = FALSE]
        round[k \in 0 .. SndBuf] ==
            IF k = 0 THEN first
            ELSE IF MaySend(round[k - 1].t) /\ ~round[k - 1].t.failed
            THEN SendSegment(round[k - 1], k, io)
            ELSE round[k - 1]
    IN  IF MaySend(first.t) THEN round[SndBuf] ELSE SendNothing(first, sflags)

-----------------------------------------------------------------------------
\* The segment list with n units more in the last segment.
Lengthened(slist, n) == [slist EXCEPT ![Len(slist)].len = @ + n]

\* Mutant: units are appended to a segment that was sent already.
QueueOnLast(w, units, ctrl) ==
    [w EXCEPT
        !.t.sbuf = @ \o units,
        !.t.slist = IF @ # <<>> /\ Last(@).ctrl = ctrl
                    THEN Lengthened(@, Len(units))
                    ELSE Append(@, [seq |-> w.t.snd_una + Len(w.t.sbuf),
                                    len |-> Len(units), ctrl |-> ctrl,
                                    xmit |-> 0])]

\* queue: a new segment, or more of the last one while it is unsent.
Queue(w, units, ctrl) ==
    [w EXCEPT
        !.t.sbuf = @ \o units,
        !.t.slist = IF @ # <<>> /\ Last(@).ctrl = ctrl /\ Last(@).xmit = 0
                    THEN Lengthened(@, Len(units))
                    ELSE Append(@, [seq |-> w.t.snd_una + Len(w.t.sbuf),
                                    len |-> Len(units), ctrl |-> ctrl,
                                    xmit |-> 0])]

QueueConnectMessage(w) ==
    Queue([w EXCEPT !.t.snd_wnd = 1], <<CTL_CONNECT>>, TRUE)

Closedown(w) ==
    [w EXCEPT !.t.state = "TCP_CLOSED", !.told = @ \cup {"closed"}]

\* adjustMTU: the advice itself is the mss, whatever the table says.
AdjustMTU(t) ==
    LET fitting == {l \in DOMAIN MssLevels : MssLevels[l] <= t.mtu_advise}
    IN  [t EXCEPT !.msslevel = Min(fitting \cup {Len(MssLevels)}),
                  !.mss = t.mtu_advise,
                  !.ssthresh = MaxOf(@, 2 * t.mtu_advise),
                  !.cwnd = MaxOf(@, t.mtu_advise)]

Open(w) ==
    [w EXCEPT !.t = AdjustMTU([w.t EXCEPT !.state = "TCP_ESTABLISHED"]),
              !.told = @ \cup {"open"}]

-----------------------------------------------------------------------------
(***************************************************************************)
(* process, part by part.  m is the segment that arrived.                  *)
(***************************************************************************)
\* The CONNECT message.
TakeConnect(w, m) ==
    CASE m.ctrl /\ w.t.state = "TCP_LISTEN" ->
            QueueConnectMessage([w EXCEPT !.t.state = "TCP_SYN_RECEIVED"])
      [] m.ctrl /\ w.t.state = "TCP_SYN_SENT" -> Open(w)
      [] OTHER -> w

\* m_slist without the n units that were acknowledged: nFree is what is left
\* of them after each segment, and the first segment that is longer is cut.
RemoveAcked(slist, n) ==
    LET nFree[i \in 0 .. Len(slist)] ==
            IF i = 0 THEN n ELSE MaxOf(nFree[i - 1] - slist[i].len, 0)
        longer == {i \in DOMAIN slist : nFree[i - 1] < slist[i].len}
        k == Min(longer)
    IN  IF longer = {} THEN <<>>
        ELSE [SubSeq(slist, k, Len(slist)) EXCEPT ![1].len = @ - nFree[k - 1]]

\* Mutant: the timer is left running when everything was acknowledged.
AckedKeepingTimer(w, m) ==
    LET n == m.ack - w.t.snd_una
    IN  [w EXCEPT !.t.snd_wnd = m.wnd,
                  !.t.snd_una = m.ack,
                  !.t.sbuf = SubSeq(@, n + 1, Len(@)),
                  !.t.slist = RemoveAcked(@, n)]

Acked(w, m) ==
    LET n == m.ack - w.t.snd_una
    IN  [w EXCEPT !.t.snd_wnd = m.wnd,
                  !.t.snd_una = m.ack,
                  !.t.rto_base = (m.ack # w.t.snd_nxt),
                  !.t.sbuf = SubSeq(@, n + 1, Len(@)),
                  !.t.slist = RemoveAcked(@, n)]

\* Slow start and congestion avoidance.
Grow(t) ==
    Capped(IF t.cwnd < t.ssthresh THEN t.cwnd + t.mss
           ELSE t.cwnd + MaxOf(1, (t.mss * t.mss) \div t.cwnd))

HalfInFlight(t) == MaxOf(InFlight(t) \div 2, 2 * t.mss)

\* Retransmission of the oldest segment, which ends the connection when it has
\* been sent too often or cannot be written.
Retransmit(w, io) ==
    IF CanTransmit(w.t, 1) /\ io.resent /\ Fits(w.t, 1) THEN Transmit(w, 1)
    ELSE Closedown(w)

ValuableAck(w, m, io) ==
    LET a == Acked(w, m)
        r == Retransmit(a, io)
        n == m.ack - w.t.snd_una
    IN  IF a.t.dup_acks < 3
        THEN [a EXCEPT !.t.dup_acks = 0, !.t.cwnd = Grow(a.t)]
        ELSE IF a.t.snd_una >= a.t.recover
        THEN [a EXCEPT !.t.dup_acks = 0,
                       !.t.cwnd = MinOf(a.t.ssthresh, InFlight(a.t) + a.t.mss)]
        ELSE IF r.t.state = "TCP_CLOSED" THEN r
        ELSE [r EXCEPT !.t.cwnd = Capped(@ + r.t.mss - MinOf(n, @))]

\* A repeated acknowledgement without data.  The counter only matters up to 4; it
\* is a uint8 that nothing lets grow to 256 here.
CountDuplicate(w, io) ==
    LET c == [w EXCEPT !.t.dup_acks = MinOf(@ + 1, 4)]
        r == Retransmit(c, io)
    IN  IF InFlight(w.t) = 0 THEN [w EXCEPT !.t.dup_acks = 0]
        ELSE IF c.t.dup_acks < 3 THEN c
        ELSE IF c.t.dup_acks > 3 THEN [c EXCEPT !.t.cwnd = Capped(@ + c.t.mss)]
        ELSE IF r.t.state = "TCP_CLOSED" THEN r
        ELSE [r EXCEPT !.t.recover = r.t.snd_nxt,
                       !.t.ssthresh = HalfInFlight(r.t),
                       !.t.cwnd = Capped(HalfInFlight(r.t) + 3 * r.t.mss)]

DuplicateAck(w, m, io) ==
    LET a == [w EXCEPT !.t.snd_wnd = m.wnd]
    IN  IF m.data # <<>> THEN a ELSE CountDuplicate(a, io)

TakeAck(w, m, io) ==
    CASE m.ack > w.t.snd_una /\ m.ack <= w.t.snd_nxt -> ValuableAck(w, m, io)
      [] m.ack = w.t.snd_una -> DuplicateAck(w, m, io)
      [] OTHER -> w

\* "A bit hacky": anything but CONNECT establishes the connection.
Establish(w, m) ==
    IF w.t.state = "TCP_SYN_RECEIVED" /\ ~m.ctrl THEN Open(w) ELSE w

kIdealRefillSize == (SndBuf + RcvBuf) \div 2

TellWriteable(w) ==
    IF w.t.write_enable /\ Len(w.t.sbuf) < kIdealRefillSize
    THEN [w EXCEPT !.t.write_enable = FALSE, !.told = @ \cup {"writeable"}]
    ELSE w

AckFlags(t, m) ==
    CASE m.seq # t.rcv_nxt -> "sfImmediateAck"
      [] m.seq = t.rcv_nxt /\ m.data # <<>> -> "sfDelayedAck"
      [] OTHER -> "sfNone"

\* The part of the segment that is new and that there is room for.
Fitting(t, m) ==
    LET old == MinOf(MaxOf(t.rcv_nxt - m.seq, 0), Len(m.data))
        end == m.seq + Len(m.data)
        beyond == MaxOf(end - t.rcv_nxt - ReceiveSpace(t), 0)
    IN  [seq |-> m.seq + old,
         data |-> SubSeq(m.data, old + 1, Len(m.data) - beyond)]

\* Mutant: the window does not shrink by what became readable.
ConsumeKeepingWindow(t, n) ==
    [t EXCEPT !.rbuf = @ \o [i \in 1 .. n |-> t.ahead[t.rcv_nxt + i - 1]],
              !.rcv_nxt = @ + n,
              !.ahead = [p \in {q \in DOMAIN t.ahead : q >= t.rcv_nxt + n} |->
                            t.ahead[p]]]

\* ConsumeWriteBuffer(n): the next n units of the buffer become readable.
Consume(t, n) ==
    [t EXCEPT !.rbuf = @ \o [i \in 1 .. n |-> t.ahead[t.rcv_nxt + i - 1]],
              !.rcv_nxt = @ + n,
              !.rcv_wnd = @ - n,
              !.ahead = [p \in {q \in DOMAIN t.ahead : q >= t.rcv_nxt + n} |->
                            t.ahead[p]]]

\* m_rlist after rcv_nxt moved: what follows without a gap is recovered.  nxt is
\* rcv_nxt after each saved segment.
Recover(t) ==
    LET nxt[i \in 0 .. Len(t.rlist)] ==
            IF i = 0 THEN t.rcv_nxt
            ELSE MaxOf(nxt[i - 1], t.rlist[i].seq + t.rlist[i].len)
        beyond == {i \in DOMAIN t.rlist : t.rlist[i].seq > nxt[i - 1]}
        k == IF beyond = {} THEN Len(t.rlist) ELSE Min(beyond) - 1
    IN  [t |-> Consume(t, nxt[k] - t.rcv_nxt),
         rest |-> SubSeq(t.rlist, k + 1, Len(t.rlist)),
         found |-> nxt[k] > t.rcv_nxt]

\* The new units are in the buffer, at their place.
Written(t, f) ==
    [t EXCEPT !.ahead = [p \in DOMAIN t.ahead \cup
                                 (f.seq .. f.seq + Len(f.data) - 1) |->
                            IF p \in f.seq .. f.seq + Len(f.data) - 1
                            THEN f.data[p - f.seq + 1] ELSE t.ahead[p]]]

SaveSegment(rlist, r) ==
    LET notBefore == {i \in DOMAIN rlist : rlist[i].seq >= r.seq}
    IN  InsertAt(rlist, Min(notBefore \cup {Len(rlist) + 1}), r)

\* The new units are next: they become readable, with what they let recover.
ReadData(w, f) ==
    LET rec == Recover(Consume(Written(w.t, f), Len(f.data)))
    IN  [w EXCEPT !.t = [rec.t EXCEPT !.rlist = rec.rest, !.read_enable = FALSE],
                  !.told = IF w.t.read_enable THEN @ \cup {"readable"} ELSE @]

\* They are beyond a gap.
SaveData(w, f) ==
    [w EXCEPT !.t = [Written(w.t, f) EXCEPT
        !.rlist = SaveSegment(@, [seq |-> f.seq, len |-> Len(f.data)])]]

\* The data of the segment: ignored, readable, or kept for later.
StoreData(w, f, ignored) ==
    IF f.data = <<>> THEN w
    ELSE IF ignored
    THEN IF f.seq = w.t.rcv_nxt THEN [w EXCEPT !.t.rcv_nxt = @ + Len(f.data)] ELSE w
    ELSE IF f.seq = w.t.rcv_nxt THEN ReadData(w, f) ELSE SaveData(w, f)

TakeData(w, m, io) ==
    LET f == Fitting(w.t, m)
        ignored == m.ctrl \/ w.t.shutdown
        recovered == /\ f.data # <<>> /\ ~ignored /\ f.seq = w.t.rcv_nxt
                     /\ Recover(Consume(Written(w.t, f), Len(f.data))).found
    IN  AttemptSend(StoreData(w, f, ignored),
                    IF recovered THEN "sfImmediateAck" ELSE AckFlags(w.t, m), io)

\* process.
Process(t, m, io) ==
    IF t.state = "TCP_CLOSED" THEN Start(t)
    ELSE LET a == TakeAck(TakeConnect(Start(t), m), m, io)
         IN  IF a.t.state = "TCP_CLOSED" THEN a
             ELSE TakeData(TellWriteable(Establish(a, m)), m, io)

-----------------------------------------------------------------------------
\* Connect.
Connect(t, io) ==
    LET w == [Start(t) EXCEPT !.t.state = "TCP_SYN_SENT"]
    IN  AttemptSend(QueueConnectMessage(w), "sfNone", io)

\* NotifyMTU.
NotifyMTU(t, mtu) ==
    LET u == [t EXCEPT !.mtu_advise = mtu]
    IN  IF t.state = "TCP_ESTABLISHED" THEN AdjustMTU(u) ELSE u

\* Send of k units.
Send(t, units, io) ==
    IF SendSpace(t) = 0 THEN Start([t EXCEPT !.write_enable = TRUE])
    ELSE LET n == MinOf(Len(units), SendSpace(t))
         IN  AttemptSend(Queue(Start(t), SubSeq(units, 1, n), FALSE), "sfNone", io)

\* Mutant: a read that would block does not ask to be told.
RecvUntold(t, k, io) ==
    LET n == MinOf(k, Len(t.rbuf))
        u == [t EXCEPT !.rbuf = SubSeq(@, n + 1, Len(@))]
    IN  IF n = 0 THEN Start(t)
        ELSE AttemptSend(Start([u EXCEPT !.rcv_wnd = ReceiveSpace(u)]),
                         "sfImmediateAck", io)

\* Recv of at most k units; a window that was closed is announced.
Recv(t, k, io) ==
    LET u == [t EXCEPT !.rbuf = SubSeq(@, MinOf(k, Len(@)) + 1, Len(@))]
        wider == ReceiveSpace(u) - t.rcv_wnd >= MinOf(RcvBuf \div 2, t.mss)
        v == Start([u EXCEPT !.rcv_wnd = ReceiveSpace(u)])
    IN  CASE t.rbuf = <<>> -> Start([t EXCEPT !.read_enable = TRUE])
          [] t.rbuf # <<>> /\ ~wider -> Start(u)
          [] t.rbuf # <<>> /\ wider /\ t.rcv_wnd > 0 -> v
          [] OTHER -> AttemptSend(v, "sfImmediateAck", io)

\* NotifyClock, by the timer that expired: retransmission, ...
RetransmitTimeout(t, io) ==
    LET r == Retransmit(Start(t), io)
    IN  IF r.t.state = "TCP_CLOSED" THEN r
        ELSE [r EXCEPT !.t.ssthresh = HalfInFlight(r.t), !.t.cwnd = r.t.mss]

\* ... probe of a closed window, ...
ProbeWindow(t) ==
    LET w == Start(t) IN Packet(w, t.snd_nxt - 1, FALSE, 0, 0)

\* ... delayed acknowledgement.
DelayedAck(t) == Ack(Start(t))

\* Mutant: only what is in flight is waited for.
ReadyWhenQuiet(t) ==
    t.shutdown /\ (t.state # "TCP_ESTABLISHED" \/ (InFlight(t) = 0 /\ ~t.t_ack))

\* GetNextClock says that the socket is ready to be destroyed.
ReadyToDestroy(t) ==
    /\ t.shutdown
    /\ t.state # "TCP_ESTABLISHED" \/ (t.sbuf = <<>> /\ ~t.t_ack)
=============================================================================
