--------------------------- MODULE PseudoTcpProofs ---------------------------
(***************************************************************************)
(* Proofs about PseudoTcpPair, for any amount of data, buffers, packet     *)
(* sizes, limits and networks: what one end reads is what the other wrote. *)
(***************************************************************************)
EXTENDS PseudoTcpPair, ListFacts, SequenceTheorems

-----------------------------------------------------------------------------
(***************************************************************************)
(* Types.                                                                  *)
(***************************************************************************)
Positive == Nat \ {0}

Segment == [seq: Nat, len: Positive, ctrl: BOOLEAN, xmit: Nat]
SavedSegment == [seq: Nat, len: Positive]
Message == [seq: Int, ctrl: BOOLEAN, ack: Nat, wnd: Nat, data: Seq(Nat)]
Placed == UNION {[D -> Nat] : D \in SUBSET Nat}

Tcb == [state: TcpState, shutdown: BOOLEAN,
        slist: Seq(Segment), sbuf: Seq(Nat), snd_una: Nat, snd_nxt: Nat, snd_wnd: Nat,
        rlist: Seq(SavedSegment), rbuf: Seq(Nat), ahead: Placed, rcv_nxt: Nat,
        rcv_wnd: Nat,
        mss: Positive, msslevel: DOMAIN MssLevels, mtu_advise: Positive,
        cwnd: Positive, ssthresh: Positive,
        dup_acks: 0 .. 4, recover: Nat, t_ack: BOOLEAN, rto_base: BOOLEAN,
        read_enable: BOOLEAN, write_enable: BOOLEAN, failed: BOOLEAN]

Handler == [t: Tcb, out: SUBSET Message,
            told: SUBSET {"open", "closed", "readable", "writeable"}]

\* What an end is as a sender and as a receiver.
Snd(t) == [slist |-> t.slist, sbuf |-> t.sbuf, una |-> t.snd_una, nxt |-> t.snd_nxt,
           wnd |-> t.snd_wnd]
Rcv(t) == [rlist |-> t.rlist, rbuf |-> t.rbuf, ahead |-> t.ahead, nxt |-> t.rcv_nxt,
           wnd |-> t.rcv_wnd]

Sender == [slist: Seq(Segment), sbuf: Seq(Nat), una: Nat, nxt: Nat, wnd: Nat]
Receiver == [rlist: Seq(SavedSegment), rbuf: Seq(Nat), ahead: Placed, nxt: Nat, wnd: Nat]

-----------------------------------------------------------------------------
(***************************************************************************)
(* The inductive invariant.  The unit at position p of a stream is p, and  *)
(* the unit 0 is the CONNECT message.                                      *)
(***************************************************************************)
End(g) == g.seq + g.len

\* m_slist and m_sbuf of a sender: the segments follow each other from snd_una to
\* the end of the buffer, those that were sent lie below snd_nxt.
Segments(s) ==
    /\ \A i \in DOMAIN s.slist :
          /\ s.una <= s.slist[i].seq /\ End(s.slist[i]) <= s.una + Len(s.sbuf)
          /\ s.slist[i].xmit = 0 => s.nxt <= s.slist[i].seq
          /\ s.slist[i].xmit > 0 => End(s.slist[i]) <= s.nxt
          /\ s.slist[i].ctrl <=> s.slist[i].seq = 0
          /\ s.slist[i].ctrl => s.slist[i].len = 1
    /\ \A i, j \in DOMAIN s.slist :
          /\ i < j => End(s.slist[i]) <= s.slist[j].seq
          /\ j = i + 1 => End(s.slist[i]) = s.slist[j].seq
    /\ s.slist = <<>> => s.sbuf = <<>>
    /\ s.slist # <<>> => /\ s.slist[1].seq = s.una
                         /\ End(s.slist[Len(s.slist)]) = s.una + Len(s.sbuf)
GoodSender(s) ==
    /\ s.una <= s.nxt /\ s.nxt <= s.una + Len(s.sbuf)
    /\ Segments(s)
    /\ \A i \in DOMAIN s.sbuf : s.sbuf[i] = s.una + i - 1

\* m_rbuf and m_rlist of a receiver: saved segments are in the buffer.
GoodReceiver(r) ==
    /\ r.wnd + Len(r.rbuf) <= RcvBuf
    /\ RcvBuf <= r.nxt + r.wnd
    /\ \A p \in DOMAIN r.ahead : r.ahead[p] = p
    /\ \A i \in DOMAIN r.rlist : \A p \in Nat :
          r.nxt <= p /\ r.rlist[i].seq <= p /\ p < End(r.rlist[i]) => p \in DOMAIN r.ahead

\* Position b is where a segment ends that was sent, or was acknowledged.
Reached(s, b) ==
    \/ b <= s.una
    \/ \E i \in DOMAIN s.slist : s.slist[i].xmit > 0 /\ b = End(s.slist[i])

\* A packet has the units that belong to its place.
GoodData(m) ==
    /\ \A i \in DOMAIN m.data : m.data[i] = m.seq + i - 1
    /\ m.ctrl => m.seq = 0 /\ Len(m.data) = 1
    /\ ~m.ctrl /\ m.data # <<>> => m.seq > 0

\* The flow of units from a sender s to a receiver r, with the packets A on the
\* way to r and the packets B on the way to s: positions and acknowledgements are
\* ends of segments, and nothing was sent beyond the window of r.
Arrives(s, r) ==
    /\ s.una <= r.nxt /\ Reached(s, r.nxt)
    /\ s.nxt <= r.nxt + r.wnd /\ s.una + s.wnd <= r.nxt + r.wnd
    /\ \A i \in DOMAIN r.rlist : Reached(s, End(r.rlist[i]))
GoodPacket(s, m) ==
    /\ GoodData(m) /\ m.seq + Len(m.data) <= s.nxt
    /\ m.data # <<>> => Reached(s, m.seq + Len(m.data))
GoodAck(s, r, m) ==
    m.ack <= r.nxt /\ Reached(s, m.ack) /\ m.ack + m.wnd <= r.nxt + r.wnd
Flow(s, r, A, B) ==
    /\ Arrives(s, r)
    /\ \A m \in A : GoodPacket(s, m)
    /\ \A m \in B : GoodAck(s, r, m)

\* The rest of an end: timer, recovery point and size of the buffer.
Local(t) ==
    /\ t.rto_base <=> t.snd_nxt > t.snd_una
    /\ t.recover <= t.snd_nxt
    /\ Len(t.sbuf) <= SndBuf

\* How much was written into the stream, with the CONNECT message before it.
Life(t, wr) ==
    /\ t.state = "TCP_LISTEN" => t.snd_una = 0 /\ t.sbuf = <<>> /\ wr = 0
    /\ t.state \in {"TCP_SYN_SENT", "TCP_SYN_RECEIVED", "TCP_ESTABLISHED"} =>
          t.snd_una + Len(t.sbuf) = wr + 1
    /\ t.state = "TCP_CLOSED" => t.snd_una + Len(t.sbuf) <= wr + 1

\* What was read and what is readable is the beginning of the stream.
Got(r, shutdown, d) ==
    /\ \A i \in DOMAIN d : d[i] = i
    /\ \A i \in DOMAIN r.rbuf : r.rbuf[i] = Len(d) + i
    /\ ~shutdown => Len(d) + Len(r.rbuf) = IF r.nxt = 0 THEN 0 ELSE r.nxt - 1

GoodEnd(t, wr, d) ==
    /\ t \in Tcb
    /\ GoodSender(Snd(t)) /\ GoodReceiver(Rcv(t))
    /\ Local(t) /\ Life(t, wr) /\ Got(Rcv(t), t.shutdown, d)

\* A handler of one end in progress: u is the other end, N and B are the packets
\* that were on the way when it began.
GoodHandler(w, u, N, B, wr, d) ==
    /\ w \in Handler
    /\ GoodEnd(w.t, wr, d)
    /\ Flow(Snd(w.t), Rcv(u), N \cup w.out, B)
    /\ Flow(Snd(u), Rcv(w.t), B, N \cup w.out)

\* The notifications a of the application, together with new ones.
Heard(t, a) ==
    t.state = "TCP_ESTABLISHED" /\ ~t.shutdown =>
        /\ "readable" \in a \/ (t.read_enable /\ t.rbuf = <<>>)
        /\ "writeable" \in a \/ (t.write_enable /\ Len(t.sbuf) >= kIdealRefillSize)

Running(t) == t.sbuf # <<>> => t.rto_base \/ t.snd_wnd = 0 \/ t.failed

TypeInv ==
    /\ tcp \in [Ends -> Tcb]
    /\ gone \subseteq Ends
    /\ app \in [Ends -> SUBSET {"readable", "writeable"}]
    /\ written \in [Ends -> Nat]
    /\ delivered \in [Ends -> Seq(Nat)]
    /\ net \in [Ends -> SUBSET Message]
EndInv(e) ==
    /\ GoodEnd(tcp[e], written[e], delivered[e])
    /\ Flow(Snd(tcp[e]), Rcv(tcp[Peer(e)]), net[Peer(e)], net[e])
    /\ Heard(tcp[e], app[e])
    /\ Running(tcp[e])
    /\ tcp[e].shutdown => app[e] = {}
    /\ e \in gone /\ tcp[e].state = "TCP_ESTABLISHED" => tcp[e].sbuf = <<>>

IInv == TypeInv /\ \A e \in Ends : EndInv(e)

-----------------------------------------------------------------------------
(***************************************************************************)
(* Lists.                                                                  *)
(***************************************************************************)
\* What the concatenation of two lists is.
LEMMA ConcatFacts ==
    ASSUME NEW E, NEW a \in Seq(E), NEW b \in Seq(E)
    PROVE  /\ a \o b \in Seq(E) /\ Len(a \o b) = Len(a) + Len(b)
           /\ DOMAIN (a \o b) = 1 .. Len(a) + Len(b)
           /\ Len(a) \in Nat /\ Len(b) \in Nat
           /\ \A i \in 1 .. Len(a) : (a \o b)[i] = a[i]
           /\ \A i \in 1 .. Len(b) : (a \o b)[Len(a) + i] = b[i]
<1>1. a \o b \in Seq(E) /\ Len(a \o b) = Len(a) + Len(b)
  OBVIOUS
<1>2. Len(a) \in Nat /\ Len(b) \in Nat
  OBVIOUS
<1>3. \A i \in 1 .. Len(a) : (a \o b)[i] = a[i]
  OBVIOUS
<1>4. ASSUME NEW i \in 1 .. Len(b) PROVE (a \o b)[Len(a) + i] = b[i]
  <2>1. Len(a) + i \in 1 .. Len(a) + Len(b) /\ Len(a) + i > Len(a)
    BY <1>2
  <2>2. (a \o b)[Len(a) + i] = b[Len(a) + i - Len(a)]
    BY <2>1
  <2>3. Len(a) + i - Len(a) = i
    BY <1>2
  <2> QED BY <2>2, <2>3
<1>5. DOMAIN (a \o b) = 1 .. Len(a) + Len(b)
  BY <1>1
<1> QED BY <1>1, <1>2, <1>3, <1>4, <1>5

\* What a part of a list is.
LEMMA SubSeqFacts ==
    ASSUME NEW E, NEW s \in Seq(E), NEW m \in Nat, NEW n \in Nat,
           m > 0, m <= n + 1, n <= Len(s)
    PROVE  /\ SubSeq(s, m, n) \in Seq(E) /\ Len(SubSeq(s, m, n)) = n + 1 - m
           /\ DOMAIN SubSeq(s, m, n) = 1 .. n + 1 - m
           /\ \A i \in 1 .. n + 1 - m : SubSeq(s, m, n)[i] = s[m + i - 1]
<1>0. SubSeq(s, m, n) = [i \in 1 .. n + 1 - m |-> s[m + i - 1]]
  OBVIOUS
<1> DEFINE f == [i \in 1 .. n + 1 - m |-> s[m + i - 1]]
<1>1. \A i \in 1 .. n + 1 - m : f[i] \in E
  OBVIOUS
<1>2. n + 1 - m \in Nat
  OBVIOUS
<1>3. f \in Seq(E) /\ Len(f) = n + 1 - m
  BY <1>1, <1>2
<1> QED BY <1>0, <1>3

\* The list p is s without its first k elements.
Dropped(s, p, k) ==
    /\ Len(p) = Len(s) - k /\ DOMAIN p = 1 .. Len(s) - k
    /\ \A j \in 1 .. Len(s) - k : p[j] = s[k + j] /\ k + j \in DOMAIN s

\* What SubSeq leaves after the first k elements.
LEMMA DropFacts ==
    ASSUME NEW E, NEW s \in Seq(E), NEW k \in Nat, k <= Len(s)
    PROVE  SubSeq(s, k + 1, Len(s)) \in Seq(E) /\ Dropped(s, SubSeq(s, k + 1, Len(s)), k)
<1> DEFINE m == k + 1
           n == Len(s)
<1>1. m \in Nat /\ n \in Nat /\ m > 0 /\ m <= n + 1 /\ n <= Len(s) /\ n + 1 - m = n - k
  OBVIOUS
<1>2. \A j \in 1 .. n - k : m + j - 1 = k + j /\ k + j \in DOMAIN s
  OBVIOUS
<1> HIDE DEF m, n
<1>3. /\ SubSeq(s, m, n) \in Seq(E) /\ Len(SubSeq(s, m, n)) = n + 1 - m
      /\ DOMAIN SubSeq(s, m, n) = 1 .. n + 1 - m
  BY <1>1, SubSeqFacts
<1>4. \A i \in 1 .. n + 1 - m : SubSeq(s, m, n)[i] = s[m + i - 1]
  BY <1>1, SubSeqFacts
<1>5. Dropped(s, SubSeq(s, m, n), k)
  <2>1. ASSUME NEW j \in 1 .. n - k PROVE SubSeq(s, m, n)[j] = s[k + j]
    BY <1>1, <1>2, <1>4
  <2>2. n = Len(s)
    BY DEF n
  <2> QED BY <1>1, <1>2, <1>3, <2>1, <2>2 DEF Dropped
<1> QED BY <1>3, <1>5 DEF m, n

\* The list l with e before its element k.
Inserted(s, l, k, e) ==
    /\ Len(l) = Len(s) + 1
    /\ \A i \in 1 .. k - 1 : l[i] = s[i]
    /\ l[k] = e
    /\ \A i \in k .. Len(s) : l[i + 1] = s[i]

\* What InsertAt makes of a list.
LEMMA InsertAtFacts ==
    ASSUME NEW E, NEW s \in Seq(E), NEW k \in 1 .. Len(s) + 1, NEW e \in E
    PROVE  /\ InsertAt(s, k, e) \in Seq(E)
           /\ Inserted(s, InsertAt(s, k, e), k, e)
<1> DEFINE a == SubSeq(s, 1, k - 1)
           b == SubSeq(s, k, Len(s))
           one == <<e>>
           c == a \o one
           l == c \o b
<1>0. Len(s) \in Nat /\ k \in Nat /\ k - 1 \in Nat /\ k <= Len(s) + 1 /\ k > 0
  OBVIOUS
<1>1. a \in Seq(E) /\ Len(a) = k - 1 /\ \A i \in 1 .. k - 1 : a[i] = s[i]
  BY <1>0, SubSeqFacts
<1>2. b \in Seq(E) /\ Len(b) = Len(s) + 1 - k
  BY <1>0, SubSeqFacts
<1>3. \A i \in 1 .. Len(s) + 1 - k : b[i] = s[k + i - 1]
  BY <1>0, SubSeqFacts
<1>4. one \in Seq(E) /\ Len(one) = 1 /\ one[1] = e
  OBVIOUS
<1>5. InsertAt(s, k, e) = l
  BY DEF InsertAt
<1> HIDE DEF a, b, one
<1>6. /\ c \in Seq(E) /\ Len(c) = Len(a) + Len(one)
      /\ \A i \in 1 .. Len(a) : c[i] = a[i]
      /\ \A i \in 1 .. Len(one) : c[Len(a) + i] = one[i]
  <2>1. a \in Seq(E) /\ one \in Seq(E)
    BY <1>1, <1>4
  <2> QED BY ONLY <2>1, ConcatFacts
<1>7. c[k] = e /\ Len(c) = k /\ \A i \in 1 .. k - 1 : c[i] = s[i]
  <2>1. c[Len(a) + 1] = one[1] /\ Len(a) + 1 = k
    BY <1>0, <1>1, <1>4, <1>6
  <2> QED BY <2>1, <1>0, <1>1, <1>4, <1>6
<1> HIDE DEF c
<1>8. /\ l \in Seq(E) /\ Len(l) = Len(c) + Len(b)
      /\ \A i \in 1 .. Len(c) : l[i] = c[i]
      /\ \A i \in 1 .. Len(b) : l[Len(c) + i] = b[i]
  <2>1. c \in Seq(E) /\ b \in Seq(E)
    BY <1>2, <1>6
  <2> QED BY ONLY <2>1, ConcatFacts
<1> HIDE DEF l
<1>9. Len(l) = Len(s) + 1
  BY <1>0, <1>2, <1>7, <1>8
<1>10. l[k] = e /\ \A i \in 1 .. k - 1 : l[i] = s[i]
  BY <1>0, <1>7, <1>8
<1>11. ASSUME NEW i \in k .. Len(s) PROVE l[i + 1] = s[i]
  <2>1. /\ i + 1 - k \in 1 .. Len(b) /\ Len(c) + (i + 1 - k) = i + 1
        /\ i + 1 - k \in 1 .. Len(s) + 1 - k /\ k + (i + 1 - k) - 1 = i
    BY <1>0, <1>2, <1>7
  <2>2. l[Len(c) + (i + 1 - k)] = b[i + 1 - k]
    BY <2>1, <1>8
  <2>3. b[i + 1 - k] = s[k + (i + 1 - k) - 1]
    BY <2>1, <1>3
  <2> QED BY <2>1, <2>2, <2>3
<1> QED BY <1>5, <1>8, <1>9, <1>10, <1>11 DEF Inserted

-----------------------------------------------------------------------------
(***************************************************************************)
(* The sender.                                                             *)
(***************************************************************************)
\* A sender and its segments, in the form that the other lemmas use.
LEMMA SegmentTypes ==
    ASSUME NEW s \in Sender
    PROVE  /\ s.slist \in Seq(Segment) /\ s.sbuf \in Seq(Nat) /\ s.una \in Nat
           /\ s.nxt \in Nat /\ s.wnd \in Nat
           /\ DOMAIN s.slist = 1 .. Len(s.slist) /\ Len(s.slist) \in Nat
           /\ Len(s.sbuf) \in Nat
           /\ \A i \in DOMAIN s.slist :
                 /\ s.slist[i] \in Segment
                 /\ s.slist[i].seq \in Nat /\ s.slist[i].len \in Nat
                 /\ s.slist[i].len > 0 /\ s.slist[i].xmit \in Nat
                 /\ s.slist[i].ctrl \in BOOLEAN
<1>1. s.slist \in Seq(Segment) /\ s.sbuf \in Seq(Nat)
  BY DEF Sender
<1>2. \A i \in DOMAIN s.slist : s.slist[i] \in Segment
  BY <1>1
<1>3. ASSUME NEW g \in Segment
      PROVE  /\ g.seq \in Nat /\ g.len \in Nat /\ g.len > 0 /\ g.xmit \in Nat
             /\ g.ctrl \in BOOLEAN
  BY DEF Segment, Positive
<1>4. s.una \in Nat /\ s.nxt \in Nat /\ s.wnd \in Nat
  BY DEF Sender
<1>5. /\ DOMAIN s.slist = 1 .. Len(s.slist) /\ Len(s.slist) \in Nat /\ Len(s.sbuf) \in Nat
  BY <1>1
<1> QED BY <1>1, <1>2, <1>3, <1>4, <1>5

\* The list c is l with segment i cut after n units.
WasCut(l, c, i, n, x) ==
    /\ Len(c) = Len(l) + 1
    /\ \A j \in 1 .. i - 1 : c[j] = l[j]
    /\ c[i].seq = l[i].seq /\ c[i].len = n /\ c[i].ctrl = l[i].ctrl
    /\ c[i].xmit = l[i].xmit
    /\ c[i + 1].seq = l[i].seq + n /\ c[i + 1].len = l[i].len - n
    /\ c[i + 1].ctrl = l[i].ctrl /\ c[i + 1].xmit = x
    /\ \A j \in i + 1 .. Len(l) : c[j + 1] = l[j]

\* What Split makes of a list of segments.
LEMMA SplitFacts ==
    ASSUME NEW l \in Seq(Segment), NEW i \in DOMAIN l, NEW n \in Nat, n > 0,
           n < l[i].len, NEW x \in Nat
    PROVE  Split(l, i, n, x) \in Seq(Segment) /\ WasCut(l, Split(l, i, n, x), i, n, x)
<1> DEFINE g == l[i]
           h == [g EXCEPT !.len = n]
           a == [l EXCEPT ![i].len = n]
           r == [seq |-> g.seq + n, len |-> g.len - n, ctrl |-> g.ctrl, xmit |-> x]
           c == InsertAt(a, i + 1, r)
<1>1. g \in Segment /\ i \in 1 .. Len(l) /\ Len(l) \in Nat /\ i \in Nat
  OBVIOUS
<1>2. g.seq \in Nat /\ g.len \in Nat /\ g.ctrl \in BOOLEAN /\ g.len > n
  BY <1>1 DEF Segment, Positive
<1>3. r \in Segment
  <2>1. g.seq + n \in Nat /\ g.len - n \in Positive
    BY <1>2 DEF Positive
  <2> HIDE DEF g
  <2> QED BY <1>2, <2>1 DEF Segment
<1>4. /\ h \in Segment /\ h.seq = g.seq /\ h.len = n /\ h.ctrl = g.ctrl
      /\ h.xmit = g.xmit
  <2>1. n \in Positive
    BY DEF Positive
  <2> HIDE DEF g
  <2> QED BY <1>1, <2>1 DEF Segment
<1>5. a = [l EXCEPT ![i] = h]
  OBVIOUS
<1>6. a \in Seq(Segment) /\ Len(a) = Len(l) /\ a[i] = h
  BY <1>1, <1>4, <1>5
<1>7. \A j \in 1 .. Len(l) : j # i => a[j] = l[j]
  BY <1>1
<1>8. Split(l, i, n, x) = c
  BY <1>1, <1>2 DEF Split
<1> HIDE DEF a, r, g, h
<1>9. i + 1 \in 1 .. Len(a) + 1
  BY <1>1, <1>6
<1>10. /\ c \in Seq(Segment) /\ Len(c) = Len(a) + 1
       /\ \A j \in 1 .. (i + 1) - 1 : c[j] = a[j]
       /\ c[i + 1] = r
       /\ \A j \in i + 1 .. Len(a) : c[j + 1] = a[j]
  <2> DEFINE k == i + 1
  <2>1. a \in Seq(Segment) /\ k \in 1 .. Len(a) + 1
    BY <1>6, <1>9
  <2> HIDE DEF k
  <2>2. InsertAt(a, k, r) \in Seq(Segment) /\ Inserted(a, InsertAt(a, k, r), k, r)
    BY ONLY <1>3, <2>1, InsertAtFacts
  <2> QED BY <2>2 DEF k, Inserted
<1> HIDE DEF c
<1>11. \A j \in 1 .. i - 1 : c[j] = l[j]
  BY <1>1, <1>7, <1>10
<1>12. \A j \in i + 1 .. Len(l) : c[j + 1] = l[j]
  BY <1>1, <1>6, <1>7, <1>10, SMTT(40)
<1>13. c[i] = h
  BY <1>1, <1>6, <1>10, SMTT(40)
<1>14. /\ c[i + 1].seq = g.seq + n /\ c[i + 1].len = g.len - n
       /\ c[i + 1].ctrl = g.ctrl /\ c[i + 1].xmit = x
  BY <1>10 DEF r
<1> QED BY <1>4, <1>6, <1>8, <1>10, <1>11, <1>12, <1>13, <1>14 DEF g, WasCut

\* What was reached stays reached.
Keeps(s, s2) == \A b \in Int : Reached(s, b) => Reached(s2, b)

\* Cutting a segment in two leaves the sender good.
LEMMA SplitKeepsSender ==
    ASSUME NEW s \in Sender, GoodSender(s), NEW i \in DOMAIN s.slist,
           NEW n \in Nat, n > 0
    PROVE  LET c == Split(s.slist, i, n, s.slist[i].xmit)
               s2 == [s EXCEPT !.slist = c]
           IN  /\ s2 \in Sender /\ GoodSender(s2) /\ Keeps(s, s2)
               /\ c \in Seq(Segment) /\ i \in DOMAIN c
               /\ c[i].seq = s.slist[i].seq
               /\ c[i].len = MinOf(n, s.slist[i].len)
               /\ c[i].ctrl = s.slist[i].ctrl /\ c[i].xmit = s.slist[i].xmit
<1> DEFINE l == s.slist
           N == Len(l)
           x == l[i].xmit
           c == Split(l, i, n, x)
           s2 == [s EXCEPT !.slist = c]
<1>0. /\ l \in Seq(Segment) /\ N \in Nat /\ DOMAIN l = 1 .. N /\ i \in 1 .. N
      /\ s.una \in Nat /\ s.nxt \in Nat /\ Len(s.sbuf) \in Nat /\ x \in Nat
  BY SegmentTypes
<1>q. \A j \in 1 .. N :
            /\ l[j].seq \in Nat /\ l[j].len \in Nat /\ l[j].len > 0
            /\ l[j].xmit \in Nat /\ l[j].ctrl \in BOOLEAN
            /\ End(l[j]) \in Nat
  BY SegmentTypes DEF End
<1>g. Segments(s)
  BY DEF GoodSender
<1>s. \A j \in 1 .. N : (l[j].ctrl <=> l[j].seq = 0) /\ (l[j].ctrl => l[j].len = 1)
  BY <1>0, <1>g DEF Segments
<1>1. CASE n >= l[i].len
  <2>1. c = l
    BY <1>0, <1>1 DEF Split
  <2>2. s2 = s
    BY <2>1 DEF Sender
  <2>3. MinOf(n, l[i].len) = l[i].len
    BY <1>0, <1>q, <1>1 DEF MinOf
  <2> QED BY <2>1, <2>2, <2>3, <1>0 DEF Keeps
<1>2. CASE n < l[i].len
  <2>1. /\ c \in Seq(Segment) /\ Len(c) = N + 1
        /\ \A j \in 1 .. i - 1 : c[j] = l[j]
        /\ c[i].seq = l[i].seq /\ c[i].len = n /\ c[i].ctrl = l[i].ctrl
        /\ c[i].xmit = x
        /\ c[i + 1].seq = l[i].seq + n /\ c[i + 1].len = l[i].len - n
        /\ c[i + 1].ctrl = l[i].ctrl /\ c[i + 1].xmit = x
        /\ \A j \in i + 1 .. N : c[j + 1] = l[j]
    <3> HIDE DEF l, x
    <3>1. c \in Seq(Segment) /\ WasCut(l, c, i, n, x)
      BY <1>0, <1>2, SplitFacts
    <3>2. l[i].xmit = x
      BY DEF x
    <3> QED BY <3>1, <3>2 DEF WasCut
  <2> HIDE DEF c
  <2>2. /\ s2 \in Sender /\ s2.slist = c /\ s2.sbuf = s.sbuf /\ s2.una = s.una
        /\ s2.nxt = s.nxt
    BY <2>1 DEF Sender
  <2>3. MinOf(n, l[i].len) = n
    BY <1>0, <1>2 DEF MinOf
  <2> HIDE DEF s2, x
  <2>4. ~l[i].ctrl /\ l[i].seq # 0
    BY <1>0, <1>2, <1>g DEF Segments
  <2>d. DOMAIN c = 1 .. N + 1 /\ c # <<>> /\ l # <<>> /\ i \in Nat
    BY <1>0, <2>1
  <2>t. \A j \in 1 .. N + 1 :
           /\ c[j].seq \in Nat /\ c[j].len \in Nat /\ c[j].len > 0
           /\ c[j].xmit \in Nat /\ c[j].ctrl \in BOOLEAN /\ End(c[j]) \in Nat
    <3>1. \A j \in DOMAIN s2.slist :
             /\ s2.slist[j].seq \in Nat /\ s2.slist[j].len \in Nat /\ s2.slist[j].len > 0
             /\ s2.slist[j].xmit \in Nat /\ s2.slist[j].ctrl \in BOOLEAN
      BY <2>2, SegmentTypes
    <3> QED BY <3>1, <2>2, <2>d DEF End
  <2> DEFINE o(j) == IF j <= i THEN j ELSE j - 1
  <2>5. ASSUME NEW j \in 1 .. N + 1
        PROVE  /\ o(j) \in 1 .. N
               /\ c[j].seq \in Nat /\ c[j].len \in Nat /\ c[j].len > 0
               /\ c[j].xmit = l[o(j)].xmit
               /\ l[o(j)].seq <= c[j].seq
               /\ End(c[j]) <= End(l[o(j)])
               /\ c[j].ctrl = l[o(j)].ctrl
               /\ c[j].ctrl <=> c[j].seq = 0
               /\ c[j].ctrl => c[j].len = 1
               /\ j # i + 1 => c[j].seq = l[o(j)].seq
               /\ j # i => End(c[j]) = End(l[o(j)])
    <3>0. j \in Nat /\ i \in Nat /\ N \in Nat /\ 1 <= i /\ i <= N
      BY <1>0
    <3>1. CASE j < i
      <4>1. o(j) = j /\ j \in 1 .. N /\ j \in 1 .. i - 1 /\ j # i /\ j # i + 1
        BY <3>0, <3>1
      <4>2. c[j] = l[j]
        BY <4>1, <2>1
      <4>3. /\ l[j].seq \in Nat /\ l[j].len \in Nat /\ l[j].len > 0 /\ End(l[j]) \in Nat
            /\ l[j].ctrl <=> l[j].seq = 0
            /\ l[j].ctrl => l[j].len = 1
        BY <4>1, <1>q, <1>s
      <4>4. l[j].seq <= l[j].seq /\ End(l[j]) <= End(l[j])
        BY <4>3
      <4> HIDE DEF o, l, N
      <4> QED BY ONLY <4>1, <4>2, <4>3, <4>4
    <3>2. CASE j = i
      <4>1. o(j) = i /\ i # i + 1
        BY <3>0, <3>2
      <4>2. /\ c[i].seq = l[i].seq /\ c[i].len = n /\ c[i].ctrl = l[i].ctrl
            /\ c[i].xmit = l[i].xmit
        BY <2>1 DEF x
      <4>3. /\ l[i].seq \in Nat /\ l[i].len \in Nat /\ End(l[i]) = l[i].seq + l[i].len
            /\ End(c[i]) = l[i].seq + n
        BY <1>0, <1>q, <4>2 DEF End
      <4> HIDE DEF o
      <4> QED BY <3>2, <4>1, <4>2, <4>3, <1>0, <1>2, <2>4, SMTT(40)
    <3>3. CASE j = i + 1
      <4>1. o(j) = i /\ j # i
        BY <3>0, <3>3
      <4>2. /\ c[j].seq = l[i].seq + n /\ c[j].len = l[i].len - n
            /\ c[j].ctrl = l[i].ctrl /\ c[j].xmit = l[i].xmit
        BY <2>1, <3>3 DEF x
      <4>3. /\ l[i].seq \in Nat /\ l[i].len \in Nat /\ End(l[i]) = l[i].seq + l[i].len
            /\ End(c[j]) = l[i].seq + n + (l[i].len - n)
        BY <1>0, <1>q, <4>2 DEF End
      <4> HIDE DEF o
      <4>4. l[i].seq + n # 0 /\ l[i].seq <= l[i].seq + n /\ l[i].len - n > 0
        BY <4>3, <1>2
      <4>5. ~c[j].ctrl
        BY <4>2, <2>4
      <4>6. End(c[j]) = End(l[i])
        BY <4>3
      <4>7. c[j].seq # 0 /\ l[i].seq <= c[j].seq
        BY <4>2, <4>4
      <4>8. End(l[i]) \in Nat
        BY <1>0, <1>q
      <4>9. End(c[j]) <= End(l[i])
        BY <4>6, <4>8
      <4>10. /\ c[j].seq \in Nat /\ c[j].len \in Nat /\ c[j].len > 0
        BY <2>t
      <4> QED BY <3>3, <4>1, <4>2, <4>5, <4>6, <4>7, <4>9, <4>10, <1>0
    <3>4. CASE j > i + 1
      <4>1. /\ j - 1 + 1 = j /\ o(j) = j - 1 /\ j - 1 \in 1 .. N /\ j - 1 \in i + 1 .. N
            /\ j # i /\ j # i + 1
        BY <3>0, <3>4
      <4>2. c[j - 1 + 1] = l[j - 1]
        BY <4>1, <2>1
      <4> HIDE DEF o
      <4>3. c[j] = l[o(j)] /\ o(j) \in 1 .. N
        BY <4>1, <4>2
      <4> QED BY <4>1, <4>3, <1>q, <1>s
    <3> QED BY <3>0, <3>1, <3>2, <3>3, <3>4
  <2>6. ASSUME NEW j \in 1 .. N + 1, NEW k \in 1 .. N + 1
        PROVE  /\ j < k => End(c[j]) <= c[k].seq
               /\ k = j + 1 => End(c[j]) = c[k].seq
    <3>1. CASE o(j) = o(k)
      <4>1. j < k => j = i /\ k = i + 1
        BY <3>1, <1>0
      <4>2. End(c[i]) = c[i + 1].seq
        BY <2>1 DEF End
      <4>3. End(c[i]) \in Int
        BY <2>t, <1>0
      <4>4. k = j + 1 => j < k
        OBVIOUS
      <4> QED BY <4>1, <4>2, <4>3, <4>4
    <3>2. CASE o(j) # o(k)
      <4>1. j < k => o(j) < o(k)
        BY <3>2, <1>0
      <4>2. k = j + 1 => o(k) = o(j) + 1 /\ k # i + 1 /\ j # i
        BY <3>2, <1>0
      <4>3. o(j) \in 1 .. N /\ o(k) \in 1 .. N
        BY <2>5
      <4>4. /\ End(c[j]) <= End(l[o(j)]) /\ l[o(k)].seq <= c[k].seq
            /\ k # i + 1 => c[k].seq = l[o(k)].seq
            /\ j # i => End(c[j]) = End(l[o(j)])
        BY <2>5
      <4>5. /\ End(c[j]) \in Nat /\ End(l[o(j)]) \in Nat /\ l[o(k)].seq \in Nat
            /\ c[k].seq \in Nat
        BY <2>t, <4>3, <1>q
      <4>6. /\ o(j) < o(k) => End(l[o(j)]) <= l[o(k)].seq
            /\ o(k) = o(j) + 1 => End(l[o(j)]) = l[o(k)].seq
        <5> HIDE DEF o
        <5> QED BY <4>3, <1>0, <1>g DEF Segments
      <4> HIDE DEF o
      <4> QED BY <4>1, <4>2, <4>4, <4>5, <4>6
    <3> QED BY <3>1, <3>2
  <2>7. ASSUME NEW j \in 1 .. N + 1
        PROVE  /\ s.una <= c[j].seq /\ End(c[j]) <= s.una + Len(s.sbuf)
               /\ c[j].xmit = 0 => s.nxt <= c[j].seq
               /\ c[j].xmit > 0 => End(c[j]) <= s.nxt
    <3>1. /\ o(j) \in 1 .. N /\ c[j].xmit = l[o(j)].xmit
          /\ l[o(j)].seq <= c[j].seq /\ End(c[j]) <= End(l[o(j)])
          /\ c[j].seq \in Nat /\ c[j].len \in Nat
      BY <2>5
    <3> HIDE DEF o
    <3>2. /\ s.una <= l[o(j)].seq /\ End(l[o(j)]) <= s.una + Len(s.sbuf)
          /\ l[o(j)].xmit = 0 => s.nxt <= l[o(j)].seq
          /\ l[o(j)].xmit > 0 => End(l[o(j)]) <= s.nxt
      BY <3>1, <1>0, <1>g DEF Segments
    <3>3. End(c[j]) \in Nat /\ End(l[o(j)]) \in Nat /\ l[o(j)].seq \in Nat
      BY <3>1, <2>t, <1>q
    <3> DEFINE q == l[o(j)].seq
               z == End(l[o(j)])
               y == l[o(j)].xmit
               q2 == c[j].seq
               z2 == End(c[j])
               y2 == c[j].xmit
               ua == s.una
               nx == s.nxt
               sz == Len(s.sbuf)
    <3>4. /\ q \in Nat /\ z \in Nat /\ q2 \in Nat /\ z2 \in Nat /\ ua \in Nat /\ nx \in Nat
          /\ sz \in Nat /\ y2 = y /\ q <= q2 /\ z2 <= z /\ ua <= q /\ z <= ua + sz
          /\ y = 0 => nx <= q
          /\ y > 0 => z <= nx
      BY <3>1, <3>2, <3>3, <1>0
    <3> HIDE DEF q, z, y, q2, z2, y2, ua, nx, sz
    <3>5. ua <= q2 /\ z2 <= ua + sz /\ (y2 = 0 => nx <= q2) /\ (y2 > 0 => z2 <= nx)
      BY ONLY <3>4
    <3> QED BY <3>5 DEF q, z, y, q2, z2, y2, ua, nx, sz
  <2>8. c[1].seq = s.una /\ End(c[N + 1]) = s.una + Len(s.sbuf)
    <3>1. l[1].seq = s.una /\ End(l[N]) = s.una + Len(s.sbuf)
      BY <2>d, <1>g DEF Segments
    <3>2. 1 \in 1 .. N + 1 /\ N + 1 \in 1 .. N + 1 /\ o(1) = 1 /\ o(N + 1) = N
      BY <1>0
    <3>3. 1 # i + 1 /\ N + 1 # i
      BY <1>0
    <3>4. c[1].seq = l[o(1)].seq /\ End(c[N + 1]) = End(l[o(N + 1)])
      BY <2>5, <3>2, <3>3
    <3> QED BY <3>1, <3>2, <3>4
  <2>9. Segments(s2)
    <3>1. \A j \in 1 .. N + 1 : (c[j].ctrl <=> c[j].seq = 0) /\ (c[j].ctrl => c[j].len = 1)
      BY <2>5
    <3>2. \A j \in 1 .. N + 1 :
             /\ s.una <= c[j].seq /\ End(c[j]) <= s.una + Len(s.sbuf)
             /\ c[j].xmit = 0 => s.nxt <= c[j].seq
             /\ c[j].xmit > 0 => End(c[j]) <= s.nxt
      BY <2>7
    <3>3. \A j, k \in 1 .. N + 1 : /\ j < k => End(c[j]) <= c[k].seq
                                   /\ k = j + 1 => End(c[j]) = c[k].seq
      BY <2>6
    <3>4. Len(c) = N + 1
      BY <2>1
    <3> HIDE DEF N, l
    <3> QED BY ONLY <2>2, <2>d, <2>8, <3>1, <3>2, <3>3, <3>4 DEF Segments
  <2>10. GoodSender(s2)
    BY <2>2, <2>9 DEF GoodSender
  <2>11. Keeps(s, s2)
    <3> SUFFICES ASSUME NEW b \in Int, NEW j \in 1 .. N, l[j].xmit > 0, b = End(l[j])
                 PROVE  \E k \in 1 .. N + 1 : c[k].xmit > 0 /\ b = End(c[k])
      BY <2>2, <2>d, <1>0 DEF Keeps, Reached
    <3> DEFINE k == IF j < i THEN j ELSE j + 1
    <3>1. k \in 1 .. N + 1 /\ o(k) = j /\ k # i
      BY <1>0
    <3>2. c[k].xmit = l[o(k)].xmit /\ End(c[k]) = End(l[o(k)])
      BY <3>1, <2>5
    <3> HIDE DEF k
    <3> QED BY <3>1, <3>2
  <2>12. i \in DOMAIN c
    BY <1>0, <2>d
  <2> QED BY <2>1, <2>2, <2>3, <2>10, <2>11, <2>12 DEF s2, c, x
<1>3. n >= l[i].len \/ n < l[i].len
  BY <1>0, <1>q
<1> QED BY <1>1, <1>2, <1>3

\* Sending a segment, the next one or one that was sent before, leaves the sender
\* good.
LEMMA SentKeepsSender ==
    ASSUME NEW s \in Sender, GoodSender(s), NEW i \in DOMAIN s.slist,
           s.slist[i].xmit = 0 => s.slist[i].seq = s.nxt
    PROVE  LET s2 == [s EXCEPT !.slist = [s.slist EXCEPT ![i].xmit = @ + 1],
                               !.nxt = IF s.slist[i].xmit = 0
                                       THEN s.nxt + s.slist[i].len ELSE s.nxt]
           IN  /\ s2 \in Sender /\ GoodSender(s2) /\ Keeps(s, s2)
               /\ Reached(s2, End(s.slist[i])) /\ s2.una < s2.nxt /\ s.nxt <= s2.nxt
<1> DEFINE l == s.slist
           N == Len(l)
           g == l[i]
           h == [g EXCEPT !.xmit = @ + 1]
           c == [l EXCEPT ![i].xmit = @ + 1]
           n2 == IF g.xmit = 0 THEN s.nxt + g.len ELSE s.nxt
           s2 == [s EXCEPT !.slist = c, !.nxt = n2]
<1>0. /\ l \in Seq(Segment) /\ N \in Nat /\ DOMAIN l = 1 .. N /\ i \in 1 .. N
      /\ s.una \in Nat /\ s.nxt \in Nat /\ Len(s.sbuf) \in Nat /\ g \in Segment
  BY SegmentTypes
<1>q. \A j \in 1 .. N :
            /\ l[j].seq \in Nat /\ l[j].len \in Nat /\ l[j].len > 0
            /\ l[j].xmit \in Nat /\ l[j].ctrl \in BOOLEAN
            /\ End(l[j]) \in Nat /\ End(l[j]) = l[j].seq + l[j].len
  BY SegmentTypes DEF End
<1>g. Segments(s) /\ s.una <= s.nxt /\ s.nxt <= s.una + Len(s.sbuf)
  BY DEF GoodSender
<1>1. /\ h \in Segment /\ h.seq = g.seq /\ h.len = g.len /\ h.ctrl = g.ctrl
      /\ h.xmit = g.xmit + 1
  <2>1. g.xmit + 1 \in Nat
    BY <1>0, SMTT(40) DEF Segment
  <2> HIDE DEF g
  <2> QED BY <1>0, <2>1 DEF Segment
<1>2. /\ c \in Seq(Segment) /\ Len(c) = N /\ c[i] = h
      /\ \A j \in 1 .. N : j # i => c[j] = l[j]
  <2>1. c = [l EXCEPT ![i] = h]
    OBVIOUS
  <2> HIDE DEF h
  <2> QED BY <2>1, <1>0, <1>1, SMTT(40)
<1>3. n2 \in Nat
  BY <1>0, <1>q
<1> HIDE DEF c, h
<1>4. /\ s2 \in Sender /\ s2.slist = c /\ s2.sbuf = s.sbuf /\ s2.una = s.una
      /\ s2.nxt = n2
  BY <1>2, <1>3 DEF Sender
<1> HIDE DEF s2
<1>5. \A j \in 1 .. N :
         /\ c[j].seq = l[j].seq /\ c[j].len = l[j].len /\ c[j].ctrl = l[j].ctrl
         /\ End(c[j]) = End(l[j])
         /\ c[j].xmit = IF j = i THEN l[j].xmit + 1 ELSE l[j].xmit
  BY <1>0, <1>1, <1>2 DEF End
<1>6. s.nxt <= n2 /\ n2 <= s.una + Len(s.sbuf) /\ End(g) <= n2 /\ s.una < n2
  <2>1. /\ s.una <= g.seq /\ End(g) <= s.una + Len(s.sbuf)
        /\ g.xmit > 0 => End(g) <= s.nxt
    BY <1>0, <1>g DEF Segments
  <2>2. g.seq \in Nat /\ g.len \in Nat /\ g.len > 0 /\ g.xmit \in Nat /\ End(g) = g.seq + g.len
    BY <1>0, <1>q
  <2> HIDE DEF g
  <2>3. CASE g.xmit = 0
    <3>1. n2 = g.seq + g.len
      BY <2>2, <2>3 DEF g
    <3> QED BY <2>1, <2>2, <2>3, <3>1, <1>0, <1>g, SMTT(40) DEF g
  <2>4. CASE g.xmit > 0
    <3>1. n2 = s.nxt
      BY <2>2, <2>4
    <3> QED BY <2>1, <2>2, <2>4, <3>1, <1>0, <1>g, SMTT(40)
  <2> QED BY <2>2, <2>3, <2>4
<1>d. DOMAIN c = 1 .. N /\ c # <<>> /\ l # <<>> /\ Len(c) = N
  BY <1>0, <1>2
<1>7. ASSUME NEW j \in 1 .. N
      PROVE  /\ c[j].xmit = 0 => n2 <= c[j].seq
             /\ c[j].xmit > 0 => End(c[j]) <= n2
  <2>1. /\ l[j].xmit = 0 => s.nxt <= l[j].seq
        /\ l[j].xmit > 0 => End(l[j]) <= s.nxt
        /\ i < j => End(g) <= l[j].seq
        /\ j < i => End(l[j]) <= g.seq
    BY <1>0, <1>g DEF Segments
  <2>2. /\ l[j].seq \in Nat /\ l[j].len \in Nat /\ l[j].len > 0 /\ l[j].xmit \in Nat
        /\ End(l[j]) = l[j].seq + l[j].len /\ g.seq \in Nat /\ g.xmit \in Nat
        /\ g.len \in Nat /\ g.len > 0 /\ End(g) = g.seq + g.len
    BY <1>0, <1>q
  <2>3. /\ c[j].seq = l[j].seq /\ End(c[j]) = End(l[j])
        /\ c[j].xmit = IF j = i THEN l[j].xmit + 1 ELSE l[j].xmit
    BY <1>5
  <2>4. g.xmit = 0 => g.seq = s.nxt /\ n2 = s.nxt + g.len
    OBVIOUS
  <2>5. g.xmit # 0 => n2 = s.nxt
    OBVIOUS
  <2>6. CASE j = i
    <3>1. c[j].xmit > 0 /\ End(c[j]) <= n2 /\ c[j].xmit # 0
      <4>1. End(c[j]) = End(g) /\ c[j].xmit = l[j].xmit + 1
        BY <2>3, <2>6
      <4> QED BY <4>1, <1>6, <2>2, SMTT(40)
    <3> QED BY <3>1
  <2>7. CASE j # i
    <3>1. c[j].xmit = l[j].xmit
      BY <2>3, <2>7
    <3>2. ASSUME c[j].xmit > 0 PROVE End(c[j]) <= n2
      <4>1. End(c[j]) <= s.nxt /\ End(c[j]) \in Nat
        BY <3>1, <3>2, <2>1, <2>2, <2>3, SMTT(40)
      <4>2. s.nxt <= n2 /\ s.nxt \in Nat /\ n2 \in Nat
        BY <1>0, <1>3, <1>6
      <4> DEFINE y == End(c[j])
                 nx == s.nxt
      <4> HIDE DEF y, nx, n2
      <4>3. y <= n2
        BY <4>1, <4>2 DEF y, nx
      <4> QED BY <4>3 DEF y
    <3>3. ASSUME c[j].xmit = 0 PROVE n2 <= c[j].seq
      <4>1. s.nxt <= l[j].seq
        BY <3>1, <3>3, <2>1
      <4>2. CASE g.xmit # 0
        BY <4>1, <4>2, <2>3, <2>5
      <4>3. CASE g.xmit = 0
        <5>1. n2 = End(g) /\ g.seq = s.nxt
          BY <4>3, <2>2, <2>4
        <5>2. i < j
          BY <5>1, <4>1, <2>1, <2>2, <2>7, <1>0, SMTT(40)
        <5> QED BY <5>1, <5>2, <2>1, <2>3
      <4> QED BY <4>2, <4>3
    <3> QED BY <3>2, <3>3
  <2> QED BY <2>6, <2>7
<1>8. Segments(s2)
  <2>1. \A j \in DOMAIN c :
          /\ s.una <= c[j].seq /\ End(c[j]) <= s.una + Len(s.sbuf)
          /\ c[j].ctrl <=> c[j].seq = 0
          /\ c[j].ctrl => c[j].len = 1
    BY <1>0, <1>5, <1>d, <1>g DEF Segments
  <2>2. \A j, k \in DOMAIN c :
          /\ j < k => End(c[j]) <= c[k].seq
          /\ k = j + 1 => End(c[j]) = c[k].seq
    BY <1>0, <1>5, <1>d, <1>g DEF Segments
  <2>3. c[1].seq = s.una /\ End(c[N]) = s.una + Len(s.sbuf)
    <3>1. l[1].seq = s.una /\ End(l[N]) = s.una + Len(s.sbuf)
      BY <1>d, <1>g DEF Segments
    <3>2. 1 \in 1 .. N /\ N \in 1 .. N
      BY <1>0
    <3> QED BY <3>1, <3>2, <1>5
  <2> QED BY <1>4, <1>7, <1>d, <2>1, <2>2, <2>3 DEF Segments
<1>9. GoodSender(s2)
  BY <1>0, <1>4, <1>6, <1>8, <1>3 DEF GoodSender
<1>10. Keeps(s, s2)
  <2> SUFFICES ASSUME NEW b \in Int, NEW j \in 1 .. N, l[j].xmit > 0, b = End(l[j])
               PROVE  c[j].xmit > 0 /\ b = End(c[j])
    BY <1>4, <1>d, <1>0 DEF Keeps, Reached
  <2> QED BY <1>5, <1>q, SMTT(40)
<1>11. Reached(s2, End(g))
  <2>1. c[i].xmit > 0 /\ End(g) = End(c[i]) /\ i \in DOMAIN c
    BY <1>0, <1>5, <1>q, <1>d
  <2> QED BY <2>1, <1>4 DEF Reached
<1> QED BY <1>4, <1>6, <1>9, <1>10, <1>11 DEF s2, c

\* While the buffer has more than was sent, "Find the next segment to transmit"
\* finds the segment that begins at snd_nxt.
LEMMA FirstUnsentFacts ==
    ASSUME NEW t \in Tcb, GoodSender(Snd(t)), t.snd_nxt < t.snd_una + Len(t.sbuf)
    PROVE  LET i == FirstUnsent(t)
           IN  /\ i \in DOMAIN t.slist /\ t.slist[i].xmit = 0
               /\ t.slist[i].seq = t.snd_nxt
<1> DEFINE s == Snd(t)
           l == t.slist
           I == {i \in DOMAIN l : l[i].xmit = 0}
           N == Len(l)
<1>1. /\ s \in Sender /\ s.slist = l /\ s.nxt = t.snd_nxt /\ s.una = t.snd_una
      /\ s.sbuf = t.sbuf
  BY DEF Snd, Tcb, Sender
<1>0. /\ l \in Seq(Segment) /\ N \in Nat /\ DOMAIN l = 1 .. N
      /\ s.una \in Nat /\ s.nxt \in Nat /\ Len(s.sbuf) \in Nat
  BY <1>1, SegmentTypes
<1>q. \A j \in 1 .. N :
            /\ l[j].seq \in Nat /\ l[j].len \in Nat /\ l[j].len > 0
            /\ l[j].xmit \in Nat /\ End(l[j]) \in Nat
  <2>1. \A j \in DOMAIN s.slist :
           /\ s.slist[j].seq \in Nat /\ s.slist[j].len \in Nat
           /\ s.slist[j].len > 0 /\ s.slist[j].xmit \in Nat
    BY <1>1, SegmentTypes
  <2> QED BY <2>1, <1>0, <1>1 DEF End
<1>g. Segments(s) /\ s.una <= s.nxt
  BY DEF GoodSender
<1> HIDE DEF s
<1>2. l # <<>>
  <2>1. ASSUME l = <<>> PROVE FALSE
    <3>1. s.sbuf = <<>>
      BY <2>1, <1>1, <1>g DEF Segments
    <3>2. Len(t.sbuf) = 0
      BY <3>1, <1>1
    <3> QED BY <3>2, <1>0, <1>1, <1>g
  <2> QED BY <2>1
<1>3. N \in I
  <2>1. N \in 1 .. N
    BY <1>0, <1>2
  <2>2. End(l[N]) = s.una + Len(s.sbuf) /\ (l[N].xmit > 0 => End(l[N]) <= s.nxt)
    BY <2>1, <1>0, <1>1, <1>2, <1>g DEF Segments
  <2>3. ~(l[N].xmit > 0)
    BY <2>1, <2>2, <1>0, <1>1, <1>q
  <2> QED BY <2>1, <2>3, <1>0, <1>q
<1>4. I \subseteq Nat /\ I # {}
  BY <1>0, <1>3
<1>5. Min(I) \in I /\ \A j \in I : Min(I) <= j
  <2> HIDE DEF I
  <2> QED BY <1>4, MinFacts
<1>6. FirstUnsent(t) \in I /\ \A j \in I : FirstUnsent(t) <= j
  <2>1. /\ Min(I) \in DOMAIN l
        /\ l[Min(I)].xmit = 0 /\ \A j \in DOMAIN l : l[j].xmit = 0 => Min(I) <= j
    BY <1>5
  <2> QED BY <2>1 DEF FirstUnsent
<1> DEFINE i == FirstUnsent(t)
<1> HIDE DEF i
<1>7. i \in 1 .. N /\ l[i].xmit = 0 /\ \A j \in 1 .. N : l[j].xmit = 0 => i <= j
  BY <1>0, <1>6 DEF i
<1>8. s.nxt <= l[i].seq
  BY <1>0, <1>1, <1>7, <1>g DEF Segments
<1>9. CASE i = 1
  <2>1. l[1].seq = s.una
    BY <1>1, <1>2, <1>g DEF Segments
  <2> QED BY <2>1, <1>0, <1>1, <1>7, <1>8, <1>9, <1>g DEF i
<1>10. CASE i > 1
  <2>1. i - 1 \in 1 .. N /\ i = i - 1 + 1 /\ ~(i <= i - 1)
    BY <1>0, <1>7, <1>10
  <2>2. l[i - 1].xmit > 0
    BY <2>1, <1>7, <1>q, SMTT(40)
  <2>3. End(l[i - 1]) <= s.nxt /\ End(l[i - 1]) = l[i].seq
    BY <2>1, <2>2, <1>0, <1>1, <1>7, <1>g DEF Segments
  <2>4. l[i].seq \in Nat
    BY <1>7, <1>q
  <2> QED BY <2>3, <2>4, <1>0, <1>1, <1>7, <1>8 DEF i
<1> QED BY <1>0, <1>7, <1>9, <1>10

-----------------------------------------------------------------------------
\* The values f of a recursive function on 0 .. N, by its step function h.
Steps(f, N, S, a, h) ==
    /\ f \in [0 .. N -> S]
    /\ f[0] = a /\ \A i \in 1 .. N : f[i] = h[i - 1][f[i - 1]]

\* Every step function has its values.
LEMMA StepsExist ==
    ASSUME NEW S, NEW N \in Nat, NEW a \in S, NEW h \in [Nat -> [S -> S]]
    PROVE  \E f : Steps(f, N, S, a, h)
<1>1. PICK f \in [Nat -> S] : Iterates(f, a, h)
  BY RecursionExists
<1>2. f[0] = a /\ \A n \in Nat : f[n + 1] = h[n][f[n]]
  BY <1>1 DEF Iterates
<1> DEFINE g == [i \in 0 .. N |-> f[i]]
<1>3. g \in [0 .. N -> S] /\ g[0] = a
  BY <1>2
<1>4. ASSUME NEW i \in 1 .. N PROVE g[i] = h[i - 1][g[i - 1]]
  <2>1. i - 1 \in Nat /\ i - 1 + 1 = i /\ i - 1 \in 0 .. N /\ i \in 0 .. N
    OBVIOUS
  <2>2. f[i - 1 + 1] = h[i - 1][f[i - 1]]
    BY <2>1, <1>2
  <2> QED BY <2>1, <2>2
<1> QED BY <1>3, <1>4 DEF Steps

\* nFree of the loop that removes acknowledged segments.
IsFree(f, l, n) ==
    f = [i \in 0 .. Len(l) |-> IF i = 0 THEN n ELSE MaxOf(f[i - 1] - l[i].len, 0)]
Free(l, n) == CHOOSE f : IsFree(f, l, n)

\* What is left of the acknowledged units after each segment, step by step.
LEMMA FreeFacts ==
    ASSUME NEW l \in Seq(Segment), NEW n \in Nat
    PROVE  /\ Free(l, n)[0] = n
           /\ \A i \in 1 .. Len(l) :
                 Free(l, n)[i] = MaxOf(Free(l, n)[i - 1] - l[i].len, 0)
<1> DEFINE N == Len(l)
           h == [k \in Nat |-> [v \in Nat |->
                    IF k + 1 \in 1 .. N THEN MaxOf(v - l[k + 1].len, 0) ELSE v]]
<1>0. N \in Nat /\ \A i \in 1 .. N : l[i].len \in Nat
  <2>1. \A i \in 1 .. N : l[i] \in Segment
    OBVIOUS
  <2> QED BY <2>1 DEF Segment, Positive
<1>1. h \in [Nat -> [Nat -> Nat]]
  <2>1. ASSUME NEW k \in Nat, NEW v \in Nat
        PROVE  (IF k + 1 \in 1 .. N THEN MaxOf(v - l[k + 1].len, 0) ELSE v) \in Nat
    BY <1>0 DEF MaxOf
  <2> HIDE DEF N
  <2> QED BY <2>1
<1>2. PICK f \in [0 .. N -> Nat] :
         f[0] = n /\ \A i \in 1 .. N : f[i] = h[i - 1][f[i - 1]]
  <2> DEFINE S == Nat
  <2>1. h \in [Nat -> [S -> S]] /\ n \in S /\ N \in Nat
    BY <1>0, <1>1
  <2> HIDE DEF h, N, S
  <2>2. \E f : Steps(f, N, S, n, h)
    BY <2>1, StepsExist
  <2> QED BY <2>2 DEF S, Steps
<1>3. ASSUME NEW i \in 1 .. N PROVE f[i] = MaxOf(f[i - 1] - l[i].len, 0)
  <2>1. i - 1 \in Nat /\ i - 1 + 1 = i /\ f[i - 1] \in Nat
    BY <1>0
  <2>2. \A k \in Nat, v \in Nat :
           h[k][v] = IF k + 1 \in 1 .. N THEN MaxOf(v - l[k + 1].len, 0) ELSE v
    OBVIOUS
  <2> HIDE DEF h
  <2>3. f[i] = h[i - 1][f[i - 1]]
    BY <1>2
  <2> QED BY <2>1, <2>2, <2>3
<1>4. IsFree(f, l, n)
  <2>1. \A i \in 0 .. N :
           f[i] = IF i = 0 THEN n ELSE MaxOf(f[i - 1] - l[i].len, 0)
    BY <1>0, <1>2, <1>3
  <2>2. f = [i \in 0 .. N |-> f[i]]
    OBVIOUS
  <2> QED BY <2>1, <2>2 DEF IsFree
<1>5. IsFree(Free(l, n), l, n)
  BY <1>4 DEF Free
<1> DEFINE g == Free(l, n)
<1> HIDE DEF g
<1>6. g = [i \in 0 .. N |-> IF i = 0 THEN n ELSE MaxOf(g[i - 1] - l[i].len, 0)]
  BY <1>5 DEF IsFree, g
<1>7. g[0] = n /\ \A i \in 1 .. N : g[i] = MaxOf(g[i - 1] - l[i].len, 0)
  BY <1>0, <1>6
<1> QED BY <1>7 DEF g

\* When the acknowledged units end with segment k, RemoveAcked removes the first k
\* segments.
LEMMA RemoveAckedFacts ==
    ASSUME NEW s \in Sender, Segments(s), NEW k \in DOMAIN s.slist
    PROVE  RemoveAcked(s.slist, End(s.slist[k]) - s.una)
              = SubSeq(s.slist, k + 1, Len(s.slist))
<1> DEFINE l == s.slist
           N == Len(l)
           n == End(l[k]) - s.una
           f == Free(l, n)
           longer == {i \in DOMAIN l : f[i - 1] < l[i].len}
<1>0. /\ l \in Seq(Segment) /\ N \in Nat /\ DOMAIN l = 1 .. N /\ k \in 1 .. N
      /\ s.una \in Nat /\ Len(s.sbuf) \in Nat /\ l # <<>>
  BY SegmentTypes
<1>q. \A j \in 1 .. N :
            /\ l[j].seq \in Nat /\ l[j].len \in Nat /\ l[j].len > 0
            /\ l[j].xmit \in Nat
            /\ End(l[j]) \in Nat /\ End(l[j]) = l[j].seq + l[j].len
  BY SegmentTypes DEF End
<1>1. \A i \in 1 .. k : s.una <= l[i].seq /\ End(l[i]) <= End(l[k])
  <2>0. \A i \in 1 .. k : i \in DOMAIN l /\ k \in DOMAIN l
    BY <1>0
  <2>1. \A i \in 1 .. k : s.una <= l[i].seq
    BY <2>0 DEF Segments
  <2>2. ASSUME NEW i \in 1 .. k PROVE End(l[i]) <= End(l[k])
    <3>1. i < k => End(l[i]) <= l[k].seq
      BY <2>0 DEF Segments
    <3>2. i \in 1 .. N
      BY <1>0
    <3>3. CASE i < k
      <4> DEFINE y == End(l[i])
                 q == l[k].seq
                 z == End(l[k])
                 h == l[k].len
      <4>1. y <= q /\ z = q + h /\ y \in Nat /\ q \in Nat /\ h \in Nat
        BY <3>1, <3>2, <3>3, <1>q, <1>0
      <4> HIDE DEF y, q, z, h
      <4>2. y <= z
        BY ONLY <4>1
      <4> QED BY <4>2 DEF y, z
    <3>4. CASE i = k
      BY <3>4, <1>q, <1>0
    <3> QED BY <3>3, <3>4, <1>0
  <2> QED BY <2>1, <2>2
<1>2. n \in Nat
  <2>1. s.una <= l[k].seq /\ l[k].seq \in Nat /\ End(l[k]) = l[k].seq + l[k].len /\ l[k].len \in Nat
    BY <1>0, <1>1, <1>q
  <2> QED BY <2>1, <1>0
<1>3. f[0] = n /\ \A i \in 1 .. N : f[i] = MaxOf(f[i - 1] - l[i].len, 0)
  <2> HIDE DEF l, n
  <2> QED BY <1>0, <1>2, FreeFacts
<1>4. /\ l[1].seq = s.una
      /\ \A i \in 1 .. N - 1 : l[i + 1].seq = End(l[i])
  <2>1. l[1].seq = s.una
    BY <1>0 DEF Segments
  <2>2. ASSUME NEW i \in 1 .. N - 1 PROVE l[i + 1].seq = End(l[i])
    <3>1. i \in DOMAIN l /\ i + 1 \in DOMAIN l
      BY <1>0
    <3> QED BY <3>1 DEF Segments
  <2> QED BY <2>1, <2>2
<1> HIDE DEF f
<1> DEFINE P == {i \in Nat : i + 1 <= k => f[i] = End(l[k]) - l[i + 1].seq}
<1>5. 0 \in P
  BY <1>3, <1>4
<1>6. ASSUME NEW i \in Nat, i \in P PROVE i + 1 \in P
  <2> SUFFICES ASSUME (i + 1) + 1 <= k
               PROVE  f[i + 1] = End(l[k]) - l[(i + 1) + 1].seq
    OBVIOUS
  <2>1. /\ i + 1 <= k /\ i + 1 \in 1 .. N /\ i + 1 \in 1 .. N - 1 /\ i + 1 - 1 = i
        /\ i + 1 \in 1 .. k /\ (i + 1) + 1 \in 1 .. k /\ (i + 1) + 1 \in 1 .. N
    BY <1>0
  <2>2. f[i] = End(l[k]) - l[i + 1].seq
    BY <1>6, <2>1
  <2>3. f[i + 1] = MaxOf(f[i] - l[i + 1].len, 0)
    BY <1>3, <2>1
  <2>4. l[(i + 1) + 1].seq = End(l[i + 1]) /\ End(l[i + 1]) = l[i + 1].seq + l[i + 1].len
    BY <1>4, <1>q, <2>1
  <2>5. End(l[i + 1]) <= End(l[k])
    BY <1>1, <2>1
  <2>6. /\ l[i + 1].seq \in Nat /\ l[i + 1].len \in Nat /\ End(l[k]) \in Nat
        /\ End(l[i + 1]) \in Nat
    BY <1>0, <1>q, <2>1
  <2>7. f[i] - l[i + 1].len = End(l[k]) - End(l[i + 1])
    BY <2>2, <2>4, <2>6
  <2>8. f[i + 1] = End(l[k]) - End(l[i + 1])
    BY <2>3, <2>5, <2>6, <2>7 DEF MaxOf
  <2> QED BY <2>4, <2>8
<1>7. \A i \in Nat : i + 1 <= k => f[i] = End(l[k]) - l[i + 1].seq
  <2>1. Nat \subseteq P
    <3> HIDE DEF P
    <3> QED BY <1>5, <1>6, SetInduction
  <2> QED BY <2>1
<1>8. ASSUME NEW i \in 1 .. k PROVE i \notin longer
  <2>1. i - 1 \in Nat /\ i - 1 + 1 = i /\ i \in 1 .. N /\ i <= k
    BY <1>0
  <2>2. f[i - 1] = End(l[k]) - l[i - 1 + 1].seq
    BY <1>7, <2>1
  <2>3. f[i - 1] = End(l[k]) - l[i].seq
    BY <2>1, <2>2
  <2>4. /\ End(l[i]) <= End(l[k]) /\ End(l[i]) = l[i].seq + l[i].len /\ l[i].seq \in Nat
        /\ l[i].len \in Nat /\ End(l[k]) \in Nat
    BY <1>0, <1>1, <1>q, <2>1
  <2>5. ~(f[i - 1] < l[i].len)
    BY <2>3, <2>4
  <2> QED BY <2>5
<1>9. f[k] = 0
  <2>1. k - 1 \in Nat /\ k - 1 + 1 = k /\ k <= k
    BY <1>0
  <2>2. f[k - 1] = End(l[k]) - l[k - 1 + 1].seq
    BY <1>7, <2>1
  <2>3. f[k - 1] - l[k].len = 0
    BY <2>1, <2>2, <1>0, <1>q, SMTT(40)
  <2>4. f[k] = MaxOf(f[k - 1] - l[k].len, 0)
    BY <1>0, <1>3
  <2> QED BY <2>3, <2>4 DEF MaxOf
<1>10. RemoveAcked(l, n) = IF longer = {} THEN <<>>
                           ELSE [SubSeq(l, Min(longer), N) EXCEPT
                                    ![1].len = @ - f[Min(longer) - 1]]
  BY DEF RemoveAcked, f, Free, IsFree
<1>11. CASE k = N
  <2>1. longer = {}
    BY <1>0, <1>8, <1>11
  <2>2. SubSeq(l, N + 1, N) = <<>>
    BY <1>0
  <2> QED BY <1>10, <1>11, <2>1, <2>2
<1>12. CASE k < N
  <2>1. k + 1 \in 1 .. N /\ k + 1 - 1 = k
    BY <1>0, <1>12
  <2>2. k + 1 \in longer
    BY <2>1, <1>0, <1>9, <1>q
  <2>3. longer \subseteq Nat /\ longer # {}
    BY <1>0, <2>2
  <2>4. \A i \in longer : k + 1 <= i
    BY <1>0, <1>8
  <2>5. Min(longer) \in longer /\ \A i \in longer : Min(longer) <= i
    <3> HIDE DEF longer
    <3> QED BY <2>3, MinFacts
  <2>6. Min(longer) = k + 1
    <3>1. Min(longer) <= k + 1 /\ k + 1 <= Min(longer)
      <4> HIDE DEF longer
      <4> QED BY <2>2, <2>4, <2>5
    <3>2. Min(longer) \in Nat
      <4> HIDE DEF longer
      <4> QED BY <2>3, <2>5
    <3> HIDE DEF longer
    <3> QED BY <3>1, <3>2, <1>0
  <2> DEFINE r == SubSeq(l, k + 1, N)
  <2>7. r \in Seq(Segment) /\ Len(r) = N - k /\ r[1] = l[k + 1]
    BY <1>0, <2>1, <1>12, SMTT(40)
  <2>8. 1 \in DOMAIN r /\ r[1] \in Segment
    BY <2>7, <1>0, <1>12
  <2>9. RemoveAcked(l, n) = [r EXCEPT ![1].len = @ - 0]
    <3>1. f[Min(longer) - 1] = 0
      <4> HIDE DEF longer
      <4> QED BY <1>9, <2>1, <2>6
    <3> HIDE DEF longer, l, n
    <3>2. RemoveAcked(l, n) = [SubSeq(l, Min(longer), N) EXCEPT
                                    ![1].len = @ - f[Min(longer) - 1]]
      BY <1>10, <2>3
    <3> QED BY <3>1, <3>2, <2>6 DEF r
  <2> HIDE DEF r
  <2>10. [r[1] EXCEPT !.len = r[1].len - 0] = r[1]
    <3>1. r[1].len - 0 = r[1].len
      BY <2>8 DEF Segment, Positive
    <3> QED BY <2>8, <3>1 DEF Segment
  <2>11. [r EXCEPT ![1].len = @ - 0] = r
    BY <2>7, <2>8, <2>10
  <2> QED BY <2>9, <2>11 DEF r
<1> QED BY <1>0, <1>11, <1>12

\* An acknowledgement up to the end of a segment that was sent leaves the sender
\* good.
LEMMA AckKeepsSender ==
    ASSUME NEW s \in Sender, GoodSender(s), NEW a \in Nat, NEW w \in Nat,
           s.una < a, Reached(s, a)
    PROVE  LET s2 == [s EXCEPT !.slist = RemoveAcked(s.slist, a - s.una),
                               !.sbuf = SubSeq(s.sbuf, a - s.una + 1, Len(s.sbuf)),
                               !.una = a, !.wnd = w]
           IN  /\ s2 \in Sender /\ GoodSender(s2) /\ Keeps(s, s2)
               /\ s2.una + Len(s2.sbuf) = s.una + Len(s.sbuf)
<1> DEFINE l == s.slist
           N == Len(l)
           L == Len(s.sbuf)
           n == a - s.una
           c == RemoveAcked(l, n)
           d == SubSeq(s.sbuf, n + 1, L)
           s2 == [s EXCEPT !.slist = c, !.sbuf = d, !.una = a, !.wnd = w]
<1>0. /\ l \in Seq(Segment) /\ N \in Nat /\ DOMAIN l = 1 .. N
      /\ s.una \in Nat /\ s.nxt \in Nat /\ L \in Nat /\ s.sbuf \in Seq(Nat)
      /\ n \in Nat /\ a = s.una + n
  BY SegmentTypes
<1>q. \A j \in 1 .. N :
            /\ l[j].seq \in Nat /\ l[j].len \in Nat /\ l[j].len > 0
            /\ l[j].xmit \in Nat /\ l[j].ctrl \in BOOLEAN
            /\ End(l[j]) \in Nat /\ End(l[j]) = l[j].seq + l[j].len
  BY SegmentTypes DEF End
<1>g. /\ Segments(s) /\ s.una <= s.nxt /\ s.nxt <= s.una + L
      /\ \A i \in DOMAIN s.sbuf : s.sbuf[i] = s.una + i - 1
  BY DEF GoodSender
<1>1. PICK k \in 1 .. N : l[k].xmit > 0 /\ a = End(l[k])
  BY <1>0 DEF Reached
<1>2. a <= s.nxt /\ a <= s.una + L /\ n <= L
  <2>1. End(l[k]) <= s.nxt /\ End(l[k]) <= s.una + L
    BY <1>0, <1>1, <1>g DEF Segments
  <2> QED BY <2>1, <1>0, <1>1
<1>3. c = SubSeq(l, k + 1, N)
  <2>1. k \in DOMAIN s.slist
    BY <1>0
  <2> QED BY <2>1, <1>1, <1>g, RemoveAckedFacts
<1>k. k \in Nat /\ 1 <= k /\ k <= N
  BY <1>0
<1>4. /\ c \in Seq(Segment) /\ Len(c) = N - k /\ DOMAIN c = 1 .. N - k
      /\ \A j \in 1 .. N - k : c[j] = l[k + j] /\ k + j \in DOMAIN l
  <2> HIDE DEF l
  <2>1. SubSeq(l, k + 1, Len(l)) \in Seq(Segment) /\ Dropped(l, SubSeq(l, k + 1, Len(l)), k)
    BY <1>0, <1>k, DropFacts
  <2> HIDE DEF c
  <2> QED BY <1>3, <2>1 DEF Dropped
<1>5. /\ d \in Seq(Nat) /\ Len(d) = L - n /\ DOMAIN d = 1 .. L - n
      /\ \A j \in 1 .. L - n : d[j] = s.sbuf[n + j] /\ n + j \in DOMAIN s.sbuf
  <2> DEFINE b == s.sbuf
  <2>1. b \in Seq(Nat) /\ n \in Nat /\ n <= Len(b)
    BY <1>0, <1>2
  <2> HIDE DEF b, n
  <2>2. SubSeq(b, n + 1, Len(b)) \in Seq(Nat) /\ Dropped(b, SubSeq(b, n + 1, Len(b)), n)
    BY <2>1, DropFacts
  <2>3. d = SubSeq(b, n + 1, Len(b)) /\ L = Len(b)
    BY DEF b
  <2> HIDE DEF d, L
  <2> QED BY <2>2, <2>3 DEF Dropped, b
<1> HIDE DEF c, d, n
<1>6. /\ s2 \in Sender /\ s2.slist = c /\ s2.sbuf = d /\ s2.una = a
      /\ s2.nxt = s.nxt
  BY <1>4, <1>5 DEF Sender
<1> HIDE DEF s2
<1>7. a + Len(d) = s.una + L
  BY <1>0, <1>2, <1>5, SMTT(40)
<1>8. ASSUME NEW j \in 1 .. N - k
      PROVE  /\ a <= c[j].seq /\ End(c[j]) <= a + Len(d)
             /\ c[j].xmit = 0 => s.nxt <= c[j].seq
             /\ c[j].xmit > 0 => End(c[j]) <= s.nxt
             /\ c[j].ctrl <=> c[j].seq = 0
             /\ c[j].ctrl => c[j].len = 1
  <2>1. c[j] = l[k + j] /\ k + j \in DOMAIN l /\ k < k + j /\ k \in DOMAIN l
    BY <1>4, <1>k, <1>0
  <2> DEFINE m == k + j
  <2> HIDE DEF m
  <2>2. c[j] = l[m] /\ m \in DOMAIN l /\ k < m /\ k \in DOMAIN l
    BY <2>1 DEF m
  <2>3. /\ End(l[k]) <= l[m].seq /\ End(l[m]) <= s.una + L
        /\ l[m].xmit = 0 => s.nxt <= l[m].seq
        /\ l[m].xmit > 0 => End(l[m]) <= s.nxt
        /\ l[m].ctrl <=> l[m].seq = 0
        /\ l[m].ctrl => l[m].len = 1
    BY <2>2, <1>g DEF Segments
  <2> QED BY <2>2, <2>3, <1>1, <1>7
<1>9. ASSUME NEW i \in 1 .. N - k, NEW j \in 1 .. N - k
      PROVE  /\ i < j => End(c[i]) <= c[j].seq
             /\ j = i + 1 => End(c[i]) = c[j].seq
  <2> DEFINE m == k + i
             p == k + j
  <2>1. c[i] = l[m] /\ m \in DOMAIN l /\ c[j] = l[p] /\ p \in DOMAIN l
    BY <1>4
  <2>2. (i < j => m < p) /\ (j = i + 1 => p = m + 1)
    BY <1>k
  <2> HIDE DEF m, p
  <2>3. (m < p => End(l[m]) <= l[p].seq) /\ (p = m + 1 => End(l[m]) = l[p].seq)
    BY <2>1, <1>g DEF Segments
  <2> QED BY <2>1, <2>2, <2>3
<1>10. c = <<>> => d = <<>>
  <2> SUFFICES ASSUME c = <<>> PROVE d = <<>>
    OBVIOUS
  <2>1. k = N
    BY <1>4, <1>k, <1>0
  <2>2. End(l[N]) = s.una + L
    BY <2>1, <1>k, <1>0, <1>g DEF Segments
  <2>3. Len(d) = 0
    BY <2>1, <2>2, <1>0, <1>1, <1>5, SMTT(40)
  <2> QED BY <2>3, <1>5
<1>11. c # <<>> => c[1].seq = a /\ End(c[Len(c)]) = a + Len(d)
  <2> SUFFICES ASSUME c # <<>> PROVE c[1].seq = a /\ End(c[Len(c)]) = a + Len(d)
    OBVIOUS
  <2>1. Len(c) # 0
    BY <1>4
  <2>2. 1 \in 1 .. N - k /\ N - k \in 1 .. N - k /\ k + (N - k) = N /\ k + 1 \in DOMAIN l
    BY <2>1, <1>4, <1>k, <1>0
  <2>3. c[1] = l[k + 1] /\ c[N - k] = l[N]
    BY <2>2, <1>4
  <2>4. l[k + 1].seq = End(l[k])
    BY <2>2, <1>0, <1>g DEF Segments
  <2>5. End(l[N]) = s.una + L
    BY <2>2, <1>0, <1>g DEF Segments
  <2> QED BY <2>3, <2>4, <2>5, <1>1, <1>4, <1>7
<1>12. Segments(s2)
  BY <1>4, <1>6, <1>8, <1>9, <1>10, <1>11 DEF Segments
<1>13. ASSUME NEW i \in DOMAIN d PROVE d[i] = a + i - 1
  <2>1. i \in 1 .. L - n /\ n + i \in DOMAIN s.sbuf
    BY <1>5
  <2>2. d[i] = s.una + (n + i) - 1
    BY <2>1, <1>5, <1>g
  <2> QED BY <2>1, <2>2, <1>0
<1>14. GoodSender(s2)
  BY <1>0, <1>2, <1>6, <1>7, <1>12, <1>13, <1>g DEF GoodSender
<1>15. Keeps(s, s2)
  <2> SUFFICES ASSUME NEW b \in Int, Reached(s, b) PROVE Reached(s2, b)
    BY DEF Keeps
  <2>1. CASE b <= s.una
    <3>1. b <= a
      BY <2>1, <1>0
    <3> QED BY <3>1, <1>6 DEF Reached
  <2>2. ASSUME NEW j \in 1 .. N, l[j].xmit > 0, b = End(l[j]) PROVE Reached(s2, b)
    <3>1. CASE j <= k
      <4>1. j < k => End(l[j]) <= l[k].seq
        BY <1>0, <1>g DEF Segments
      <4>2. l[k].seq <= End(l[k]) /\ End(l[k]) <= End(l[k])
        <5>1. l[k].seq \in Nat /\ l[k].len \in Nat /\ End(l[k]) = l[k].seq + l[k].len
          BY <1>q
        <5> QED BY <5>1
      <4>3. b <= a
        BY <3>1, <4>1, <4>2, <2>2, <1>1, <1>q, <1>k
      <4> QED BY <4>3, <1>6 DEF Reached
    <3>2. CASE j > k
      <4>1. j - k \in 1 .. N - k /\ k + (j - k) = j
        BY <3>2, <1>k, <1>0, SMTT(40)
      <4>2. c[j - k] = l[j]
        BY <4>1, <1>4
      <4> QED BY <4>1, <4>2, <2>2, <1>4, <1>6 DEF Reached
    <3> QED BY <3>1, <3>2, <1>k
  <2> QED BY <2>1, <2>2, <1>0 DEF Reached
<1>16. s2.una + Len(s2.sbuf) = s.una + Len(s.sbuf)
  BY <1>6, <1>7
<1>17. s2 \in Sender /\ GoodSender(s2) /\ Keeps(s, s2)
  BY <1>6, <1>14, <1>15
<1> QED BY <1>16, <1>17 DEF s2, c, d, n

\* The units that are next in the stream.
Follow(s, units, ctrl) ==
    /\ units \in Seq(Nat) /\ Len(units) > 0
    /\ \A i \in DOMAIN units : units[i] = s.una + Len(s.sbuf) + i - 1
    /\ ctrl \in BOOLEAN
    /\ ctrl <=> s.una + Len(s.sbuf) = 0
    /\ ctrl => Len(units) = 1

\* m_slist after queue.
Queued(s, n, ctrl) ==
    IF s.slist # <<>> /\ Last(s.slist).ctrl = ctrl /\ Last(s.slist).xmit = 0
    THEN [s.slist EXCEPT ![Len(s.slist)].len = @ + n]
    ELSE Append(s.slist, [seq |-> s.una + Len(s.sbuf), len |-> n, ctrl |-> ctrl,
                          xmit |-> 0])

\* The list c has the segments of s, the last one longer or followed by one more,
\* for n units more.
Extended(s, c, n) ==
    /\ \A i \in DOMAIN c :
          /\ s.una <= c[i].seq /\ End(c[i]) <= s.una + (Len(s.sbuf) + n)
          /\ c[i].xmit = 0 => s.nxt <= c[i].seq
          /\ c[i].xmit > 0 => End(c[i]) <= s.nxt
          /\ c[i].ctrl <=> c[i].seq = 0
          /\ c[i].ctrl => c[i].len = 1
    /\ \A i, j \in DOMAIN c :
          /\ i < j => End(c[i]) <= c[j].seq
          /\ j = i + 1 => End(c[i]) = c[j].seq
    /\ c # <<>> /\ c[1].seq = s.una
    /\ End(c[Len(c)]) = s.una + (Len(s.sbuf) + n)
    /\ \A i \in DOMAIN s.slist :
          /\ i \in DOMAIN c /\ c[i].xmit = s.slist[i].xmit
          /\ s.slist[i].xmit > 0 => End(c[i]) = End(s.slist[i])

\* A sender whose list was extended like that is good, and keeps what was sent.
LEMMA ExtendedSender ==
    ASSUME NEW s \in Sender, GoodSender(s), NEW c \in Seq(Segment), NEW d \in Seq(Nat),
           NEW n \in Nat, Len(d) = Len(s.sbuf) + n,
           \A i \in DOMAIN d : d[i] = s.una + i - 1,
           Extended(s, c, n)
    PROVE  LET s2 == [s EXCEPT !.slist = c, !.sbuf = d]
           IN  s2 \in Sender /\ GoodSender(s2) /\ Keeps(s, s2)
<1> DEFINE s2 == [s EXCEPT !.slist = c, !.sbuf = d]
<1>0. s.una \in Nat /\ s.nxt \in Nat /\ Len(s.sbuf) \in Nat
  BY SegmentTypes
<1>1. /\ s2 \in Sender /\ s2.slist = c /\ s2.sbuf = d /\ s2.una = s.una
      /\ s2.nxt = s.nxt
  BY DEF Sender
<1> HIDE DEF s2
<1>2. Segments(s2)
  <2>1. \A i \in DOMAIN s2.slist :
          /\ s2.una <= s2.slist[i].seq /\ End(s2.slist[i]) <= s2.una + Len(s2.sbuf)
          /\ s2.slist[i].xmit = 0 => s2.nxt <= s2.slist[i].seq
          /\ s2.slist[i].xmit > 0 => End(s2.slist[i]) <= s2.nxt
          /\ s2.slist[i].ctrl <=> s2.slist[i].seq = 0
          /\ s2.slist[i].ctrl => s2.slist[i].len = 1
    BY <1>1 DEF Extended
  <2>2. \A i, j \in DOMAIN s2.slist :
          /\ i < j => End(s2.slist[i]) <= s2.slist[j].seq
          /\ j = i + 1 => End(s2.slist[i]) = s2.slist[j].seq
    BY <1>1 DEF Extended
  <2>3. /\ s2.slist # <<>> /\ s2.slist[1].seq = s2.una
        /\ End(s2.slist[Len(s2.slist)]) = s2.una + Len(s2.sbuf)
    BY <1>1 DEF Extended
  <2> QED BY <2>1, <2>2, <2>3 DEF Segments
<1>3. s.una <= s.nxt /\ s.nxt <= s.una + Len(d)
  BY <1>0 DEF GoodSender
<1>4. GoodSender(s2)
  BY <1>1, <1>2, <1>3 DEF GoodSender
<1>5. Keeps(s, s2)
  <2> SUFFICES ASSUME NEW b \in Int, NEW i \in DOMAIN s.slist, s.slist[i].xmit > 0,
                      b = End(s.slist[i])
               PROVE  i \in DOMAIN c /\ c[i].xmit > 0 /\ b = End(c[i])
    BY <1>1 DEF Keeps, Reached
  <2> QED BY DEF Extended
<1> QED BY <1>1, <1>4, <1>5 DEF s2

\* The last segment of a list, made longer by n units.
LEMMA LongerLast ==
    ASSUME NEW s \in Sender, GoodSender(s), NEW n \in Nat, n > 0, s.slist # <<>>,
           s.slist[Len(s.slist)].xmit = 0, ~s.slist[Len(s.slist)].ctrl
    PROVE  LET c == [s.slist EXCEPT ![Len(s.slist)].len = @ + n]
           IN  c \in Seq(Segment) /\ Extended(s, c, n)
<1> DEFINE l == s.slist
           N == Len(l)
           L == Len(s.sbuf)
           g == l[N]
           h == [g EXCEPT !.len = @ + n]
           c == [l EXCEPT ![N].len = @ + n]
<1>0. /\ l \in Seq(Segment) /\ N \in Nat /\ DOMAIN l = 1 .. N /\ N \in 1 .. N
      /\ s.una \in Nat /\ s.nxt \in Nat /\ L \in Nat /\ g \in Segment
  BY SegmentTypes
<1>q. \A j \in 1 .. N :
            /\ l[j].seq \in Nat /\ l[j].len \in Nat /\ l[j].len > 0
            /\ l[j].xmit \in Nat /\ l[j].ctrl \in BOOLEAN
            /\ End(l[j]) \in Nat /\ End(l[j]) = l[j].seq + l[j].len
  BY SegmentTypes DEF End
<1>g. Segments(s)
  BY DEF GoodSender
<1>1. /\ g.seq \in Nat /\ g.len \in Nat /\ g.len > 0 /\ g.xmit = 0 /\ ~g.ctrl
      /\ End(g) = g.seq + g.len
  BY <1>0, <1>q
<1>2. /\ h \in Segment /\ h.seq = g.seq /\ h.len = g.len + n /\ h.ctrl = g.ctrl
      /\ h.xmit = g.xmit
  <2> HIDE DEF g
  <2>1. g.len + n \in Positive
    BY <1>1 DEF Positive
  <2> QED BY <1>0, <2>1 DEF Segment
<1>3. /\ s.una <= g.seq /\ s.nxt <= g.seq /\ g.seq # 0 /\ End(g) = s.una + L
  BY <1>0, <1>1, <1>g DEF Segments
<1>s. \A j \in 1 .. N :
          /\ s.una <= l[j].seq /\ End(l[j]) <= s.una + L
          /\ l[j].xmit = 0 => s.nxt <= l[j].seq
          /\ l[j].xmit > 0 => End(l[j]) <= s.nxt
          /\ l[j].ctrl <=> l[j].seq = 0
          /\ l[j].ctrl => l[j].len = 1
  BY <1>0, <1>g DEF Segments
<1>p. \A i, j \in 1 .. N :
          /\ i < j => End(l[i]) <= l[j].seq
          /\ j = i + 1 => End(l[i]) = l[j].seq
  BY <1>0, <1>g, ZenonT(60) DEF Segments
<1>f. l[1].seq = s.una
  BY <1>g DEF Segments
<1>4. c = [l EXCEPT ![N] = h]
  OBVIOUS
<1> HIDE DEF c, h
<1>5. /\ c \in Seq(Segment) /\ Len(c) = N /\ DOMAIN c = 1 .. N /\ c[N] = h
      /\ \A j \in 1 .. N : j # N => c[j] = l[j]
  BY <1>0, <1>2, <1>4
<1> HIDE DEF g
<1>6. /\ End(h) = s.una + (L + n) /\ h.xmit = 0 /\ ~h.ctrl /\ h.seq # 0
      /\ s.una <= h.seq /\ s.nxt <= h.seq
  <2>1. End(h) = g.seq + (g.len + n)
    BY <1>2 DEF End
  <2>0. s.una \in Nat /\ L \in Nat
    BY <1>0
  <2> HIDE DEF L
  <2>2. g.seq + (g.len + n) = s.una + (L + n)
    BY <2>0, <1>1, <1>3, SMTT(40)
  <2> QED BY <2>1, <2>2, <1>1, <1>2, <1>3
<1> HIDE DEF l, L, N
<1>7. ASSUME NEW i \in 1 .. N
      PROVE  /\ s.una <= c[i].seq /\ End(c[i]) <= s.una + (L + n)
             /\ c[i].xmit = 0 => s.nxt <= c[i].seq
             /\ c[i].xmit > 0 => End(c[i]) <= s.nxt
             /\ c[i].ctrl <=> c[i].seq = 0
             /\ c[i].ctrl => c[i].len = 1
             /\ c[i].xmit = l[i].xmit
             /\ l[i].xmit > 0 => End(c[i]) = End(l[i])
  <2>1. CASE i = N
    <3>1. c[i] = h /\ l[i] = g
      BY <2>1, <1>5 DEF g
    <3>2. End(h) <= s.una + (L + n)
      BY <1>6, <1>0
    <3> QED BY <3>1, <3>2, <1>1, <1>2, <1>6
  <2>2. CASE i # N
    <3>1. c[i] = l[i]
      BY <2>2, <1>5
    <3>2. End(l[i]) <= s.una + (L + n)
      BY <1>s, <1>q, <1>0
    <3> QED BY <3>1, <3>2, <1>s
  <2> QED BY <2>1, <2>2
<1>8. ASSUME NEW i \in 1 .. N, NEW j \in 1 .. N
      PROVE  /\ i < j => End(c[i]) <= c[j].seq
             /\ j = i + 1 => End(c[i]) = c[j].seq
  <2>1. c[j].seq = l[j].seq
    <3>1. CASE j = N
      BY <3>1, <1>2, <1>5 DEF g
    <3>2. CASE j # N
      BY <3>2, <1>5
    <3> QED BY <3>1, <3>2
  <2>2. i < j => i # N
    BY <1>0
  <2>3. j = i + 1 => i < j
    OBVIOUS
  <2>4. i < j => c[i] = l[i]
    BY <2>2, <1>5
  <2>5. (i < j => End(l[i]) <= l[j].seq) /\ (j = i + 1 => End(l[i]) = l[j].seq)
    BY <1>p
  <2> QED BY <2>1, <2>3, <2>4, <2>5
<1>9. c # <<>> /\ c[1].seq = s.una /\ End(c[Len(c)]) = s.una + (L + n)
  <2>1. 1 \in 1 .. N
    BY <1>0
  <2>2. c[1].seq = l[1].seq
    <3>1. CASE N = 1
      BY <3>1, <1>2, <1>5 DEF g
    <3>2. CASE N # 1
      BY <3>2, <2>1, <1>5
    <3> QED BY <3>1, <3>2
  <2>3. c # <<>>
    BY <2>1, <1>5
  <2> QED BY <2>2, <2>3, <1>f, <1>5, <1>6
<1>10. Extended(s, c, n)
  <2>1. \A i \in DOMAIN l : /\ i \in DOMAIN c /\ c[i].xmit = l[i].xmit
                            /\ l[i].xmit > 0 => End(c[i]) = End(l[i])
    BY <1>0, <1>5, <1>7
  <2> QED BY <2>1, <1>5, <1>7, <1>8, <1>9 DEF Extended, l, L
<1> QED BY <1>5, <1>10 DEF c, l, N

\* A list with one more segment of n units at its end.
LEMMA OneMore ==
    ASSUME NEW s \in Sender, GoodSender(s), NEW n \in Nat, n > 0, NEW ctrl \in BOOLEAN,
           ctrl <=> s.una + Len(s.sbuf) = 0, ctrl => n = 1
    PROVE  LET c == Append(s.slist, [seq |-> s.una + Len(s.sbuf), len |-> n,
                                     ctrl |-> ctrl, xmit |-> 0])
           IN  c \in Seq(Segment) /\ Extended(s, c, n)
<1> DEFINE l == s.slist
           N == Len(l)
           L == Len(s.sbuf)
           h == [seq |-> s.una + L, len |-> n, ctrl |-> ctrl, xmit |-> 0]
           c == Append(l, h)
<1>0. /\ l \in Seq(Segment) /\ N \in Nat /\ DOMAIN l = 1 .. N
      /\ s.una \in Nat /\ s.nxt \in Nat /\ L \in Nat
  BY SegmentTypes
<1>q. \A j \in 1 .. N :
            /\ l[j].seq \in Nat /\ l[j].len \in Nat /\ l[j].len > 0
            /\ l[j].xmit \in Nat /\ l[j].ctrl \in BOOLEAN
            /\ End(l[j]) \in Nat /\ End(l[j]) = l[j].seq + l[j].len
  BY SegmentTypes DEF End
<1>g. Segments(s) /\ s.una <= s.nxt /\ s.nxt <= s.una + L
  BY DEF GoodSender
<1>s. \A j \in 1 .. N :
          /\ s.una <= l[j].seq /\ End(l[j]) <= s.una + L
          /\ l[j].xmit = 0 => s.nxt <= l[j].seq
          /\ l[j].xmit > 0 => End(l[j]) <= s.nxt
          /\ l[j].ctrl <=> l[j].seq = 0
          /\ l[j].ctrl => l[j].len = 1
  BY <1>0, <1>g DEF Segments
<1>p. \A i, j \in 1 .. N :
          /\ i < j => End(l[i]) <= l[j].seq
          /\ j = i + 1 => End(l[i]) = l[j].seq
  BY <1>0, <1>g DEF Segments
<1>f. /\ l # <<>> => l[1].seq = s.una /\ End(l[N]) = s.una + L
      /\ l = <<>> => L = 0
  BY <1>g DEF Segments
<1>2. /\ h \in Segment /\ h.seq = s.una + L /\ h.len = n /\ h.ctrl = ctrl
      /\ h.xmit = 0
  <2>1. s.una + L \in Nat /\ n \in Positive
    BY <1>0 DEF Positive
  <2> QED BY <2>1 DEF Segment
<1> HIDE DEF h, l
<1>5. /\ c \in Seq(Segment) /\ Len(c) = N + 1 /\ DOMAIN c = 1 .. N + 1
      /\ c[N + 1] = h /\ \A j \in 1 .. N : c[j] = l[j]
  BY <1>0, <1>2
<1> HIDE DEF c, L
<1>6. /\ End(h) = s.una + (L + n) /\ s.una <= h.seq /\ s.nxt <= h.seq
      /\ (h.ctrl <=> h.seq = 0) /\ (h.ctrl => h.len = 1)
  <2>1. End(h) = (s.una + L) + n
    BY <1>2 DEF End
  <2> QED BY <2>1, <1>0, <1>2, <1>g DEF L
<1> HIDE DEF N
<1>7. ASSUME NEW i \in 1 .. N + 1
      PROVE  /\ s.una <= c[i].seq /\ End(c[i]) <= s.una + (L + n)
             /\ c[i].xmit = 0 => s.nxt <= c[i].seq
             /\ c[i].xmit > 0 => End(c[i]) <= s.nxt
             /\ c[i].ctrl <=> c[i].seq = 0
             /\ c[i].ctrl => c[i].len = 1
  <2>1. CASE i = N + 1
    <3>1. c[i] = h
      BY <2>1, <1>5
    <3>2. End(h) <= s.una + (L + n)
      BY <1>6, <1>0
    <3> QED BY <3>1, <3>2, <1>2, <1>6
  <2>2. CASE i # N + 1
    <3>0. i \in 1 .. N
      BY <2>2, <1>0
    <3>1. c[i] = l[i]
      BY <3>0, <1>5
    <3>2. End(l[i]) <= s.una + (L + n)
      BY <3>0, <1>s, <1>q, <1>0
    <3> QED BY <3>0, <3>1, <3>2, <1>s
  <2> QED BY <2>1, <2>2
<1>8. ASSUME NEW i \in 1 .. N + 1, NEW j \in 1 .. N + 1
      PROVE  /\ i < j => End(c[i]) <= c[j].seq
             /\ j = i + 1 => End(c[i]) = c[j].seq
  <2> SUFFICES ASSUME i < j
               PROVE  End(c[i]) <= c[j].seq /\ (j = i + 1 => End(c[i]) = c[j].seq)
    OBVIOUS
  <2>1. i \in 1 .. N /\ c[i] = l[i]
    BY <1>0, <1>5
  <2>2. CASE j = N + 1
    <3>1. c[j].seq = s.una + L
      BY <2>2, <1>2, <1>5
    <3>2. End(l[i]) <= s.una + L
      BY <2>1, <1>s
    <3>3. j = i + 1 => i = N /\ l # <<>>
      BY <2>1, <2>2, <1>0
    <3>4. j = i + 1 => End(l[i]) = s.una + L
      BY <3>3, <1>f
    <3> QED BY <2>1, <3>1, <3>2, <3>4
  <2>3. CASE j # N + 1
    <3>1. j \in 1 .. N /\ c[j] = l[j]
      BY <2>3, <1>0, <1>5
    <3>2. (i < j => End(l[i]) <= l[j].seq) /\ (j = i + 1 => End(l[i]) = l[j].seq)
      BY <2>1, <3>1, <1>p
    <3> QED BY <2>1, <3>1, <3>2
  <2> QED BY <2>2, <2>3
<1>9. c # <<>> /\ c[1].seq = s.una /\ End(c[Len(c)]) = s.una + (L + n)
  <2>1. c # <<>> /\ End(c[Len(c)]) = s.una + (L + n)
    BY <1>0, <1>5, <1>6
  <2>2. CASE l # <<>>
    <3>1. 1 \in 1 .. N
      BY <2>2, <1>0 DEF N
    <3>2. c[1] = l[1]
      BY <3>1, <1>5
    <3> QED BY <2>1, <2>2, <3>2, <1>f
  <2>3. CASE l = <<>>
    <3>1. N = 0 /\ L = 0
      BY <2>3, <1>f DEF N
    <3>2. c[1] = h
      BY <3>1, <1>5
    <3>3. s.una + L = s.una
      BY <3>1, <1>0
    <3> QED BY <2>1, <3>2, <3>3, <1>2
  <2> QED BY <2>2, <2>3
<1>10. Extended(s, c, n)
  <2>1. \A i \in DOMAIN l : /\ i \in DOMAIN c /\ c[i].xmit = l[i].xmit
                            /\ l[i].xmit > 0 => End(c[i]) = End(l[i])
    BY <1>0, <1>5
  <2> QED BY <2>1, <1>5, <1>7, <1>8, <1>9 DEF Extended, l, L
<1> QED BY <1>5, <1>10 DEF c, l, h, L

\* Units that were queued leave the sender good.
LEMMA QueueKeepsSender ==
    ASSUME NEW s \in Sender, GoodSender(s), NEW units, NEW ctrl, Follow(s, units, ctrl)
    PROVE  LET s2 == [s EXCEPT !.slist = Queued(s, Len(units), ctrl),
                               !.sbuf = s.sbuf \o units]
           IN  /\ s2 \in Sender /\ GoodSender(s2) /\ Keeps(s, s2)
               /\ Len(s2.sbuf) = Len(s.sbuf) + Len(units)
<1> DEFINE L == Len(s.sbuf)
           n == Len(units)
           c == Queued(s, n, ctrl)
           b == s.sbuf
           d == b \o units
           s2 == [s EXCEPT !.slist = c, !.sbuf = d]
<1>0. s.una \in Nat /\ L \in Nat /\ b \in Seq(Nat) /\ s.slist \in Seq(Segment)
  BY SegmentTypes
<1>u. /\ units \in Seq(Nat) /\ n > 0 /\ n \in Nat /\ ctrl \in BOOLEAN
      /\ ctrl <=> s.una + L = 0
      /\ ctrl => n = 1
      /\ DOMAIN units = 1 .. n
      /\ \A i \in 1 .. n : units[i] = s.una + L + i - 1
  BY DEF Follow
<1>g. \A i \in DOMAIN b : b[i] = s.una + i - 1
  BY DEF GoodSender
<1>1. /\ d \in Seq(Nat) /\ Len(d) = L + n /\ DOMAIN d = 1 .. L + n
      /\ \A i \in 1 .. L : d[i] = b[i]
      /\ \A i \in 1 .. n : d[L + i] = units[i]
  <2> HIDE DEF b
  <2>1. b \in Seq(Nat) /\ units \in Seq(Nat)
    BY <1>0, <1>u
  <2>2. L = Len(b)
    BY DEF b
  <2>3. /\ d \in Seq(Nat) /\ Len(d) = Len(b) + n /\ DOMAIN d = 1 .. Len(b) + n
        /\ \A i \in 1 .. Len(b) : d[i] = b[i]
        /\ \A i \in 1 .. n : d[Len(b) + i] = units[i]
    BY ONLY <2>1, ConcatFacts
  <2> HIDE DEF d
  <2> QED BY <2>2, <2>3
<1> HIDE DEF d, n
<1>2. ASSUME NEW i \in DOMAIN d PROVE d[i] = s.una + i - 1
  <2>1. CASE i <= L
    <3>1. i \in 1 .. L /\ i \in DOMAIN b
      BY <2>1, <1>0, <1>1
    <3> QED BY <3>1, <1>1, <1>g
  <2>2. CASE i > L
    <3>0. L \in Nat /\ n \in Nat /\ i \in 1 .. L + n
      BY <1>0, <1>1, <1>u
    <3> HIDE DEF L
    <3>1. i - L \in 1 .. n /\ L + (i - L) = i
      BY ONLY <2>2, <3>0
    <3>2. d[i] = s.una + L + (i - L) - 1
      BY <3>1, <1>1, <1>u
    <3>3. s.una + L + (i - L) - 1 = s.una + i - 1
      BY <3>1, <1>0, <1>1, SMTT(40)
    <3> QED BY <3>2, <3>3
  <2> QED BY <2>1, <2>2, <1>0, <1>1
<1>3. c \in Seq(Segment) /\ Extended(s, c, n)
  <2> DEFINE l == s.slist
  <2>0. l # <<>> => Last(l) = l[Len(l)] /\ End(l[Len(l)]) = s.una + L
                      /\ Len(l) \in DOMAIN l
    <3>1. l # <<>> => Len(l) \in DOMAIN l
      BY <1>0
    <3> QED BY <3>1 DEF GoodSender, Segments, Last
  <2>1. CASE l # <<>> /\ Last(l).ctrl = ctrl /\ Last(l).xmit = 0
    <3>1. c = [l EXCEPT ![Len(l)].len = @ + n]
      BY <2>1 DEF Queued
    <3>2. l[Len(l)].ctrl = ctrl /\ l[Len(l)].xmit = 0 /\ l # <<>>
      BY <2>0, <2>1
    <3>3. ~ctrl
      <4>1. l[Len(l)].seq \in Nat /\ l[Len(l)].len \in Nat /\ l[Len(l)].len > 0
        BY <2>0, <3>2, SegmentTypes
      <4>2. s.una + L # 0
        BY <2>0, <3>2, <4>1, <1>0 DEF End
      <4> QED BY <4>2, <1>u
    <3> HIDE DEF c
    <3> QED BY <3>1, <3>2, <3>3, <1>u, LongerLast
  <2>2. CASE ~(l # <<>> /\ Last(l).ctrl = ctrl /\ Last(l).xmit = 0)
    <3>1. c = Append(l, [seq |-> s.una + L, len |-> n, ctrl |-> ctrl, xmit |-> 0])
      BY <2>2 DEF Queued
    <3> HIDE DEF c
    <3> QED BY <3>1, <1>u, OneMore
  <2> QED BY <2>1, <2>2
<1> HIDE DEF c
<1>4. s2 \in Sender /\ GoodSender(s2) /\ Keeps(s, s2)
  BY <1>1, <1>2, <1>3, <1>u, ExtendedSender
<1>5. s2.sbuf = d
  BY DEF Sender
<1> QED BY <1>1, <1>4, <1>5 DEF s2, c, d, n, b

-----------------------------------------------------------------------------
(***************************************************************************)
(* The flow of units from a sender to a receiver.                          *)
(***************************************************************************)
\* A receiver, in the form that the other lemmas use.
LEMMA ReceiverTypes ==
    ASSUME NEW r \in Receiver
    PROVE  /\ r.rlist \in Seq(SavedSegment) /\ r.rbuf \in Seq(Nat)
           /\ r.nxt \in Nat /\ r.wnd \in Nat /\ Len(r.rbuf) \in Nat
           /\ DOMAIN r.rlist = 1 .. Len(r.rlist) /\ Len(r.rlist) \in Nat
           /\ \A i \in DOMAIN r.rlist :
                 r.rlist[i].seq \in Nat /\ r.rlist[i].len \in Nat /\ End(r.rlist[i]) \in Nat
<1>1. r.rlist \in Seq(SavedSegment) /\ r.rbuf \in Seq(Nat)
  BY DEF Receiver
<1>2. \A i \in DOMAIN r.rlist : r.rlist[i] \in SavedSegment
  BY <1>1
<1>3. \A i \in DOMAIN r.rlist : r.rlist[i].seq \in Nat /\ r.rlist[i].len \in Nat
  BY <1>2 DEF SavedSegment, Positive
<1> QED BY <1>1, <1>3 DEF Receiver, End

\* The two halves of an end.
LEMMA Halves ==
    ASSUME NEW t \in Tcb
    PROVE  /\ Snd(t) \in Sender /\ Rcv(t) \in Receiver
           /\ Snd(t).slist = t.slist /\ Snd(t).sbuf = t.sbuf /\ Snd(t).una = t.snd_una
           /\ Snd(t).nxt = t.snd_nxt /\ Snd(t).wnd = t.snd_wnd
           /\ Rcv(t).rlist = t.rlist /\ Rcv(t).rbuf = t.rbuf /\ Rcv(t).ahead = t.ahead
           /\ Rcv(t).nxt = t.rcv_nxt /\ Rcv(t).wnd = t.rcv_wnd
<1>1. Snd(t) \in Sender
  BY DEF Tcb, Snd, Sender
<1>2. Rcv(t) \in Receiver
  BY DEF Tcb, Rcv, Receiver
<1> QED BY <1>1, <1>2 DEF Snd, Rcv

\* A sender that went on, with a receiver r for it.
Forward(s, s2, r) ==
    /\ Keeps(s, s2) /\ s.nxt <= s2.nxt
    /\ s2.una <= r.nxt /\ s2.nxt <= r.nxt + r.wnd /\ s2.una + s2.wnd <= r.nxt + r.wnd

\* A receiver that went on, with a sender s for it.
Onward(r, r2, s) ==
    r.nxt <= r2.nxt /\ r.nxt + r.wnd <= r2.nxt + r2.wnd /\ Arrives(s, r2)

\* What is reached was sent.
LEMMA ReachedWasSent ==
    ASSUME NEW s \in Sender, GoodSender(s), NEW b \in Int, Reached(s, b)
    PROVE  b <= s.nxt
<1>0. s.una \in Nat /\ s.nxt \in Nat /\ s.una <= s.nxt
  BY SegmentTypes DEF GoodSender
<1>1. CASE b <= s.una
  BY <1>0, <1>1
<1>2. ASSUME NEW i \in DOMAIN s.slist, s.slist[i].xmit > 0, b = End(s.slist[i])
      PROVE  b <= s.nxt
  BY <1>2 DEF GoodSender, Segments
<1> QED BY <1>1, <1>2 DEF Reached

\* When the sender goes on, the flow stays good.
LEMMA SenderGoesOn ==
    ASSUME NEW s \in Sender, NEW s2 \in Sender, NEW r \in Receiver, NEW A \in SUBSET Message,
           NEW B \in SUBSET Message, Flow(s, r, A, B), Forward(s, s2, r)
    PROVE  Flow(s2, r, A, B)
<1>0. /\ s.nxt \in Nat /\ s2.nxt \in Nat /\ s.una \in Nat /\ s2.una \in Nat
      /\ r.nxt \in Int
  BY SegmentTypes, ReceiverTypes
<1>k. \A b \in Int : Reached(s, b) => Reached(s2, b)
  BY DEF Forward, Keeps
<1>1. Arrives(s2, r)
  <2>1. Reached(s2, r.nxt)
    BY <1>0, <1>k DEF Flow, Arrives
  <2>2. ASSUME NEW i \in DOMAIN r.rlist PROVE Reached(s2, End(r.rlist[i]))
    <3>1. End(r.rlist[i]) \in Int
      BY ReceiverTypes
    <3> QED BY <3>1, <1>k DEF Flow, Arrives
  <2> QED BY <2>1, <2>2 DEF Arrives, Forward
<1>2. ASSUME NEW m \in A PROVE GoodPacket(s2, m)
  <2>1. m.seq \in Int /\ Len(m.data) \in Nat
    BY DEF Message
  <2>2. /\ GoodData(m) /\ m.seq + Len(m.data) <= s.nxt
        /\ m.data # <<>> => Reached(s, m.seq + Len(m.data))
    BY DEF Flow, GoodPacket
  <2>3. m.seq + Len(m.data) <= s2.nxt
    BY <1>0, <2>1, <2>2 DEF Forward
  <2>4. m.seq + Len(m.data) \in Int
    BY <2>1
  <2> QED BY <1>k, <2>2, <2>3, <2>4 DEF GoodPacket
<1>3. ASSUME NEW m \in B PROVE GoodAck(s2, r, m)
  <2>1. m.ack \in Int
    BY DEF Message
  <2> QED BY <2>1, <1>k DEF Flow, GoodAck
<1> QED BY <1>1, <1>2, <1>3 DEF Flow

\* When the receiver goes on, the flow stays good.
LEMMA ReceiverGoesOn ==
    ASSUME NEW s \in Sender, NEW r \in Receiver, NEW r2 \in Receiver,
           NEW A \in SUBSET Message, NEW B \in SUBSET Message,
           Flow(s, r, A, B), Onward(r, r2, s)
    PROVE  Flow(s, r2, A, B)
<1>0. r.nxt \in Nat /\ r.wnd \in Nat /\ r2.nxt \in Nat /\ r2.wnd \in Nat
  BY ReceiverTypes
<1>1. ASSUME NEW m \in B PROVE GoodAck(s, r2, m)
  <2>1. m.ack \in Nat /\ m.wnd \in Nat
    BY DEF Message
  <2>2. m.ack <= r.nxt /\ Reached(s, m.ack) /\ m.ack + m.wnd <= r.nxt + r.wnd
    BY DEF Flow, GoodAck
  <2>3. m.ack <= r2.nxt /\ m.ack + m.wnd <= r2.nxt + r2.wnd
    BY <1>0, <2>1, <2>2 DEF Onward
  <2> QED BY <2>2, <2>3 DEF GoodAck
<1> QED BY <1>1 DEF Flow, Onward

\* A handler that goes on as sender and as receiver, and writes good packets, stays
\* good.
LEMMA HandlerGoesOn ==
    ASSUME NEW w \in Handler, NEW v \in Handler, NEW u \in Tcb,
           NEW N \in SUBSET Message, NEW B \in SUBSET Message, NEW wr, NEW d, NEW wr2, NEW d2,
           GoodHandler(w, u, N, B, wr, d), GoodEnd(v.t, wr2, d2),
           Forward(Snd(w.t), Snd(v.t), Rcv(u)), Onward(Rcv(w.t), Rcv(v.t), Snd(u)),
           \A m \in v.out : \/ m \in w.out
                            \/ GoodPacket(Snd(v.t), m) /\ GoodAck(Snd(u), Rcv(v.t), m)
    PROVE  GoodHandler(v, u, N, B, wr2, d2)
<1> DEFINE s == Snd(w.t)
           r == Rcv(w.t)
           s2 == Snd(v.t)
           r2 == Rcv(v.t)
           su == Snd(u)
           ru == Rcv(u)
           M == N \cup w.out
           M2 == N \cup v.out
<1>0. w.t \in Tcb /\ v.t \in Tcb /\ M \in SUBSET Message /\ M2 \in SUBSET Message
  BY DEF Handler
<1>1. /\ s \in Sender /\ r \in Receiver /\ s2 \in Sender /\ r2 \in Receiver
      /\ su \in Sender /\ ru \in Receiver
  BY <1>0, Halves
<1>2. Flow(s, ru, M, B) /\ Flow(su, r, B, M)
  BY DEF GoodHandler
<1>a. \A m \in v.out : m \in w.out \/ (GoodPacket(s2, m) /\ GoodAck(su, r2, m))
  OBVIOUS
<1>f. Forward(s, s2, ru) /\ Onward(r, r2, su)
  OBVIOUS
<1> HIDE DEF s, r, s2, r2, su, ru
<1>o. \A m \in M2 : m \in M \/ (GoodPacket(s2, m) /\ GoodAck(su, r2, m))
  BY <1>a
<1> HIDE DEF M, M2
<1>3. Flow(s2, ru, M, B)
  BY <1>0, <1>1, <1>2, <1>f, SenderGoesOn
<1>4. Flow(su, r2, B, M)
  BY <1>0, <1>1, <1>2, <1>f, ReceiverGoesOn
<1>5. Flow(s2, ru, M2, B)
  BY <1>3, <1>o DEF Flow
<1>6. Flow(su, r2, B, M2)
  BY <1>4, <1>o DEF Flow
<1> QED BY <1>5, <1>6 DEF GoodHandler, s2, r2, su, ru, M2

\* Nothing has to be shown for the half that stands still.
LEMMA StandingStill ==
    ASSUME NEW w \in Handler, NEW u \in Tcb, NEW N, NEW B, NEW wr, NEW d,
           GoodHandler(w, u, N, B, wr, d)
    PROVE  Forward(Snd(w.t), Snd(w.t), Rcv(u)) /\ Onward(Rcv(w.t), Rcv(w.t), Snd(u))
<1> DEFINE s == Snd(w.t)
           r == Rcv(w.t)
<1>0. w.t \in Tcb
  BY DEF Handler
<1>1. s \in Sender /\ r \in Receiver
  BY <1>0, Halves
<1>2. Arrives(s, Rcv(u)) /\ Arrives(Snd(u), r)
  BY DEF GoodHandler, Flow
<1> HIDE DEF s, r
<1>3. s.nxt <= s.nxt /\ r.nxt <= r.nxt /\ r.nxt + r.wnd <= r.nxt + r.wnd
  BY <1>1, SegmentTypes, ReceiverTypes
<1>4. Forward(s, s, Rcv(u))
  BY <1>2, <1>3 DEF Forward, Arrives, Keeps
<1>5. Onward(r, r, Snd(u))
  BY <1>2, <1>3 DEF Onward
<1> QED BY <1>4, <1>5 DEF s, r

-----------------------------------------------------------------------------
(***************************************************************************)
(* Handlers.  The lemmas are about a handler w of one end, in progress,    *)
(* where u is the other end, N and B are the packets on the way to u and   *)
(* from u, and wr and d are what was written and read before.              *)
(***************************************************************************)
\* The scalars of an end.
LEMMA EndTypes ==
    ASSUME NEW t \in Tcb
    PROVE  /\ t.state \in TcpState /\ t.shutdown \in BOOLEAN
           /\ t.snd_una \in Nat /\ t.snd_nxt \in Nat /\ t.snd_wnd \in Nat
           /\ t.rcv_nxt \in Nat /\ t.rcv_wnd \in Nat /\ t.recover \in Nat
           /\ Len(t.sbuf) \in Nat /\ Len(t.rbuf) \in Nat
           /\ t.mss \in Nat /\ t.mss > 0 /\ t.cwnd \in Nat /\ t.cwnd > 0
           /\ t.ssthresh \in Nat /\ t.ssthresh > 0 /\ t.dup_acks \in 0 .. 4
           /\ t.msslevel \in DOMAIN MssLevels
<1>1. t.sbuf \in Seq(Nat) /\ t.rbuf \in Seq(Nat)
  BY DEF Tcb
<1>2. Len(t.sbuf) \in Nat /\ Len(t.rbuf) \in Nat
  BY <1>1
<1> QED BY <1>2 DEF Tcb, Positive

Connecting == {"TCP_SYN_SENT", "TCP_SYN_RECEIVED", "TCP_ESTABLISHED"}

\* A change of an end that is none of its streams.
Tuned(t, t2) ==
    /\ Snd(t2) = Snd(t) /\ Rcv(t2) = Rcv(t)
    /\ t2.shutdown = t.shutdown /\ t2.rto_base = t.rto_base /\ t2.recover <= t2.snd_nxt
    /\ \/ t2.state = t.state
       \/ t2.state = "TCP_CLOSED"
       \/ t.state \in Connecting /\ t2.state = "TCP_ESTABLISHED"

\* Such a change leaves a handler good.
LEMMA HandlerTuned ==
    ASSUME NEW w \in Handler, NEW v \in Handler, NEW u \in Tcb,
           NEW N \in SUBSET Message, NEW B \in SUBSET Message, NEW wr \in Nat, NEW d,
           GoodHandler(w, u, N, B, wr, d), Tuned(w.t, v.t),
           \A m \in v.out : \/ m \in w.out
                            \/ GoodPacket(Snd(w.t), m) /\ GoodAck(Snd(u), Rcv(w.t), m)
    PROVE  GoodHandler(v, u, N, B, wr, d)
<1>0. w.t \in Tcb /\ v.t \in Tcb
  BY DEF Handler
<1>1. Snd(v.t) = Snd(w.t) /\ Rcv(v.t) = Rcv(w.t)
  BY DEF Tuned
<1>2. /\ GoodEnd(w.t, wr, d) /\ Local(w.t) /\ Life(w.t, wr)
      /\ GoodSender(Snd(w.t)) /\ GoodReceiver(Rcv(w.t)) /\ Got(Rcv(w.t), w.t.shutdown, d)
  BY DEF GoodHandler, GoodEnd
<1>3. /\ v.t.sbuf = w.t.sbuf /\ v.t.snd_una = w.t.snd_una /\ v.t.snd_nxt = w.t.snd_nxt
  <2>1. /\ Snd(v.t).sbuf = v.t.sbuf /\ Snd(v.t).una = v.t.snd_una /\ Snd(v.t).nxt = v.t.snd_nxt
        /\ Snd(w.t).sbuf = w.t.sbuf /\ Snd(w.t).una = w.t.snd_una /\ Snd(w.t).nxt = w.t.snd_nxt
    BY DEF Snd
  <2> QED BY <1>1, <2>1
<1>4. Local(v.t)
  BY <1>2, <1>3 DEF Local, Tuned
<1>5. Life(v.t, wr)
  <2>1. w.t.state \in TcpState /\ w.t.snd_una \in Nat /\ Len(w.t.sbuf) \in Nat
    BY <1>0, EndTypes
  <2>2. w.t.snd_una + Len(w.t.sbuf) <= wr + 1
    <3>1. CASE w.t.state = "TCP_LISTEN"
      BY <3>1, <1>2, <2>1 DEF Life
    <3>2. CASE w.t.state \in Connecting
      BY <3>2, <1>2, <2>1 DEF Life, Connecting
    <3>3. CASE w.t.state = "TCP_CLOSED"
      BY <3>3, <1>2, <2>1 DEF Life
    <3> QED BY <3>1, <3>2, <3>3, <2>1 DEF TcpState, Connecting
  <2>3. v.t.shutdown = w.t.shutdown
    BY DEF Tuned
  <2>4. CASE v.t.state = w.t.state
    BY <2>3, <2>4, <1>2, <1>3 DEF Life
  <2>5. CASE v.t.state = "TCP_CLOSED"
    BY <2>2, <2>5, <1>3 DEF Life
  <2>6. CASE w.t.state \in Connecting /\ v.t.state = "TCP_ESTABLISHED"
    <3>1. w.t.snd_una + Len(w.t.sbuf) = wr + 1
      BY <2>6, <1>2 DEF Life, Connecting
    <3> QED BY <2>6, <3>1, <1>3 DEF Life
  <2> QED BY <2>4, <2>5, <2>6 DEF Tuned
<1>6. GoodEnd(v.t, wr, d)
  BY <1>0, <1>1, <1>2, <1>4, <1>5 DEF GoodEnd, Tuned
<1>7. Forward(Snd(w.t), Snd(v.t), Rcv(u)) /\ Onward(Rcv(w.t), Rcv(v.t), Snd(u))
  BY <1>1, StandingStill
<1>8. \A m \in v.out : \/ m \in w.out
                       \/ GoodPacket(Snd(v.t), m) /\ GoodAck(Snd(u), Rcv(v.t), m)
  BY <1>1
<1> QED BY <1>6, <1>7, <1>8, HandlerGoesOn

\* What an end owes to its peer and to its application does not depend on the
\* congestion window and the timer of delayed acknowledgements.
LEMMA ReTuned ==
    ASSUME NEW t \in Tcb, NEW t2 \in Tcb, NEW wr, NEW d, GoodEnd(t, wr, d),
           Snd(t2) = Snd(t), Rcv(t2) = Rcv(t),
           t2.shutdown = t.shutdown, t2.rto_base = t.rto_base, t2.recover = t.recover,
           t2.state = t.state
    PROVE  Tuned(t, t2)
<1>1. Snd(t2).nxt = t2.snd_nxt /\ Snd(t).nxt = t.snd_nxt
  BY DEF Snd
<1> QED BY <1>1 DEF Tuned, GoodEnd, Local

\* What stays the same while an end sends.
Sends(w, v) ==
    /\ v.told = w.told
    /\ v.t.state = w.t.state /\ v.t.shutdown = w.t.shutdown
    /\ v.t.read_enable = w.t.read_enable /\ v.t.write_enable = w.t.write_enable
    /\ v.t.sbuf = w.t.sbuf /\ v.t.snd_una = w.t.snd_una /\ v.t.snd_wnd = w.t.snd_wnd
    /\ v.t.dup_acks = w.t.dup_acks /\ v.t.recover = w.t.recover
    /\ v.t.ssthresh = w.t.ssthresh
    /\ Rcv(v.t) = Rcv(w.t)

\* packet, with its parts.
PacketOf(t, seq, ctrl, off, len) ==
    [seq |-> seq, ctrl |-> ctrl, ack |-> t.rcv_nxt, wnd |-> t.rcv_wnd,
     data |-> SubSeq(t.sbuf, off + 1, off + len)]

IsPacket(w, v, m, seq, ctrl, off, len) ==
    /\ v \in Handler /\ v.t = [w.t EXCEPT !.t_ack = FALSE]
    /\ v.out = w.out \cup {m} /\ v.told = w.told
    /\ m \in Message /\ m.seq = seq /\ m.ctrl = ctrl /\ m.ack = w.t.rcv_nxt
    /\ m.wnd = w.t.rcv_wnd /\ Len(m.data) = len /\ DOMAIN m.data = 1 .. len
    /\ \A i \in 1 .. len : m.data[i] = w.t.sbuf[off + i]

\* What packet writes: the units of m_sbuf from off on, and the state of the receiver.
LEMMA PacketIs ==
    ASSUME NEW w \in Handler, NEW seq \in Int, NEW ctrl \in BOOLEAN, NEW off \in Nat,
           NEW len \in Nat, off + len <= Len(w.t.sbuf)
    PROVE  IsPacket(w, Packet(w, seq, ctrl, off, len), PacketOf(w.t, seq, ctrl, off, len),
                    seq, ctrl, off, len)
<1> DEFINE m == PacketOf(w.t, seq, ctrl, off, len)
           b == w.t.sbuf
           data == SubSeq(b, off + 1, off + len)
           t2 == [w.t EXCEPT !.t_ack = FALSE]
           o2 == w.out \cup {m}
           v == Packet(w, seq, ctrl, off, len)
<1>0. w.t \in Tcb /\ w.t.rcv_nxt \in Nat /\ w.t.rcv_wnd \in Nat /\ b \in Seq(Nat)
  BY DEF Handler, Tcb
<1>1. /\ data \in Seq(Nat) /\ Len(data) = len /\ DOMAIN data = 1 .. len
      /\ \A i \in 1 .. len : data[i] = b[off + i]
  <2> DEFINE f == off + 1
             l == off + len
  <2>1. /\ f \in Nat /\ l \in Nat /\ f > 0 /\ f <= l + 1 /\ l <= Len(b) /\ l + 1 - f = len
        /\ \A i \in 1 .. len : f + i - 1 = off + i
    BY <1>0
  <2> HIDE DEF f, l, b
  <2>2. /\ SubSeq(b, f, l) \in Seq(Nat) /\ Len(SubSeq(b, f, l)) = l + 1 - f
        /\ DOMAIN SubSeq(b, f, l) = 1 .. l + 1 - f
        /\ \A i \in 1 .. l + 1 - f : SubSeq(b, f, l)[i] = b[f + i - 1]
    BY <1>0, <2>1, SubSeqFacts
  <2> QED BY <2>1, <2>2 DEF f, l
<1>2. m = [seq |-> seq, ctrl |-> ctrl, ack |-> w.t.rcv_nxt, wnd |-> w.t.rcv_wnd, data |-> data]
  BY DEF PacketOf
<1> HIDE DEF data, m
<1>3. /\ m \in Message /\ m.seq = seq /\ m.ctrl = ctrl /\ m.ack = w.t.rcv_nxt
      /\ m.wnd = w.t.rcv_wnd /\ m.data = data
  BY <1>0, <1>1, <1>2 DEF Message
<1>4. t2 \in Tcb
  BY <1>0 DEF Tcb
<1>5. o2 \in SUBSET Message
  BY <1>3 DEF Handler
<1>6. v = [w EXCEPT !.t = t2, !.out = o2]
  BY DEF Packet, Handler, PacketOf, m
<1> HIDE DEF t2, o2, v
<1>7. v \in Handler /\ v.t = t2 /\ v.out = o2 /\ v.told = w.told
  <2>1. LET x == [w EXCEPT !.t = t2, !.out = o2]
        IN  x \in Handler /\ x.t = t2 /\ x.out = o2 /\ x.told = w.told
    BY <1>4, <1>5 DEF Handler
  <2> QED BY <1>6, <2>1
<1> QED BY <1>1, <1>3, <1>7 DEF t2, o2, v, m, b, IsPacket

\* A packet with no data, which acknowledges what has arrived.
LEMMA EmptyPacket ==
    ASSUME NEW w \in Handler, NEW u \in Tcb,
           NEW N \in SUBSET Message, NEW B \in SUBSET Message, NEW wr \in Nat, NEW d,
           GoodHandler(w, u, N, B, wr, d), NEW seq \in Int, seq <= w.t.snd_nxt
    PROVE  LET v == Packet(w, seq, FALSE, 0, 0)
           IN  /\ v \in Handler /\ GoodHandler(v, u, N, B, wr, d)
               /\ v.t = [w.t EXCEPT !.t_ack = FALSE] /\ v.told = w.told
               /\ Sends(w, v)
<1> DEFINE m == PacketOf(w.t, seq, FALSE, 0, 0)
           v == Packet(w, seq, FALSE, 0, 0)
<1>0. /\ w.t \in Tcb /\ w.t.rcv_nxt \in Nat /\ w.t.rcv_wnd \in Nat /\ w.t.snd_nxt \in Nat
      /\ Len(w.t.sbuf) \in Nat
  BY EndTypes DEF Handler
<1>3. /\ v \in Handler /\ v.t = [w.t EXCEPT !.t_ack = FALSE]
      /\ v.out = w.out \cup {m} /\ v.told = w.told
      /\ m \in Message /\ m.seq = seq /\ m.ctrl = FALSE /\ m.ack = w.t.rcv_nxt
      /\ m.wnd = w.t.rcv_wnd /\ Len(m.data) = 0
  <2>1. 0 \in Nat /\ 0 + 0 <= Len(w.t.sbuf) /\ FALSE \in BOOLEAN
    BY <1>0
  <2> DEFINE no == FALSE
             zero == 0
  <2> HIDE DEF no, zero
  <2>2. IsPacket(w, Packet(w, seq, no, zero, zero), PacketOf(w.t, seq, no, zero, zero),
                 seq, no, zero, zero)
    <3>1. zero \in Nat /\ zero + zero <= Len(w.t.sbuf) /\ no \in BOOLEAN
      BY <2>1 DEF no, zero
    <3> QED BY <3>1, PacketIs
  <2> QED BY <2>2 DEF IsPacket, no, zero
<1> HIDE DEF v, m
<1>4. v.t \in Tcb
  BY <1>3 DEF Handler
<1>5. v \in Handler
  BY <1>3
<1>6. Snd(v.t) = Snd(w.t) /\ Rcv(v.t) = Rcv(w.t)
  BY <1>0, <1>3 DEF Snd, Rcv, Tcb
<1>7. Tuned(w.t, v.t)
  <2>1. /\ v.t.shutdown = w.t.shutdown /\ v.t.rto_base = w.t.rto_base
        /\ v.t.recover = w.t.recover /\ v.t.mss = w.t.mss /\ v.t.msslevel = w.t.msslevel
        /\ v.t.state = w.t.state
    BY <1>0, <1>3 DEF Tcb
  <2> QED BY <1>0, <1>4, <1>6, <2>1, ReTuned DEF GoodHandler
<1>8. GoodPacket(Snd(w.t), m)
  <2>1. m.data = <<>> /\ m.seq = seq /\ m.ctrl = FALSE
    BY <1>3 DEF Message
  <2>2. Snd(w.t).nxt = w.t.snd_nxt
    BY DEF Snd
  <2> QED BY <2>1, <2>2 DEF GoodPacket, GoodData
<1>9. GoodAck(Snd(u), Rcv(w.t), m)
  <2>1. m.ack = w.t.rcv_nxt /\ m.wnd = w.t.rcv_wnd
    BY <1>3
  <2>2. Rcv(w.t).nxt = w.t.rcv_nxt /\ Rcv(w.t).wnd = w.t.rcv_wnd
    BY DEF Rcv
  <2>3. Arrives(Snd(u), Rcv(w.t))
    BY DEF GoodHandler, Flow
  <2> QED BY <1>0, <2>1, <2>2, <2>3 DEF Arrives, GoodAck
<1>10. GoodHandler(v, u, N, B, wr, d)
  BY <1>3, <1>5, <1>7, <1>8, <1>9, HandlerTuned
<1>11. Sends(w, v)
  <2>1. /\ v.t.state = w.t.state /\ v.t.shutdown = w.t.shutdown
        /\ v.t.read_enable = w.t.read_enable /\ v.t.write_enable = w.t.write_enable
        /\ v.t.sbuf = w.t.sbuf /\ v.t.snd_una = w.t.snd_una /\ v.t.snd_wnd = w.t.snd_wnd
        /\ v.t.dup_acks = w.t.dup_acks /\ v.t.recover = w.t.recover
        /\ v.t.ssthresh = w.t.ssthresh
    BY <1>0, <1>3 DEF Tcb
  <2> QED BY <2>1, <1>3, <1>6 DEF Sends
<1> QED BY <1>3, <1>5, <1>10, <1>11 DEF v

\* When a packet is too large for the path, transmit ends with a level that fits.
LEMMA FittingFacts ==
    ASSUME NEW t \in Tcb, NEW n \in Nat, n > PathMss,
           \E l \in DOMAIN MssLevels : l > t.msslevel /\ MssLevels[l] <= PathMss
    PROVE  LET l == FittingLevel(t, n)
           IN  /\ l \in DOMAIN MssLevels /\ MssLevels[l] \in Nat
               /\ MssLevels[l] > 0 /\ MssLevels[l] < n
<1> DEFINE K == Len(MssLevels)
           I == {k \in DOMAIN MssLevels : k > t.msslevel /\ MssLevels[k] <= PathMss}
<1>0. /\ MssLevels \in Seq(Nat \ {0}) /\ MssLevels # <<>> /\ PathMss \in Nat
      /\ K \in Nat /\ DOMAIN MssLevels = 1 .. K /\ K \in 1 .. K
  BY PseudoTcpAssumption
<1>1. \A k \in 1 .. K : MssLevels[k] \in Nat /\ MssLevels[k] > 0
  BY <1>0
<1>6. I \subseteq Nat /\ I # {}
  BY <1>0
<1>7. Min(I) \in I /\ \A k \in I : Min(I) <= k
  <2> HIDE DEF I
  <2> QED BY <1>6, MinFacts
<1> DEFINE P(l) == /\ l > t.msslevel /\ MssLevels[l] <= PathMss
                   /\ \A k \in DOMAIN MssLevels :
                         k > t.msslevel /\ MssLevels[k] <= PathMss => l <= k
<1>8. Min(I) \in DOMAIN MssLevels /\ P(Min(I))
  BY <1>7
<1>9. FittingLevel(t, n) = CHOOSE l \in DOMAIN MssLevels : P(l)
  BY <1>0 DEF FittingLevel
<1>10. FittingLevel(t, n) \in DOMAIN MssLevels /\ P(FittingLevel(t, n))
  <2> HIDE DEF P
  <2> QED BY <1>8, <1>9
<1> DEFINE f == FittingLevel(t, n)
<1> HIDE DEF f
<1>11. f \in 1 .. K /\ MssLevels[f] <= PathMss
  BY <1>0, <1>10 DEF f
<1>12. MssLevels[f] \in Nat /\ MssLevels[f] > 0
  BY <1>1, <1>11
<1>13. MssLevels[f] < n
  BY <1>0, <1>11, <1>12
<1> QED BY <1>0, <1>11, <1>12, <1>13 DEF f

\* transmit of the next segment, for which the window of the peer has room, or of
\* one that was sent before.
LEMMA TransmitFacts ==
    ASSUME NEW w \in Handler, NEW u \in Tcb,
           NEW N \in SUBSET Message, NEW B \in SUBSET Message, NEW wr \in Nat, NEW d,
           GoodHandler(w, u, N, B, wr, d), NEW i \in DOMAIN w.t.slist,
           w.t.slist[i].xmit = 0 => /\ w.t.slist[i].seq = w.t.snd_nxt
                                    /\ End(w.t.slist[i]) <= u.rcv_nxt + u.rcv_wnd,
           Fits(w.t, i)
    PROVE  LET v == Transmit(w, i)
           IN  /\ v \in Handler /\ GoodHandler(v, u, N, B, wr, d) /\ Sends(w, v)
               /\ v.t.rto_base = TRUE /\ v.t.snd_una < v.t.snd_nxt
               /\ v.t.snd_nxt >= w.t.snd_nxt
<1> DEFINE t == w.t
           s == Snd(t)
           g == t.slist[i]
           n0 == MinOf(g.len, t.mss)
           level == FittingLevel(t, n0)
           n == IF n0 <= PathMss THEN n0 ELSE MssLevels[level]
           cut == Split(t.slist, i, n, g.xmit)
           off == g.seq - t.snd_una
           p == Packet(w, g.seq, g.ctrl, off, n)
           m == PacketOf(t, g.seq, g.ctrl, off, n)
           c2 == [cut EXCEPT ![i].xmit = @ + 1]
           mss2 == IF n0 <= PathMss THEN t.mss ELSE n
           cwnd2 == IF n0 <= PathMss THEN t.cwnd ELSE Capped(2 * n)
           nxt2 == IF g.xmit = 0 THEN t.snd_nxt + n ELSE t.snd_nxt
           s1 == [s EXCEPT !.slist = cut]
           s2 == [s1 EXCEPT !.slist = [s1.slist EXCEPT ![i].xmit = @ + 1],
                            !.nxt = IF s1.slist[i].xmit = 0
                                    THEN s1.nxt + s1.slist[i].len ELSE s1.nxt]
           v == Transmit(w, i)
<1>t. t \in Tcb
  BY DEF Handler
<1>0. /\ s \in Sender /\ s.slist = t.slist /\ s.sbuf = t.sbuf /\ s.una = t.snd_una
      /\ s.nxt = t.snd_nxt /\ s.wnd = t.snd_wnd
  BY <1>t, Halves
<1>1. /\ g.seq \in Nat /\ g.len \in Nat /\ g.len > 0 /\ g.xmit \in Nat
      /\ g.ctrl \in BOOLEAN /\ End(g) = g.seq + g.len
  <2> HIDE DEF s
  <2> QED BY <1>0, SegmentTypes DEF End
<1>2. /\ t.snd_una \in Nat /\ t.snd_nxt \in Nat /\ Len(t.sbuf) \in Nat
      /\ t.mss \in Nat /\ t.mss > 0 /\ t.cwnd \in Nat /\ t.cwnd > 0
      /\ t.msslevel \in DOMAIN MssLevels /\ t.recover \in Nat
  BY <1>t, EndTypes
<1>3. /\ GoodSender(s) /\ Segments(s) /\ Local(t) /\ Life(t, wr)
      /\ GoodReceiver(Rcv(t)) /\ Got(Rcv(t), t.shutdown, d)
  BY DEF GoodHandler, GoodEnd, GoodSender
<1>4. /\ t.snd_una <= g.seq /\ End(g) <= t.snd_una + Len(t.sbuf)
      /\ g.ctrl <=> g.seq = 0
      /\ g.ctrl => g.len = 1
  <2> HIDE DEF s
  <2> QED BY <1>0, <1>3 DEF Segments
<1>f. \/ n0 <= PathMss
      \/ \E l \in DOMAIN MssLevels : l > t.msslevel /\ MssLevels[l] <= PathMss
  BY DEF Fits
<1> HIDE DEF g, s
<1>5. n0 \in Nat /\ n0 > 0 /\ n0 <= g.len /\ n0 <= t.mss
  BY <1>1, <1>2 DEF MinOf
<1> HIDE DEF n0
<1>c. PathMss \in Nat /\ MaxCwnd \in Nat /\ MaxCwnd > 0
  BY PseudoTcpAssumption
<1>6. ~(n0 <= PathMss) => /\ level \in DOMAIN MssLevels /\ MssLevels[level] \in Nat
                         /\ MssLevels[level] > 0 /\ MssLevels[level] < n0
  <2> SUFFICES ASSUME n0 > PathMss
               PROVE  /\ level \in DOMAIN MssLevels /\ MssLevels[level] \in Nat
                      /\ MssLevels[level] > 0 /\ MssLevels[level] < n0
    BY <1>5, <1>c
  <2> HIDE DEF t
  <2> QED BY <1>5, <1>c, <1>f, <1>t, FittingFacts
<1>7. level \in DOMAIN MssLevels
  <2>1. CASE n0 <= PathMss
    <3>1. level = t.msslevel
      BY <2>1 DEF FittingLevel
    <3> QED BY <1>2, <3>1
  <2> QED BY <1>6, <2>1
<1> HIDE DEF level
<1>8. n \in Nat /\ n > 0 /\ n <= g.len
  BY <1>1, <1>5, <1>6
<1>9. mss2 \in Positive /\ cwnd2 \in Positive
  <2>1. CASE n0 <= PathMss
    BY <1>2, <2>1 DEF Positive
  <2>2. CASE ~(n0 <= PathMss)
    <3>1. mss2 = n /\ cwnd2 = Capped(2 * n)
      BY <2>2
    <3> HIDE DEF n
    <3> QED BY <3>1, <1>8, <1>c DEF Positive, Capped, MinOf
  <2> QED BY <2>1, <2>2
<1>o. off \in Nat /\ off + n <= Len(t.sbuf)
  <2>1. g.seq + n <= t.snd_una + Len(t.sbuf)
    BY <1>1, <1>2, <1>4, <1>8, SMTT(40)
  <2> HIDE DEF n, t
  <2> QED BY <2>1, <1>1, <1>2, <1>4, <1>8, SMTT(40)
<1>v. v = [p EXCEPT !.t.msslevel = level, !.t.mss = IF n0 <= PathMss THEN @ ELSE n,
                    !.t.cwnd = IF n0 <= PathMss THEN @ ELSE Capped(2 * n),
                    !.t.slist = c2, !.t.snd_nxt = IF g.xmit = 0 THEN @ + n ELSE @,
                    !.t.rto_base = TRUE]
  BY DEF Transmit, n0, level, g, t
<1> HIDE DEF n, v
<1>p. IsPacket(w, p, m, g.seq, g.ctrl, off, n)
  <2> HIDE DEF off
  <2> QED BY <1>1, <1>8, <1>o, PacketIs DEF t
<1> HIDE DEF p, m
<1>11. /\ s1 \in Sender /\ GoodSender(s1) /\ Keeps(s, s1)
       /\ cut \in Seq(Segment) /\ i \in DOMAIN cut
       /\ cut[i].seq = g.seq /\ cut[i].len = MinOf(n, g.len)
       /\ cut[i].ctrl = g.ctrl /\ cut[i].xmit = g.xmit
  <2>1. i \in DOMAIN s.slist /\ g = s.slist[i]
    BY <1>0 DEF g
  <2>2. cut = Split(s.slist, i, n, s.slist[i].xmit)
    BY <1>0 DEF g
  <2> HIDE DEF cut
  <2> QED BY <1>0, <1>3, <1>8, <2>1, <2>2, SplitKeepsSender
<1>12. cut[i].len = n /\ End(cut[i]) = g.seq + n
  BY <1>1, <1>8, <1>11 DEF MinOf, End
<1> HIDE DEF cut
<1>13. /\ s1.slist = cut /\ s1.nxt = t.snd_nxt /\ s1.una = t.snd_una /\ s1.sbuf = t.sbuf
       /\ s1.wnd = t.snd_wnd
  BY <1>0, SMTT(40) DEF Sender
<1>14. /\ s2 \in Sender /\ GoodSender(s2) /\ Keeps(s1, s2)
       /\ Reached(s2, End(s1.slist[i])) /\ s2.una < s2.nxt /\ s1.nxt <= s2.nxt
  <2> HIDE DEF s1, t
  <2>1. i \in DOMAIN s1.slist /\ (s1.slist[i].xmit = 0 => s1.slist[i].seq = s1.nxt)
    BY <1>11, <1>13 DEF g, t
  <2> QED BY <1>11, <2>1, SentKeepsSender
<1>15. s2 = [s EXCEPT !.slist = c2, !.nxt = nxt2]
  <2>1. s2 = [s1 EXCEPT !.slist = c2, !.nxt = nxt2]
    <3>1. [s1.slist EXCEPT ![i].xmit = @ + 1] = c2
      <4> HIDE DEF s1
      <4> QED BY <1>13
    <3>2. (IF s1.slist[i].xmit = 0 THEN s1.nxt + s1.slist[i].len ELSE s1.nxt) = nxt2
      <4> HIDE DEF s1, t
      <4> QED BY <1>11, <1>12, <1>13
    <3> HIDE DEF s1, c2, nxt2
    <3> QED BY <3>1, <3>2
  <2> HIDE DEF c2, nxt2, s2
  <2> QED BY <1>0, <2>1 DEF Sender
<1>16. /\ s2.slist = c2 /\ s2.nxt = nxt2 /\ s2.una = t.snd_una /\ s2.sbuf = t.sbuf
       /\ s2.wnd = t.snd_wnd
  <2> HIDE DEF c2, nxt2, s2
  <2> QED BY <1>0, <1>15 DEF Sender
<1>17. c2 \in Seq(Segment) /\ nxt2 \in Nat
  <2> HIDE DEF c2, nxt2, s2
  <2> QED BY <1>14, <1>16, SegmentTypes
<1> HIDE DEF s1, s2, c2, nxt2
<1>18. v.t = [t EXCEPT !.t_ack = FALSE, !.msslevel = level, !.mss = mss2, !.cwnd = cwnd2,
                       !.slist = c2, !.snd_nxt = nxt2, !.rto_base = TRUE]
       /\ v.out = w.out \cup {m} /\ v.told = w.told /\ v = [p EXCEPT !.t = v.t]
  <2> DEFINE q == [t EXCEPT !.t_ack = FALSE]
             x == [q EXCEPT !.msslevel = level, !.mss = IF n0 <= PathMss THEN @ ELSE n,
                    !.cwnd = IF n0 <= PathMss THEN @ ELSE Capped(2 * n),
                    !.slist = c2, !.snd_nxt = IF g.xmit = 0 THEN @ + n ELSE @,
                    !.rto_base = TRUE]
  <2>1. p \in Handler /\ p.t = q /\ p.out = w.out \cup {m} /\ p.told = w.told
    BY <1>p DEF IsPacket
  <2>2. v = [p EXCEPT !.t = x]
    BY <1>v, <2>1 DEF Handler
  <2>3. x = [q EXCEPT !.msslevel = level, !.mss = mss2, !.cwnd = cwnd2,
                      !.slist = c2, !.snd_nxt = nxt2, !.rto_base = TRUE]
    <3>1. q.mss = t.mss /\ q.cwnd = t.cwnd /\ q.snd_nxt = t.snd_nxt
      BY <1>t DEF Tcb
    <3> HIDE DEF q, t
    <3> QED BY <3>1 DEF nxt2
  <2> HIDE DEF x, mss2, cwnd2, q
  <2>4. v.t = x /\ v.out = p.out /\ v.told = p.told
    BY <2>1, <2>2 DEF Handler
  <2>5. x = [t EXCEPT !.t_ack = FALSE, !.msslevel = level, !.mss = mss2, !.cwnd = cwnd2,
                       !.slist = c2, !.snd_nxt = nxt2, !.rto_base = TRUE]
    <3> HIDE DEF t
    <3> QED BY <2>3 DEF q
  <2> QED BY <2>1, <2>2, <2>4, <2>5
<1> HIDE DEF mss2, cwnd2
<1>19. v.t \in Tcb
  <2> HIDE DEF t
  <2> DEFINE q1 == [t EXCEPT !.t_ack = FALSE, !.rto_base = TRUE]
             q2 == [q1 EXCEPT !.msslevel = level, !.mss = mss2, !.cwnd = cwnd2]
             q3 == [q2 EXCEPT !.slist = c2, !.snd_nxt = nxt2]
  <2>1. q1 \in Tcb
    BY <1>t DEF Tcb
  <2>2. v.t = q3
    BY <1>t, <1>18 DEF Tcb
  <2> HIDE DEF q1
  <2>3. q2 \in Tcb
    BY <2>1, <1>7, <1>9 DEF Tcb
  <2> HIDE DEF q2
  <2>4. q3 \in Tcb
    BY <2>3, <1>17 DEF Tcb
  <2> QED BY <2>2, <2>4
<1>20. /\ v.t.state = t.state /\ v.t.shutdown = t.shutdown
       /\ v.t.read_enable = t.read_enable /\ v.t.write_enable = t.write_enable
       /\ v.t.sbuf = t.sbuf /\ v.t.snd_una = t.snd_una /\ v.t.snd_wnd = t.snd_wnd
       /\ v.t.dup_acks = t.dup_acks /\ v.t.recover = t.recover
       /\ v.t.ssthresh = t.ssthresh /\ v.t.rto_base = TRUE
       /\ v.t.mss = mss2 /\ v.t.msslevel = level
       /\ v.t.snd_nxt = nxt2 /\ v.t.slist = c2
  <2> HIDE DEF t
  <2> QED BY <1>t, <1>18 DEF Tcb
<1>21. Rcv(v.t) = Rcv(t)
  <2>1. /\ v.t.rlist = t.rlist /\ v.t.rbuf = t.rbuf /\ v.t.ahead = t.ahead
        /\ v.t.rcv_nxt = t.rcv_nxt /\ v.t.rcv_wnd = t.rcv_wnd
    <3> HIDE DEF t
    <3> QED BY <1>t, <1>18 DEF Tcb
  <2> HIDE DEF t
  <2> QED BY <2>1 DEF Rcv
<1>22. Snd(v.t) = s2
  <2>1. s2 = [slist |-> c2, sbuf |-> t.sbuf, una |-> t.snd_una, nxt |-> nxt2, wnd |-> t.snd_wnd]
    BY <1>14, <1>16 DEF Sender
  <2> HIDE DEF t
  <2> QED BY <2>1, <1>20 DEF Snd
<1>23. v \in Handler
  <2>1. p \in Handler /\ m \in Message /\ w.out \cup {m} \in SUBSET Message
    BY <1>p DEF IsPacket, Handler
  <2>2. v = [p EXCEPT !.t = v.t]
    BY <1>18
  <2> QED BY <1>19, <2>1, <2>2 DEF Handler
<1>24. Sends(w, v)
  BY <1>18, <1>20, <1>21 DEF Sends
<1>25. s.nxt <= s2.nxt /\ s2.una < s2.nxt
  <2> HIDE DEF t
  <2> QED BY <1>0, <1>13, <1>14
<1>26. GoodEnd(v.t, wr, d)
  <2>1. Local(v.t)
    <3>1. v.t.snd_nxt > v.t.snd_una
      BY <1>2, <1>16, <1>17, <1>20, <1>25
    <3>2. t.recover <= nxt2
      <4> HIDE DEF t
      <4>1. t.recover <= t.snd_nxt
        BY <1>3 DEF Local
      <4> QED BY <4>1, <1>0, <1>2, <1>16, <1>17, <1>25
    <3> HIDE DEF t
    <3> QED BY <3>1, <3>2, <1>3, <1>20 DEF Local
  <2>2. Life(v.t, wr)
    <3> HIDE DEF t
    <3> QED BY <1>3, <1>20 DEF Life
  <2> HIDE DEF t
  <2> QED BY <2>1, <2>2, <1>3, <1>14, <1>19, <1>20, <1>21, <1>22 DEF GoodEnd
<1>27. Forward(s, s2, Rcv(u))
  <2> DEFINE ru == Rcv(u)
  <2>0. ru.nxt = u.rcv_nxt /\ ru.wnd = u.rcv_wnd /\ ru.nxt \in Nat /\ ru.wnd \in Nat
    <3>1. ru.nxt = u.rcv_nxt /\ ru.wnd = u.rcv_wnd
      BY Halves
    <3>2. u.rcv_nxt \in Nat /\ u.rcv_wnd \in Nat
      BY EndTypes
    <3> HIDE DEF ru
    <3> QED BY <3>1, <3>2
  <2>1. Arrives(s, ru)
    BY DEF GoodHandler, Flow, s
  <2> HIDE DEF ru
  <2>2. Keeps(s, s2)
    BY <1>11, <1>14 DEF Keeps
  <2>3. s2.nxt <= ru.nxt + ru.wnd
    <3>1. CASE g.xmit = 0
      <4>1. nxt2 = g.seq + n
        BY <3>1 DEF nxt2, g, t
      <4>2. End(g) <= ru.nxt + ru.wnd
        BY <3>1, <2>0 DEF g, t
      <4> HIDE DEF t
      <4> QED BY <4>1, <4>2, <2>0, <1>1, <1>8, <1>16
    <3>2. CASE g.xmit # 0
      <4>1. nxt2 = s.nxt
        BY <3>2, <1>0 DEF nxt2
      <4> HIDE DEF t
      <4> QED BY <4>1, <2>1, <1>16 DEF Arrives
    <3> QED BY <3>1, <3>2
  <2>4. s2.una = s.una /\ s2.wnd = s.wnd
    <3> HIDE DEF t
    <3> QED BY <1>0, <1>16
  <2> QED BY <1>25, <2>1, <2>2, <2>3, <2>4 DEF Forward, Arrives, ru
<1>28. GoodPacket(s2, m) /\ GoodAck(Snd(u), Rcv(t), m)
  <2> HIDE DEF t
  <2>1. /\ m \in Message /\ m.seq = g.seq /\ m.ctrl = g.ctrl /\ m.ack = t.rcv_nxt
        /\ m.wnd = t.rcv_wnd /\ Len(m.data) = n /\ DOMAIN m.data = 1 .. n
        /\ \A j \in 1 .. n : m.data[j] = t.sbuf[off + j]
    BY <1>p DEF IsPacket, t
  <2>2. GoodData(m)
    <3>1. ASSUME NEW j \in 1 .. n PROVE m.data[j] = g.seq + j - 1
      <4>0. off \in Nat /\ j \in Nat /\ off + j \in 1 .. Len(t.sbuf)
        <5> HIDE DEF off
        <5> QED BY <1>o, <1>2, <1>8
      <4>1. t.sbuf[off + j] = t.snd_una + (off + j) - 1
        <5>1. s.sbuf \in Seq(Nat)
          BY <1>0, SegmentTypes
        <5>2. off + j \in DOMAIN s.sbuf
          BY <4>0, <5>1, <1>0
        <5> HIDE DEF off
        <5> QED BY <5>2, <1>0, <1>3 DEF GoodSender
      <4>2. t.snd_una + (off + j) - 1 = g.seq + j - 1
        BY <1>1, <1>2, SMTT(40)
      <4> QED BY <2>1, <4>1, <4>2
    <3>2. g.ctrl => n = 1
      BY <1>1, <1>4, <1>8
    <3>3. ~g.ctrl => g.seq > 0
      BY <1>1, <1>4
    <3> QED BY <2>1, <3>1, <3>2, <3>3, <1>4 DEF GoodData
  <2>3. Reached(s2, g.seq + n)
    BY <1>12, <1>13, <1>14
  <2>4. g.seq + n <= s2.nxt
    <3>1. g.seq + n \in Int
      BY <1>1, <1>8
    <3> QED BY <2>3, <3>1, <1>14, ReachedWasSent
  <2>5. Arrives(Snd(u), Rcv(t))
    BY DEF GoodHandler, Flow, t
  <2>6. Rcv(t).nxt = t.rcv_nxt /\ Rcv(t).wnd = t.rcv_wnd /\ t.rcv_nxt \in Nat /\ t.rcv_wnd \in Nat
    BY <1>t, Halves, EndTypes
  <2>7. GoodAck(Snd(u), Rcv(t), m)
    BY <2>1, <2>5, <2>6 DEF GoodAck, Arrives
  <2> QED BY <2>1, <2>2, <2>3, <2>4, <2>7 DEF GoodPacket
<1>29. Onward(Rcv(w.t), Rcv(v.t), Snd(u))
  BY <1>21, StandingStill
<1>30. GoodHandler(v, u, N, B, wr, d)
  <2>1. Forward(Snd(w.t), Snd(v.t), Rcv(u))
    BY <1>22, <1>27 DEF s
  <2>2. \A x \in v.out : x \in w.out \/ (GoodPacket(Snd(v.t), x) /\ GoodAck(Snd(u), Rcv(v.t), x))
    BY <1>18, <1>21, <1>22, <1>28
  <2> QED BY <1>23, <1>26, <1>29, <2>1, <2>2, HandlerGoesOn
<1>31. v.t.snd_una < v.t.snd_nxt /\ v.t.snd_nxt >= t.snd_nxt
  <2> HIDE DEF t
  <2> QED BY <1>0, <1>2, <1>16, <1>17, <1>20, <1>25
<1> QED BY <1>20, <1>23, <1>24, <1>30, <1>31 DEF v

-----------------------------------------------------------------------------
\* What attemptSend may send is in the buffer and in the window of the peer; when
\* nothing is in flight, data and a window are enough to send.
LEMMA AvailableFacts ==
    ASSUME NEW t \in Tcb, GoodSender(Snd(t))
    PROVE  /\ Available(t) \in Nat
           /\ Available(t) > 0 => /\ t.snd_nxt + Available(t) <= t.snd_una + t.snd_wnd
                                  /\ t.snd_nxt + Available(t) <= t.snd_una + Len(t.sbuf)
           /\ t.snd_nxt = t.snd_una /\ Len(t.sbuf) > 0 /\ t.snd_wnd > 0 => Available(t) > 0
<1> DEFINE cwnd == IF t.dup_acks \in {1, 2} THEN t.cwnd + t.dup_acks * t.mss ELSE t.cwnd
           window == MinOf(t.snd_wnd, cwnd)
           F == InFlight(t)
           useable == MaxOf(window - F, 0)
           wanted == MinOf(Len(t.sbuf) - F, t.mss)
           L == Len(t.sbuf)
<1>1. /\ t.snd_una \in Nat /\ t.snd_nxt \in Nat /\ t.snd_wnd \in Nat /\ L \in Nat
      /\ t.mss \in Nat /\ t.mss > 0 /\ t.cwnd \in Nat /\ t.cwnd > 0
  BY EndTypes
<1>2. t.snd_una <= t.snd_nxt /\ t.snd_nxt <= t.snd_una + L
  BY Halves DEF GoodSender
<1>3. cwnd \in Nat /\ cwnd > 0
  <2>1. CASE t.dup_acks = 1
    <3>1. cwnd = t.cwnd + 1 * t.mss
      BY <2>1
    <3> QED BY <3>1, <1>1
  <2>2. CASE t.dup_acks = 2
    <3>1. cwnd = t.cwnd + 2 * t.mss
      BY <2>2
    <3> QED BY <3>1, <1>1
  <2>3. CASE t.dup_acks \notin {1, 2}
    <3>1. cwnd = t.cwnd
      BY <2>3
    <3> QED BY <3>1, <1>1
  <2> QED BY <2>1, <2>2, <2>3
<1> HIDE DEF cwnd
<1>4. F \in Nat /\ F = t.snd_nxt - t.snd_una /\ F <= L
  BY <1>1, <1>2 DEF InFlight
<1>5. Available(t) = IF wanted <= useable THEN wanted
                     ELSE IF useable * 4 < window THEN 0 ELSE useable
  BY DEF Available, cwnd
<1> HIDE DEF F
<1>6. window \in Nat /\ window <= t.snd_wnd /\ (t.snd_wnd > 0 => window > 0)
  BY <1>1, <1>3 DEF MinOf
<1> HIDE DEF window
<1>7. /\ useable \in Nat /\ (useable > 0 => useable = window - F)
      /\ (F = 0 => useable = window)
  BY <1>4, <1>6 DEF MaxOf
<1>8. wanted \in Nat /\ wanted <= L - F /\ (L - F > 0 => wanted > 0)
  <2> HIDE DEF L
  <2> QED BY <1>1, <1>4, SMTT(40) DEF MinOf, L
<1> HIDE DEF useable, wanted, L
<1> DEFINE a == Available(t)
<1> HIDE DEF a
<1>9. a \in Nat /\ a <= useable /\ a <= wanted
  BY <1>5, <1>7, <1>8 DEF a
<1>10. F = 0 /\ L > 0 /\ t.snd_wnd > 0 => a > 0
  BY <1>1, <1>5, <1>6, <1>7, <1>8 DEF a
<1>11. a > 0 => t.snd_nxt + a <= t.snd_una + t.snd_wnd /\ t.snd_nxt + a <= t.snd_una + L
  BY <1>1, <1>4, <1>6, <1>7, <1>8, <1>9
<1>12. t.snd_nxt = t.snd_una => F = 0
  BY <1>1, <1>4
<1> QED BY <1>9, <1>10, <1>11, <1>12 DEF a, L

\* An end with something to send that attemptSend does not send waits for a timer.
LEMMA HeldIsRunning ==
    ASSUME NEW t \in Tcb, GoodSender(Snd(t)), Local(t), ~MaySend(t)
    PROVE  Running(t)
<1>1. /\ t.snd_una \in Nat /\ t.snd_nxt \in Nat /\ t.snd_wnd \in Nat /\ Len(t.sbuf) \in Nat
      /\ t.snd_una <= t.snd_nxt /\ (t.sbuf # <<>> => Len(t.sbuf) > 0)
  <2>1. t.sbuf \in Seq(Nat)
    BY DEF Tcb
  <2>2. t.sbuf # <<>> => Len(t.sbuf) > 0
    BY <2>1
  <2> QED BY <2>2, EndTypes, Halves DEF GoodSender
<1>2. CASE t.snd_nxt > t.snd_una
  BY <1>2 DEF Running, Local
<1>3. CASE t.snd_nxt = t.snd_una
  <2>1. ~HeldByNagle(t)
    BY <1>1, <1>3 DEF HeldByNagle, InFlight
  <2>2. ~(Available(t) > 0)
    BY <2>1 DEF MaySend
  <2>3. ~(Len(t.sbuf) > 0 /\ t.snd_wnd > 0)
    BY <2>2, <1>3, AvailableFacts
  <2> QED BY <2>3, <1>1 DEF Running
<1> QED BY <1>1, <1>2, <1>3

\* A sending step after a sending step.
LEMMA SendsOn ==
    ASSUME NEW w, NEW v, NEW x, Sends(w, v), Sends(v, x)
    PROVE  Sends(w, x)
BY DEF Sends

\* A sender whose segment i was cut.
CutAt(w, i, n) ==
    [w EXCEPT !.t.slist = Split(w.t.slist, i, n, w.t.slist[i].xmit)]
HasCut(w, v, i, n) ==
    /\ i \in DOMAIN v.t.slist /\ v.t.slist[i].xmit = w.t.slist[i].xmit
    /\ v.t.slist[i].seq = w.t.slist[i].seq
    /\ v.t.slist[i].len = MinOf(n, w.t.slist[i].len)
    /\ v.t.snd_nxt = w.t.snd_nxt

\* Cutting a segment leaves a handler good.
LEMMA CutFacts ==
    ASSUME NEW w \in Handler, NEW u \in Tcb,
           NEW N \in SUBSET Message, NEW B \in SUBSET Message, NEW wr \in Nat, NEW d,
           GoodHandler(w, u, N, B, wr, d), NEW i \in DOMAIN w.t.slist,
           NEW n \in Nat, n > 0
    PROVE  LET v == CutAt(w, i, n)
           IN  /\ v \in Handler /\ GoodHandler(v, u, N, B, wr, d) /\ Sends(w, v)
               /\ HasCut(w, v, i, n)
<1> DEFINE t == w.t
           s == Snd(t)
           c == Split(t.slist, i, n, t.slist[i].xmit)
           t2 == [t EXCEPT !.slist = c]
           v == [w EXCEPT !.t.slist = c]
           s1 == [s EXCEPT !.slist = c]
<1>t. t \in Tcb
  BY DEF Handler
<1>0. /\ s \in Sender /\ s.slist = t.slist /\ s.sbuf = t.sbuf /\ s.una = t.snd_una
      /\ s.nxt = t.snd_nxt /\ s.wnd = t.snd_wnd
  BY <1>t, Halves
<1>3. /\ GoodSender(s) /\ Local(t) /\ Life(t, wr)
      /\ GoodReceiver(Rcv(t)) /\ Got(Rcv(t), t.shutdown, d)
  BY DEF GoodHandler, GoodEnd
<1> HIDE DEF s
<1>1. /\ s1 \in Sender /\ GoodSender(s1) /\ Keeps(s, s1)
      /\ c \in Seq(Segment) /\ i \in DOMAIN c
      /\ c[i].seq = t.slist[i].seq /\ c[i].len = MinOf(n, t.slist[i].len)
      /\ c[i].xmit = t.slist[i].xmit
  <2>1. c = Split(s.slist, i, n, s.slist[i].xmit) /\ i \in DOMAIN s.slist
    BY <1>0
  <2> HIDE DEF c
  <2> QED BY <1>0, <1>3, <2>1, SplitKeepsSender
<1> HIDE DEF c
<1>2. t2 \in Tcb
  <2> HIDE DEF t
  <2> QED BY <1>t, <1>1 DEF Tcb
<1>4. v = [w EXCEPT !.t = t2]
  BY DEF Handler
<1>5. /\ t2.state = t.state /\ t2.shutdown = t.shutdown
      /\ t2.read_enable = t.read_enable /\ t2.write_enable = t.write_enable
      /\ t2.sbuf = t.sbuf /\ t2.snd_una = t.snd_una /\ t2.snd_wnd = t.snd_wnd
      /\ t2.dup_acks = t.dup_acks /\ t2.recover = t.recover
      /\ t2.ssthresh = t.ssthresh /\ t2.rto_base = t.rto_base
      /\ t2.mss = t.mss /\ t2.msslevel = t.msslevel
      /\ t2.snd_nxt = t.snd_nxt /\ t2.slist = c
      /\ t2.rlist = t.rlist /\ t2.rbuf = t.rbuf /\ t2.ahead = t.ahead
      /\ t2.rcv_nxt = t.rcv_nxt /\ t2.rcv_wnd = t.rcv_wnd
  <2> HIDE DEF t
  <2> QED BY <1>t DEF Tcb
<1> HIDE DEF t2
<1>6. v \in Handler /\ v.t = t2 /\ v.out = w.out /\ v.told = w.told
  BY <1>2, <1>4 DEF Handler
<1> HIDE DEF v
<1>7. Rcv(t2) = Rcv(t)
  <2> HIDE DEF t
  <2> QED BY <1>5 DEF Rcv
<1>9. /\ s1.nxt = s.nxt /\ s1.una = s.una /\ s1.wnd = s.wnd /\ s1.sbuf = s.sbuf
      /\ s1.slist = c
  <2> HIDE DEF t
  <2> QED BY <1>0 DEF Sender
<1> HIDE DEF s1
<1>8. Snd(t2) = s1
  <2> HIDE DEF t
  <2>1. s1 = [slist |-> c, sbuf |-> t.sbuf, una |-> t.snd_una, nxt |-> t.snd_nxt,
              wnd |-> t.snd_wnd]
    BY <1>0, <1>1, <1>9 DEF Sender
  <2> QED BY <1>5, <2>1 DEF Snd
<1>10. GoodEnd(t2, wr, d)
  <2>1. Local(t2)
    <3> HIDE DEF t
    <3> QED BY <1>3, <1>5 DEF Local
  <2>2. Life(t2, wr)
    <3> HIDE DEF t
    <3> QED BY <1>3, <1>5 DEF Life
  <2> HIDE DEF t
  <2> QED BY <2>1, <2>2, <1>1, <1>2, <1>3, <1>5, <1>7, <1>8 DEF GoodEnd
<1>11. Forward(s, s1, Rcv(u)) /\ Onward(Rcv(w.t), Rcv(v.t), Snd(u))
  <2>1. Forward(s, s, Rcv(u)) /\ Onward(Rcv(w.t), Rcv(w.t), Snd(u))
    BY StandingStill DEF s
  <2>2. Forward(s, s1, Rcv(u))
    BY <1>1, <1>9, <2>1 DEF Forward
  <2> QED BY <2>1, <2>2, <1>6, <1>7
<1>12. GoodHandler(v, u, N, B, wr, d)
  <2>1. Forward(Snd(w.t), Snd(v.t), Rcv(u))
    BY <1>6, <1>8, <1>11 DEF s
  <2>2. GoodEnd(v.t, wr, d)
    BY <1>6, <1>10
  <2>3. \A x \in v.out : x \in w.out \/ (GoodPacket(Snd(v.t), x) /\ GoodAck(Snd(u), Rcv(v.t), x))
    BY <1>6
  <2> QED BY <1>6, <1>11, <2>1, <2>2, <2>3, HandlerGoesOn
<1>13. Sends(w, v)
  <2>1. v.told = w.told /\ v.t = t2
    BY <1>6
  <2> QED BY <2>1, <1>5, <1>7 DEF Sends
<1>14. v = CutAt(w, i, n)
  BY DEF v, c, CutAt
<1>15. HasCut(w, v, i, n)
  BY <1>1, <1>5, <1>6 DEF HasCut
<1> QED BY <1>6, <1>12, <1>13, <1>14, <1>15

\* A handler in progress, with its surroundings.
Works(w, u, N, B, wr, d) ==
    /\ w \in Handler /\ u \in Tcb /\ N \in SUBSET Message /\ B \in SUBSET Message
    /\ wr \in Nat /\ GoodHandler(w, u, N, B, wr, d)

\* A handler that works has a good end.
LEMMA WorksFacts ==
    ASSUME NEW w, NEW u, NEW N, NEW B, NEW wr, NEW d, Works(w, u, N, B, wr, d)
    PROVE  /\ w \in Handler /\ w.t \in Tcb /\ GoodEnd(w.t, wr, d)
           /\ GoodSender(Snd(w.t)) /\ GoodReceiver(Rcv(w.t)) /\ Local(w.t) /\ Life(w.t, wr)
           /\ Got(Rcv(w.t), w.t.shutdown, d)
BY DEF Works, Handler, GoodHandler, GoodEnd

\* The congestion window and the timer of delayed acknowledgements of an end.
LEMMA TunedWorks ==
    ASSUME NEW w, NEW u, NEW N, NEW B, NEW wr, NEW d, Works(w, u, N, B, wr, d),
           NEW v \in Handler, v.out = w.out, Tuned(w.t, v.t)
    PROVE  Works(v, u, N, B, wr, d)
BY HandlerTuned DEF Works

\* A handler with other sizes of packets and congestion window.
Resized(w, lv, ms, cw, fl) ==
    [w EXCEPT !.t.msslevel = lv, !.t.mss = ms, !.t.cwnd = cw, !.t.failed = fl]

\* It goes on as before.
LEMMA ResizedWorks ==
    ASSUME NEW w, NEW u, NEW N, NEW B, NEW wr, NEW d, Works(w, u, N, B, wr, d),
           NEW lv \in DOMAIN MssLevels, NEW ms \in Positive, NEW cw \in Positive,
           NEW fl \in BOOLEAN
    PROVE  LET v == Resized(w, lv, ms, cw, fl)
           IN  Works(v, u, N, B, wr, d) /\ Sends(w, v) /\ v.t.failed = fl
<1> DEFINE t2 == [w.t EXCEPT !.msslevel = lv, !.mss = ms, !.cwnd = cw, !.failed = fl]
           v == Resized(w, lv, ms, cw, fl)
<1>0. w \in Handler /\ w.t \in Tcb /\ GoodEnd(w.t, wr, d)
  BY WorksFacts
<1>1. t2 \in Tcb
  BY <1>0 DEF Tcb
<1>2. v = [w EXCEPT !.t = t2]
  BY <1>0 DEF Resized, Handler
<1>3. /\ t2.state = w.t.state /\ t2.shutdown = w.t.shutdown
      /\ t2.read_enable = w.t.read_enable /\ t2.write_enable = w.t.write_enable
      /\ t2.sbuf = w.t.sbuf /\ t2.snd_una = w.t.snd_una /\ t2.snd_wnd = w.t.snd_wnd
      /\ t2.dup_acks = w.t.dup_acks /\ t2.recover = w.t.recover
      /\ t2.ssthresh = w.t.ssthresh /\ t2.rto_base = w.t.rto_base /\ t2.failed = fl
  BY <1>0 DEF Tcb
<1>4. Rcv(t2) = Rcv(w.t) /\ Snd(t2) = Snd(w.t)
  BY <1>0 DEF Rcv, Snd, Tcb
<1> HIDE DEF t2
<1>5. v \in Handler /\ v.t = t2 /\ v.out = w.out /\ v.told = w.told
  BY <1>0, <1>1, <1>2 DEF Handler
<1> HIDE DEF v
<1>6. Tuned(w.t, v.t)
  BY <1>0, <1>1, <1>3, <1>4, <1>5, ReTuned
<1>7. Works(v, u, N, B, wr, d)
  BY <1>5, <1>6, TunedWorks
<1>8. Sends(w, v) /\ v.t.failed = fl
  BY <1>3, <1>4, <1>5 DEF Sends
<1> QED BY <1>7, <1>8 DEF v

\* The sizes that occur.
LEMMA MssFacts ==
    /\ Last(MssLevels) \in Positive /\ Len(MssLevels) \in DOMAIN MssLevels
    /\ \A l \in DOMAIN MssLevels : MssLevels[l] \in Positive
    /\ MaxCwnd \in Positive
BY PseudoTcpAssumption DEF Last, Positive

\* A transmit of attemptSend that fails changes the sizes at most.
LEMMA TransmitFailsWorks ==
    ASSUME NEW w, NEW u, NEW N, NEW B, NEW wr, NEW d, Works(w, u, N, B, wr, d),
           NEW i, NEW level \in DOMAIN MssLevels
    PROVE  LET v == [TransmitFails(w, i, level) EXCEPT !.t.failed = TRUE]
           IN  Works(v, u, N, B, wr, d) /\ Sends(w, v) /\ v.t.failed = TRUE
<1> DEFINE t == w.t
           ms == MssLevels[level]
           cw == Capped(2 * ms)
           fl == TRUE
           x == [w EXCEPT !.t.msslevel = level, !.t.mss = ms, !.t.cwnd = cw]
<1>0. w \in Handler /\ t \in Tcb
  BY WorksFacts
<1>1. ms \in Positive /\ MaxCwnd \in Positive
  BY MssFacts
<1>2. cw \in Positive
  <2> HIDE DEF ms
  <2> QED BY <1>1 DEF Capped, MinOf, Positive
<1>3. t.msslevel \in DOMAIN MssLevels /\ t.mss \in Positive /\ t.cwnd \in Positive
  BY <1>0 DEF Tcb
<1>4. TransmitFails(w, i, level) = x \/ TransmitFails(w, i, level) = w
  BY DEF TransmitFails
<1>5. [x EXCEPT !.t.failed = fl] = Resized(w, level, ms, cw, fl)
  BY <1>0 DEF Resized, Handler, Tcb
<1>6. [w EXCEPT !.t.failed = fl] = Resized(w, t.msslevel, t.mss, t.cwnd, fl)
  BY <1>0 DEF Resized, Handler, Tcb
<1>7. fl \in BOOLEAN /\ fl = TRUE
  OBVIOUS
<1> HIDE DEF ms, cw, fl, x
<1>8. LET v == Resized(w, level, ms, cw, fl)
      IN  Works(v, u, N, B, wr, d) /\ Sends(w, v) /\ v.t.failed = fl
  BY <1>1, <1>2, <1>7, ResizedWorks
<1>9. LET v == Resized(w, t.msslevel, t.mss, t.cwnd, fl)
      IN  Works(v, u, N, B, wr, d) /\ Sends(w, v) /\ v.t.failed = fl
  <2> HIDE DEF t
  <2> QED BY <1>3, <1>7, ResizedWorks
<1> QED BY <1>4, <1>5, <1>6, <1>7, <1>8, <1>9

\* A round of attemptSend that sends a segment, or fails to.
LEMMA SendSegmentFacts ==
    ASSUME NEW w \in Handler, NEW u \in Tcb,
           NEW N \in SUBSET Message, NEW B \in SUBSET Message, NEW wr \in Nat, NEW d,
           GoodHandler(w, u, N, B, wr, d), MaySend(w.t),
           NEW k, NEW io \in Conditions
    PROVE  LET v == SendSegment(w, k, io)
           IN  /\ v \in Handler /\ GoodHandler(v, u, N, B, wr, d) /\ Sends(w, v)
               /\ v.t.rto_base = TRUE \/ v.t.failed = TRUE
<1> DEFINE t == w.t
           a == Available(t)
           i == FirstUnsent(t)
           x == t.slist[i].xmit
           cut == CutAt(w, i, a)
<1>0. /\ t \in Tcb /\ GoodSender(Snd(t)) /\ t.snd_una \in Nat /\ t.snd_nxt \in Nat
      /\ t.snd_wnd \in Nat /\ Len(t.sbuf) \in Nat /\ u.rcv_nxt \in Nat /\ u.rcv_wnd \in Nat
  <2>1. t \in Tcb
    BY DEF Handler
  <2> QED BY <2>1, EndTypes DEF GoodHandler, GoodEnd
<1>1. /\ a \in Nat /\ a > 0 /\ t.snd_nxt + a <= t.snd_una + t.snd_wnd
      /\ t.snd_nxt + a <= t.snd_una + Len(t.sbuf)
  <2> HIDE DEF t
  <2>1. a > 0
    BY DEF MaySend, t
  <2> QED BY <1>0, <2>1, AvailableFacts
<1> HIDE DEF a
<1>2. i \in DOMAIN t.slist /\ x = 0 /\ t.slist[i].seq = t.snd_nxt
  <2> HIDE DEF t
  <2> QED BY <1>0, <1>1, FirstUnsentFacts
<1>3. NextSegment(w) = cut
  <2>1. NextSegment(w) = [w EXCEPT !.t.slist = Split(@, i, a, 0)]
    BY DEF NextSegment, a
  <2>2. [w EXCEPT !.t.slist = Split(@, i, a, 0)] = [w EXCEPT !.t.slist = Split(t.slist, i, a, x)]
    <3>1. [w EXCEPT !.t.slist = Split(@, i, a, 0)] = [w EXCEPT !.t.slist = Split(t.slist, i, a, 0)]
      OBVIOUS
    <3> HIDE DEF i, t, x
    <3> QED BY <3>1, <1>2
  <2> HIDE DEF i
  <2> QED BY <2>1, <2>2 DEF CutAt
<1> DEFINE level == IF k > io.writes THEN io.level ELSE Len(MssLevels)
           y == [TransmitFails(cut, i, level) EXCEPT !.t.failed = TRUE]
<1>s. SendSegment(w, k, io) =
         IF k <= io.writes /\ Fits(cut.t, i) THEN Transmit(cut, i) ELSE y
  <2> HIDE DEF cut
  <2> QED BY <1>3 DEF SendSegment
<1>l. level \in DOMAIN MssLevels
  BY MssFacts DEF Conditions
<1> HIDE DEF level
<1> HIDE DEF i
<1>4. /\ cut \in Handler /\ GoodHandler(cut, u, N, B, wr, d) /\ Sends(w, cut)
      /\ i \in DOMAIN cut.t.slist /\ cut.t.slist[i].xmit = 0
      /\ cut.t.slist[i].seq = t.snd_nxt
      /\ cut.t.slist[i].len = MinOf(a, t.slist[i].len)
      /\ cut.t.snd_nxt = t.snd_nxt
  <2>1. /\ cut \in Handler /\ GoodHandler(cut, u, N, B, wr, d) /\ Sends(w, cut)
        /\ HasCut(w, cut, i, a)
    BY <1>1, <1>2, CutFacts
  <2> HIDE DEF cut
  <2> QED BY <1>2, <2>1 DEF HasCut
<1>5. End(cut.t.slist[i]) <= u.rcv_nxt + u.rcv_wnd
  <2>1. Arrives(Snd(t), Rcv(u))
    BY DEF GoodHandler, Flow
  <2>2. Snd(t).una = t.snd_una /\ Snd(t).wnd = t.snd_wnd
        /\ Rcv(u).nxt = u.rcv_nxt /\ Rcv(u).wnd = u.rcv_wnd
    BY DEF Snd, Rcv
  <2>3. t.snd_una + t.snd_wnd <= u.rcv_nxt + u.rcv_wnd
    BY <2>1, <2>2 DEF Arrives
  <2>4. t.slist[i].len \in Nat
    <3>1. Snd(t) \in Sender /\ Snd(t).slist = t.slist
      BY <1>0, Halves
    <3> QED BY <1>2, <3>1, SegmentTypes
  <2>5. MinOf(a, t.slist[i].len) <= a /\ MinOf(a, t.slist[i].len) \in Nat
    <3> HIDE DEF t
    <3> QED BY <1>1, <2>4 DEF MinOf
  <2>6. End(cut.t.slist[i]) = t.snd_nxt + MinOf(a, t.slist[i].len)
    <3> HIDE DEF cut
    <3> QED BY <1>4 DEF End
  <2> HIDE DEF t, cut
  <2> QED BY <1>0, <1>1, <2>3, <2>5, <2>6, SMTT(40)
<1> HIDE DEF cut
<1>6. ASSUME Fits(cut.t, i)
      PROVE  LET v == Transmit(cut, i)
             IN  /\ v \in Handler /\ GoodHandler(v, u, N, B, wr, d) /\ Sends(cut, v)
                 /\ v.t.rto_base = TRUE
  BY <1>4, <1>5, <1>6, TransmitFacts
<1>7. /\ y \in Handler /\ GoodHandler(y, u, N, B, wr, d) /\ Sends(cut, y)
      /\ y.t.failed = TRUE
  BY <1>4, <1>l, TransmitFailsWorks DEF Works
<1> HIDE DEF y
<1>8. CASE k <= io.writes /\ Fits(cut.t, i)
  <2>1. SendSegment(w, k, io) = Transmit(cut, i)
    BY <1>s, <1>8
  <2> QED BY <1>4, <1>6, <1>8, <2>1, SendsOn
<1>9. CASE ~(k <= io.writes /\ Fits(cut.t, i))
  <2>1. SendSegment(w, k, io) = y
    BY <1>s, <1>9
  <2> QED BY <1>4, <1>7, <2>1, SendsOn
<1> QED BY <1>8, <1>9

SetAckTimer(w) == [w EXCEPT !.t.t_ack = TRUE]

\* A round of attemptSend that sends nothing.
LEMMA SendNothingFacts ==
    ASSUME NEW w, NEW u, NEW N, NEW B, NEW wr, NEW d, Works(w, u, N, B, wr, d),
           ~MaySend(w.t), NEW sflags
    PROVE  LET v == SendNothing(w, sflags)
           IN  Works(v, u, N, B, wr, d) /\ Sends(w, v) /\ Running(v.t)
<1>0. w \in Handler /\ w.t \in Tcb /\ GoodEnd(w.t, wr, d)
  BY WorksFacts
<1>1. Running(w.t)
  BY <1>0, HeldIsRunning, WorksFacts
<1>2. Sends(w, w)
  BY DEF Sends
<1>3. Works(Ack(w), u, N, B, wr, d) /\ Sends(w, Ack(w)) /\ Running(Ack(w).t)
  <2> DEFINE v == Packet(w, w.t.snd_nxt, FALSE, 0, 0)
  <2>1. w.t.snd_nxt \in Int /\ w.t.snd_nxt <= w.t.snd_nxt
    BY <1>0, EndTypes
  <2>2. /\ v \in Handler /\ GoodHandler(v, u, N, B, wr, d)
        /\ v.t = [w.t EXCEPT !.t_ack = FALSE] /\ v.told = w.told
        /\ Sends(w, v)
    BY <2>1, EmptyPacket DEF Works
  <2>3. v = Ack(w)
    BY DEF Ack
  <2> HIDE DEF v
  <2>4. v.t.rto_base = w.t.rto_base /\ v.t.failed = w.t.failed
    BY <1>0, <2>2 DEF Tcb
  <2>5. Running(v.t)
    BY <1>1, <2>2, <2>4 DEF Running, Sends
  <2> QED BY <2>2, <2>3, <2>5 DEF Works
<1> DEFINE x == SetAckTimer(w)
<1>4. Works(x, u, N, B, wr, d) /\ Sends(w, x) /\ Running(x.t)
  <2> DEFINE t2 == [w.t EXCEPT !.t_ack = TRUE]
  <2>1. t2 \in Tcb
    BY <1>0 DEF Tcb
  <2>2. x = [w EXCEPT !.t = t2]
    BY DEF SetAckTimer
  <2>3. /\ t2.state = w.t.state /\ t2.shutdown = w.t.shutdown
        /\ t2.read_enable = w.t.read_enable /\ t2.write_enable = w.t.write_enable
        /\ t2.sbuf = w.t.sbuf /\ t2.snd_una = w.t.snd_una /\ t2.snd_wnd = w.t.snd_wnd
        /\ t2.dup_acks = w.t.dup_acks /\ t2.recover = w.t.recover
        /\ t2.ssthresh = w.t.ssthresh /\ t2.rto_base = w.t.rto_base
        /\ t2.failed = w.t.failed
    BY <1>0 DEF Tcb
  <2>4. Rcv(t2) = Rcv(w.t) /\ Snd(t2) = Snd(w.t)
    BY <1>0 DEF Rcv, Snd, Tcb
  <2> HIDE DEF t2
  <2>5. x \in Handler /\ x.t = t2 /\ x.out = w.out /\ x.told = w.told
    BY <1>0, <2>1, <2>2 DEF Handler
  <2> HIDE DEF x
  <2>6. Tuned(w.t, x.t)
    BY <1>0, <2>1, <2>3, <2>4, <2>5, ReTuned
  <2>7. Works(x, u, N, B, wr, d)
    BY <2>5, <2>6, TunedWorks
  <2>8. Sends(w, x) /\ Running(x.t)
    BY <1>1, <2>3, <2>4, <2>5 DEF Sends, Running
  <2> QED BY <2>7, <2>8
<1>5. SendNothing(w, sflags) \in {w, Ack(w), x}
  <2> HIDE DEF x
  <2> QED BY DEF SendNothing, SetAckTimer, x
<1> HIDE DEF x
<1> QED BY <1>1, <1>2, <1>3, <1>4, <1>5

\* The rounds of attemptSend.
IsRound(f, first, io) ==
    f = [k \in 0 .. SndBuf |->
            IF k = 0 THEN first
            ELSE IF MaySend(f[k - 1].t) /\ ~f[k - 1].t.failed
            THEN SendSegment(f[k - 1], k, io)
            ELSE f[k - 1]]
Rounds(first, io) == (CHOOSE f : IsRound(f, first, io))[SndBuf]

\* Either the timer runs, or the last write failed.
Waits(t) == t.rto_base = TRUE \/ t.failed = TRUE

\* After the rounds of attemptSend the connection is good and does not stall.
LEMMA RoundsFacts ==
    ASSUME NEW w, NEW u, NEW N, NEW B, NEW wr, NEW d, Works(w, u, N, B, wr, d),
           MaySend(w.t), w.t.failed = FALSE, NEW io \in Conditions
    PROVE  LET v == Rounds(w, io)
           IN  Works(v, u, N, B, wr, d) /\ Sends(w, v) /\ Running(v.t)
<1> DEFINE S == {v \in Handler : Works(v, u, N, B, wr, d) /\ Sends(w, v)}
           next(k, v) == IF MaySend(v.t) /\ ~v.t.failed THEN SendSegment(v, k, io) ELSE v
           q(k) == [v \in S |-> next(k + 1, v)]
           h == [k \in Nat |-> q(k)]
           K == SndBuf
<1>0. K \in Nat /\ 1 <= K
  BY PseudoTcpAssumption
<1>1. w \in S
  BY DEF Works, Sends
<1>2. ASSUME NEW v \in S, NEW k
      PROVE  next(k, v) \in S /\ (MaySend(v.t) /\ ~v.t.failed => Waits(next(k, v).t))
  <2>1. CASE MaySend(v.t) /\ ~v.t.failed
    <3>1. LET x == SendSegment(v, k, io)
          IN  /\ x \in Handler /\ GoodHandler(x, u, N, B, wr, d) /\ Sends(v, x)
              /\ x.t.rto_base = TRUE \/ x.t.failed = TRUE
      BY <2>1, SendSegmentFacts DEF Works
    <3>2. Sends(w, SendSegment(v, k, io))
      BY <3>1, SendsOn
    <3> QED BY <2>1, <3>1, <3>2 DEF Works, Waits
  <2>2. CASE ~(MaySend(v.t) /\ ~v.t.failed)
    BY <2>2
  <2> QED BY <2>1, <2>2
<1> HIDE DEF S
<1>3. h \in [Nat -> [S -> S]]
  <2>1. ASSUME NEW k \in Nat PROVE q(k) \in [S -> S]
    <3> HIDE DEF next
    <3> QED BY <1>2
  <2> HIDE DEF q
  <2> QED BY <2>1
<1>4. PICK f : Steps(f, K, S, w, h)
  <2> HIDE DEF h
  <2> QED BY <1>0, <1>1, <1>3, StepsExist
<1>5. IsRound(f, w, io)
  <2>0. ASSUME NEW k \in Nat, NEW v \in S PROVE h[k][v] = next(k + 1, v)
    <3>1. q(k)[v] = next(k + 1, v)
      OBVIOUS
    <3>2. h[k] = q(k)
      <4> HIDE DEF q
      <4> QED OBVIOUS
    <3> HIDE DEF h, q
    <3> QED BY <3>1, <3>2
  <2> HIDE DEF h
  <2>1. f \in [0 .. K -> S] /\ f[0] = w /\ \A k \in 1 .. K : f[k] = h[k - 1][f[k - 1]]
    BY <1>4 DEF Steps
  <2>2. ASSUME NEW k \in 1 .. K PROVE f[k] = next(k, f[k - 1])
    <3>1. k - 1 \in Nat /\ k - 1 \in 0 .. K /\ (k - 1) + 1 = k
      BY <1>0
    <3>2. f[k - 1] \in S
      BY <2>1, <3>1
    <3> HIDE DEF next
    <3> QED BY <2>0, <2>1, <3>1, <3>2
  <2>3. \A k \in 0 .. K : f[k] = IF k = 0 THEN w ELSE next(k, f[k - 1])
    <3> HIDE DEF next
    <3> QED BY <1>0, <2>1, <2>2
  <2>4. f = [k \in 0 .. K |-> f[k]]
    BY <2>1
  <2>5. f = [k \in 0 .. K |-> IF k = 0 THEN w ELSE next(k, f[k - 1])]
    <3> HIDE DEF next
    <3> QED BY <2>3, <2>4
  <2> QED BY <2>5 DEF IsRound
<1> DEFINE g == CHOOSE r : IsRound(r, w, io)
<1>6. IsRound(g, w, io)
  BY <1>5
<1> HIDE DEF g
<1>7. g[0] = w /\ \A k \in 1 .. K : g[k] = next(k, g[k - 1])
  <2>1. g = [k \in 0 .. K |-> IF k = 0 THEN w ELSE next(k, g[k - 1])]
    BY <1>6 DEF IsRound
  <2> HIDE DEF next
  <2> QED BY <1>0, <2>1
<1> HIDE DEF next, h, q
<1>m. \A k : Waits(next(k, w).t)
  BY <1>1, <1>2
<1>n. ASSUME NEW v \in S, Waits(v.t), NEW k PROVE Waits(next(k, v).t)
  <2>1. CASE MaySend(v.t) /\ ~v.t.failed
    BY <1>2, <2>1
  <2>2. CASE ~(MaySend(v.t) /\ ~v.t.failed)
    BY <1>n, <2>2 DEF next
  <2> QED BY <2>1, <2>2
<1> DEFINE Q(k) == g[k] \in S /\ Waits(g[k].t)
           P == {k \in Nat : k + 1 <= K => Q(k + 1)}
<1>8. 0 \in P
  <2>1. 0 + 1 \in 1 .. K /\ 0 + 1 - 1 = 0
    BY <1>0
  <2>2. g[0 + 1] = next(0 + 1, w)
    BY <1>7, <2>1
  <2> QED BY <1>1, <1>2, <1>m, <2>2
<1>9. ASSUME NEW k \in Nat, k \in P PROVE k + 1 \in P
  <2>1. ASSUME (k + 1) + 1 <= K PROVE Q((k + 1) + 1)
    <3>1. k + 1 <= K /\ (k + 1) + 1 \in 1 .. K /\ (k + 1) + 1 - 1 = k + 1
      BY <1>0, <2>1
    <3>2. Q(k + 1)
      BY <1>9, <3>1
    <3>3. g[(k + 1) + 1] = next((k + 1) + 1, g[k + 1])
      BY <1>7, <3>1
    <3> QED BY <3>2, <3>3, <1>2, <1>n
  <2> HIDE DEF Q
  <2> QED BY <2>1
<1>10. Nat \subseteq P
  <2> HIDE DEF P
  <2> QED BY <1>8, <1>9, SetInduction
<1>11. g[K] \in S /\ Waits(g[K].t)
  <2>1. K - 1 \in Nat /\ K - 1 + 1 = K /\ K <= K
    BY <1>0
  <2>2. K - 1 \in P
    BY <1>10, <2>1
  <2> QED BY <2>1, <2>2
<1>12. Rounds(w, io) = g[K]
  BY DEF Rounds, g
<1>13. Works(g[K], u, N, B, wr, d) /\ Sends(w, g[K])
  BY <1>11 DEF S
<1> QED BY <1>11, <1>12, <1>13 DEF Running, Waits

\* attemptSend leaves a good end that does not stall.
LEMMA AttemptSendFacts ==
    ASSUME NEW w, NEW u, NEW N, NEW B, NEW wr, NEW d, Works(w, u, N, B, wr, d),
           NEW sflags, NEW io \in Conditions
    PROVE  LET v == AttemptSend(w, sflags, io)
           IN  Works(v, u, N, B, wr, d) /\ Sends(w, v) /\ Running(v.t)
<1> DEFINE cw == IF io.idle THEN w.t.mss ELSE w.t.cwnd
           fl == FALSE
           first == Resized(w, w.t.msslevel, w.t.mss, cw, fl)
<1>0. w \in Handler /\ w.t \in Tcb
  BY WorksFacts
<1>1. Works(first, u, N, B, wr, d) /\ Sends(w, first) /\ first.t.failed = FALSE
  <2>1. w.t.mss \in Positive /\ w.t.cwnd \in Positive /\ w.t.msslevel \in DOMAIN MssLevels
    BY <1>0 DEF Tcb
  <2>2. cw \in Positive /\ fl \in BOOLEAN /\ fl = FALSE
    BY <2>1
  <2> HIDE DEF cw, fl
  <2> QED BY <2>1, <2>2, ResizedWorks
<1>a. [w EXCEPT !.t.cwnd = IF io.idle THEN w.t.mss ELSE @, !.t.failed = FALSE] = first
  BY <1>0 DEF Resized, Handler, Tcb
<1>2. AttemptSend(w, sflags, io) =
         IF MaySend(first.t) THEN Rounds(first, io) ELSE SendNothing(first, sflags)
  <2>1. AttemptSend(w, sflags, io) =
           LET x == [w EXCEPT !.t.cwnd = IF io.idle THEN w.t.mss ELSE @, !.t.failed = FALSE]
           IN  IF MaySend(x.t) THEN Rounds(x, io) ELSE SendNothing(x, sflags)
    BY DEF AttemptSend, Rounds, IsRound
  <2> HIDE DEF first
  <2> QED BY <1>a, <2>1
<1> HIDE DEF first
<1>3. CASE MaySend(first.t)
  <2>1. LET v == Rounds(first, io)
        IN  Works(v, u, N, B, wr, d) /\ Sends(first, v) /\ Running(v.t)
    BY <1>1, <1>3, RoundsFacts
  <2> QED BY <1>1, <1>2, <1>3, <2>1, SendsOn
<1>4. CASE ~MaySend(first.t)
  <2>1. LET v == SendNothing(first, sflags)
        IN  Works(v, u, N, B, wr, d) /\ Sends(first, v) /\ Running(v.t)
    BY <1>1, <1>4, SendNothingFacts
  <2> QED BY <1>1, <1>2, <1>4, <2>1, SendsOn
<1> QED BY <1>3, <1>4

-----------------------------------------------------------------------------
(***************************************************************************)
(* What the application has been told.                                     *)
(***************************************************************************)
\* With what the handler w tells it, besides a.
HeardBy(w, a) == Heard(w.t, a \cup Told(w))

\* The same before TellWriteable: writeable may still have to be told.
HeardSoFar(w, a) ==
    w.t.state = "TCP_ESTABLISHED" /\ ~w.t.shutdown =>
        /\ "readable" \in a \cup Told(w) \/ (w.t.read_enable /\ w.t.rbuf = <<>>)
        /\ "writeable" \in a \cup Told(w) \/ w.t.write_enable

\* Sending tells nothing and has nothing to tell.
LEMMA SendsHeard ==
    ASSUME NEW w, NEW v, NEW a, Sends(w, v), HeardBy(w, a)
    PROVE  HeardBy(v, a)
<1>1. v.t.rbuf = w.t.rbuf
  <2>1. Rcv(v.t).rbuf = v.t.rbuf /\ Rcv(w.t).rbuf = w.t.rbuf /\ Rcv(v.t) = Rcv(w.t)
    BY DEF Rcv, Sends
  <2> QED BY <2>1
<1>2. /\ v.t.shutdown = w.t.shutdown /\ v.told = w.told
      /\ v.t.state = w.t.state /\ v.t.sbuf = w.t.sbuf
      /\ v.t.read_enable = w.t.read_enable /\ v.t.write_enable = w.t.write_enable
  BY DEF Sends
<1>3. Told(v) = Told(w)
  BY <1>2 DEF Told
<1> QED BY <1>1, <1>2, <1>3 DEF HeardBy, Heard

-----------------------------------------------------------------------------
(***************************************************************************)
(* The sending half of the other handlers.                                 *)
(***************************************************************************)
\* A handler that changed its sending half and left the receiving one alone.
LEMMA SenderWorks ==
    ASSUME NEW w, NEW u, NEW N, NEW B, NEW wr, NEW d, Works(w, u, N, B, wr, d),
           NEW v \in Handler, v.out = w.out, Rcv(v.t) = Rcv(w.t),
           v.t.shutdown = w.t.shutdown, GoodSender(Snd(v.t)),
           Forward(Snd(w.t), Snd(v.t), Rcv(u)), Local(v.t),
           NEW wr2 \in Nat, Life(v.t, wr2)
    PROVE  Works(v, u, N, B, wr2, d)
<1>1. w \in Handler /\ u \in Tcb /\ N \in SUBSET Message /\ B \in SUBSET Message
      /\ GoodHandler(w, u, N, B, wr, d)
  BY DEF Works
<1>2. v.t \in Tcb
  BY DEF Handler
<1>3. GoodEnd(v.t, wr2, d)
  BY <1>2, WorksFacts DEF GoodEnd
<1>4. Onward(Rcv(w.t), Rcv(v.t), Snd(u))
  BY <1>1, StandingStill
<1>5. \A x \in v.out : x \in w.out \/ (GoodPacket(Snd(v.t), x) /\ GoodAck(Snd(u), Rcv(v.t), x))
  OBVIOUS
<1>6. GoodHandler(v, u, N, B, wr2, d)
  BY <1>1, <1>3, <1>4, <1>5, HandlerGoesOn
<1> QED BY <1>1, <1>6 DEF Works

\* A handler with another end.
WithEnd(w, t2) == [w EXCEPT !.t = t2]

\* It is a handler, with the same packets and notifications.
LEMMA WithEndIs ==
    ASSUME NEW w \in Handler, NEW t2 \in Tcb
    PROVE  /\ WithEnd(w, t2) \in Handler /\ WithEnd(w, t2).t = t2
           /\ WithEnd(w, t2).out = w.out /\ WithEnd(w, t2).told = w.told
BY DEF Handler, WithEnd

\* What queue leaves alone.
Unqueued(t, t2) ==
    /\ t2.shutdown = t.shutdown /\ Rcv(t2) = Rcv(t)
    /\ t2.rto_base = t.rto_base /\ t2.recover = t.recover
    /\ t2.mss = t.mss /\ t2.msslevel = t.msslevel
    /\ t2.read_enable = t.read_enable /\ t2.write_enable = t.write_enable

\* The end after queue, in the state st and with the window wnd of the peer.
QueuedEnd(t, st, wnd, units, ctrl) ==
    [t EXCEPT !.state = st, !.snd_wnd = wnd, !.sbuf = t.sbuf \o units,
              !.slist = Queued(Snd(t), Len(units), ctrl)]

\* The segments of that end follow each other again, up to the end of m_sbuf.
LEMMA QueuedEndIs ==
    ASSUME NEW t \in Tcb, GoodSender(Snd(t)), NEW st \in TcpState, NEW wnd \in Nat,
           NEW units, NEW ctrl, Follow(Snd(t), units, ctrl)
    PROVE  LET t2 == QueuedEnd(t, st, wnd, units, ctrl)
           IN  /\ t2 \in Tcb /\ GoodSender(Snd(t2)) /\ Keeps(Snd(t), Snd(t2))
               /\ Unqueued(t, t2) /\ t2.state = st /\ t2.snd_wnd = wnd
               /\ t2.snd_una = t.snd_una /\ t2.snd_nxt = t.snd_nxt
               /\ Len(t2.sbuf) = Len(t.sbuf) + Len(units)
               /\ t2.dup_acks = t.dup_acks
<1> DEFINE s == Snd(t)
           c == Queued(s, Len(units), ctrl)
           b == t.sbuf \o units
           t2 == QueuedEnd(t, st, wnd, units, ctrl)
           s2 == [s EXCEPT !.slist = Queued(s, Len(units), ctrl), !.sbuf = s.sbuf \o units]
<1>0. /\ s \in Sender /\ s.slist = t.slist /\ s.sbuf = t.sbuf /\ s.una = t.snd_una
      /\ s.nxt = t.snd_nxt /\ s.wnd = t.snd_wnd
  BY Halves
<1> HIDE DEF s
<1>1. /\ s2 \in Sender /\ GoodSender(s2) /\ Keeps(s, s2)
      /\ Len(s2.sbuf) = Len(s.sbuf) + Len(units)
  BY <1>0, QueueKeepsSender DEF s
<1>2. s2.slist = c /\ s2.sbuf = b /\ s2.una = t.snd_una /\ s2.nxt = t.snd_nxt
  <2> HIDE DEF c
  <2> QED BY <1>0 DEF Sender, c
<1> HIDE DEF s2
<1>3. c \in Seq(Segment) /\ b \in Seq(Nat)
  BY <1>1, <1>2, SegmentTypes
<1>4. t2 = [t EXCEPT !.state = st, !.snd_wnd = wnd, !.sbuf = b, !.slist = c]
  BY DEF QueuedEnd, s
<1> HIDE DEF c, b, t2
<1>5. t2 \in Tcb
  BY <1>3, <1>4 DEF Tcb
<1>6. /\ t2.state = st /\ t2.shutdown = t.shutdown
      /\ t2.read_enable = t.read_enable /\ t2.write_enable = t.write_enable
      /\ t2.sbuf = b /\ t2.snd_una = t.snd_una /\ t2.snd_wnd = wnd
      /\ t2.dup_acks = t.dup_acks /\ t2.recover = t.recover
      /\ t2.rto_base = t.rto_base
      /\ t2.mss = t.mss /\ t2.msslevel = t.msslevel
      /\ t2.snd_nxt = t.snd_nxt /\ t2.slist = c
      /\ t2.rlist = t.rlist /\ t2.rbuf = t.rbuf /\ t2.ahead = t.ahead
      /\ t2.rcv_nxt = t.rcv_nxt /\ t2.rcv_wnd = t.rcv_wnd
  BY <1>4 DEF Tcb
<1>7. Rcv(t2) = Rcv(t)
  BY <1>6 DEF Rcv
<1>8. GoodSender(Snd(t2)) /\ Keeps(s, Snd(t2))
  <2> DEFINE x == Snd(t2)
  <2>1. x \in Sender /\ x.slist = s2.slist /\ x.sbuf = s2.sbuf /\ x.una = s2.una /\ x.nxt = s2.nxt
    BY <1>2, <1>5, <1>6, Halves
  <2> HIDE DEF x
  <2>2. GoodSender(x)
    <3>1. Segments(x)
      <4>1. Segments(s2)
        BY <1>1 DEF GoodSender
      <4> QED BY <2>1, <4>1 DEF Segments
    <3> QED BY <1>1, <2>1, <3>1 DEF GoodSender
  <2>3. Keeps(s, x)
    BY <1>1, <2>1 DEF Keeps, Reached
  <2> QED BY <2>2, <2>3 DEF x
<1>9. Unqueued(t, t2)
  BY <1>6, <1>7 DEF Unqueued
<1>10. Len(t2.sbuf) = Len(t.sbuf) + Len(units)
  BY <1>0, <1>1, <1>2, <1>6
<1> QED BY <1>5, <1>6, <1>8, <1>9, <1>10 DEF t2, s

\* queue, with the room it needs in the buffer.
LEMMA QueuedWorks ==
    ASSUME NEW w, NEW u, NEW N, NEW B, NEW wr, NEW d, Works(w, u, N, B, wr, d),
           NEW st \in TcpState, NEW wnd \in Nat, NEW units, NEW ctrl,
           Follow(Snd(w.t), units, ctrl),
           w.t.snd_una + wnd <= u.rcv_nxt + u.rcv_wnd,
           Len(w.t.sbuf) + Len(units) <= SndBuf,
           NEW wr2 \in Nat, Life(QueuedEnd(w.t, st, wnd, units, ctrl), wr2)
    PROVE  Works(WithEnd(w, QueuedEnd(w.t, st, wnd, units, ctrl)), u, N, B, wr2, d)
<1> DEFINE t == w.t
           t2 == QueuedEnd(t, st, wnd, units, ctrl)
           v == WithEnd(w, t2)
<1>0. w \in Handler /\ t \in Tcb /\ GoodSender(Snd(t)) /\ Local(t)
  BY WorksFacts
<1>1. /\ t2 \in Tcb /\ GoodSender(Snd(t2)) /\ Keeps(Snd(t), Snd(t2))
      /\ Unqueued(t, t2) /\ t2.state = st /\ t2.snd_wnd = wnd
      /\ t2.snd_una = t.snd_una /\ t2.snd_nxt = t.snd_nxt
      /\ Len(t2.sbuf) = Len(t.sbuf) + Len(units)
  BY <1>0, QueuedEndIs, SMTT(40)
<1>3. Life(t2, wr2) /\ Len(t.sbuf) + Len(units) <= SndBuf
      /\ t.snd_una + wnd <= u.rcv_nxt + u.rcv_wnd
  OBVIOUS
<1> HIDE DEF t2
<1>2. v \in Handler /\ v.t = t2 /\ v.out = w.out /\ v.told = w.told
  BY <1>0, <1>1, WithEndIs
<1> HIDE DEF v
<1>4. Local(t2)
  <2> HIDE DEF t
  <2> QED BY <1>0, <1>1, <1>3 DEF Local, Unqueued
<1>5. Forward(Snd(t), Snd(t2), Rcv(u))
  <2>1. Arrives(Snd(t), Rcv(u)) /\ u \in Tcb
    BY DEF Works, GoodHandler, Flow
  <2>2. /\ Snd(t).una = t.snd_una /\ Snd(t).nxt = t.snd_nxt
        /\ Snd(t2).una = t2.snd_una /\ Snd(t2).nxt = t2.snd_nxt /\ Snd(t2).wnd = t2.snd_wnd
        /\ Rcv(u).nxt = u.rcv_nxt /\ Rcv(u).wnd = u.rcv_wnd
    BY DEF Snd, Rcv
  <2>3. t.snd_nxt \in Nat
    BY <1>0, EndTypes
  <2> HIDE DEF t
  <2> QED BY <1>1, <1>3, <2>1, <2>2, <2>3 DEF Forward, Arrives
<1>6. Works(v, u, N, B, wr2, d)
  <2>1. /\ Rcv(v.t) = Rcv(w.t) /\ v.t.shutdown = w.t.shutdown /\ GoodSender(Snd(v.t))
        /\ Forward(Snd(w.t), Snd(v.t), Rcv(u)) /\ Local(v.t) /\ Life(v.t, wr2)
    BY <1>1, <1>2, <1>3, <1>4, <1>5 DEF Unqueued
  <2> QED BY <1>2, <2>1, SenderWorks
<1> QED BY <1>6 DEF v, t2

\* An end with other settings: its state, its packet size, its congestion control.
Set(t, st, ms, lv, cw, ss, dup, rec) ==
    [t EXCEPT !.state = st, !.mss = ms, !.msslevel = lv, !.cwnd = cw, !.ssthresh = ss,
              !.dup_acks = dup, !.recover = rec]

IsSet(t, t2, st, ms, lv, dup, rec) ==
    /\ t2 \in Tcb /\ Snd(t2) = Snd(t) /\ Rcv(t2) = Rcv(t)
    /\ t2.state = st /\ t2.mss = ms /\ t2.msslevel = lv
    /\ t2.dup_acks = dup /\ t2.recover = rec
    /\ t2.shutdown = t.shutdown /\ t2.rto_base = t.rto_base
    /\ t2.snd_nxt = t.snd_nxt /\ t2.snd_una = t.snd_una /\ t2.sbuf = t.sbuf
    /\ t2.rbuf = t.rbuf /\ t2.slist = t.slist /\ t2.snd_wnd = t.snd_wnd
    /\ t2.read_enable = t.read_enable /\ t2.write_enable = t.write_enable
    /\ t2.failed = t.failed

\* The settings belong to none of the two streams.
LEMMA SetIs ==
    ASSUME NEW t \in Tcb, NEW st \in TcpState, NEW ms \in Positive,
           NEW lv \in DOMAIN MssLevels, NEW cw \in Positive, NEW ss \in Positive,
           NEW dup \in 0 .. 4, NEW rec \in Nat
    PROVE  IsSet(t, Set(t, st, ms, lv, cw, ss, dup, rec), st, ms, lv, dup, rec)
<1> DEFINE a == [t EXCEPT !.state = st, !.mss = ms, !.msslevel = lv]
           b == [a EXCEPT !.cwnd = cw, !.ssthresh = ss]
           t2 == [b EXCEPT !.dup_acks = dup, !.recover = rec]
<1>1. /\ a \in Tcb /\ a.state = st /\ a.mss = ms /\ a.msslevel = lv
      /\ Snd(a) = Snd(t) /\ Rcv(a) = Rcv(t)
      /\ a.shutdown = t.shutdown /\ a.rto_base = t.rto_base /\ a.failed = t.failed
      /\ a.read_enable = t.read_enable /\ a.write_enable = t.write_enable
  BY DEF Tcb, Snd, Rcv
<1>2. t2 = Set(t, st, ms, lv, cw, ss, dup, rec)
  BY DEF Set
<1> HIDE DEF a
<1>3. /\ b \in Tcb /\ b.state = st /\ b.mss = ms /\ b.msslevel = lv /\ b.cwnd = cw
      /\ b.ssthresh = ss
      /\ Snd(b) = Snd(t) /\ Rcv(b) = Rcv(t)
      /\ b.shutdown = t.shutdown /\ b.rto_base = t.rto_base /\ b.failed = t.failed
      /\ b.read_enable = t.read_enable /\ b.write_enable = t.write_enable
  <2>1. /\ b \in Tcb /\ Snd(b) = Snd(a) /\ Rcv(b) = Rcv(a)
    BY <1>1 DEF Tcb, Snd, Rcv
  <2>2. /\ b.state = a.state /\ b.mss = a.mss /\ b.msslevel = a.msslevel /\ b.cwnd = cw
        /\ b.ssthresh = ss /\ b.shutdown = a.shutdown /\ b.rto_base = a.rto_base
        /\ b.failed = a.failed
        /\ b.read_enable = a.read_enable /\ b.write_enable = a.write_enable
    BY <1>1 DEF Tcb
  <2> QED BY <1>1, <2>1, <2>2
<1> HIDE DEF b
<1>4. /\ t2 \in Tcb /\ t2.state = st /\ t2.mss = ms /\ t2.msslevel = lv /\ t2.cwnd = cw
      /\ t2.ssthresh = ss /\ t2.dup_acks = dup /\ t2.recover = rec
      /\ Snd(t2) = Snd(t) /\ Rcv(t2) = Rcv(t)
      /\ t2.shutdown = t.shutdown /\ t2.rto_base = t.rto_base /\ t2.failed = t.failed
      /\ t2.read_enable = t.read_enable /\ t2.write_enable = t.write_enable
  <2>1. /\ t2 \in Tcb /\ Snd(t2) = Snd(b) /\ Rcv(t2) = Rcv(b)
    BY <1>3 DEF Tcb, Snd, Rcv
  <2>2. /\ t2.state = b.state /\ t2.mss = b.mss /\ t2.msslevel = b.msslevel
        /\ t2.cwnd = b.cwnd /\ t2.dup_acks = dup /\ t2.recover = rec
        /\ t2.ssthresh = b.ssthresh /\ t2.shutdown = b.shutdown /\ t2.rto_base = b.rto_base
        /\ t2.failed = b.failed
        /\ t2.read_enable = b.read_enable /\ t2.write_enable = b.write_enable
    BY <1>3 DEF Tcb
  <2> QED BY <1>3, <2>1, <2>2
<1> HIDE DEF t2
<1>5. /\ t2.snd_nxt = t.snd_nxt /\ t2.snd_una = t.snd_una /\ t2.sbuf = t.sbuf
      /\ t2.rbuf = t.rbuf /\ t2.slist = t.slist /\ t2.snd_wnd = t.snd_wnd
  <2>1. /\ Snd(t2).nxt = Snd(t).nxt /\ Snd(t2).una = Snd(t).una /\ Snd(t2).sbuf = Snd(t).sbuf
        /\ Rcv(t2).rbuf = Rcv(t).rbuf /\ Snd(t2).slist = Snd(t).slist /\ Snd(t2).wnd = Snd(t).wnd
    BY <1>4
  <2> QED BY <2>1 DEF Snd, Rcv
<1> QED BY <1>2, <1>4, <1>5 DEF IsSet

\* A handler goes on with other settings.
LEMMA SetWorks ==
    ASSUME NEW w, NEW u, NEW N, NEW B, NEW wr, NEW d, Works(w, u, N, B, wr, d),
           NEW st \in TcpState, NEW ms \in Positive, NEW lv \in DOMAIN MssLevels,
           NEW cw \in Positive, NEW ss \in Positive, NEW dup \in 0 .. 4, NEW rec \in Nat,
           rec <= w.t.snd_nxt,
           \/ st = w.t.state
           \/ st = "TCP_CLOSED"
           \/ w.t.state \in Connecting /\ st = "TCP_ESTABLISHED"
    PROVE  Works(WithEnd(w, Set(w.t, st, ms, lv, cw, ss, dup, rec)), u, N, B, wr, d)
<1> DEFINE t2 == Set(w.t, st, ms, lv, cw, ss, dup, rec)
           v == WithEnd(w, t2)
<1>0. w \in Handler /\ w.t \in Tcb
  BY WorksFacts
<1>1. /\ t2 \in Tcb /\ Snd(t2) = Snd(w.t) /\ Rcv(t2) = Rcv(w.t)
      /\ t2.state = st /\ t2.mss = ms /\ t2.msslevel = lv /\ t2.recover = rec
      /\ t2.shutdown = w.t.shutdown /\ t2.rto_base = w.t.rto_base
      /\ t2.snd_nxt = w.t.snd_nxt
  <2>1. IsSet(w.t, t2, st, ms, lv, dup, rec)
    BY <1>0, SetIs
  <2> HIDE DEF t2
  <2> QED BY <2>1 DEF IsSet
<1> HIDE DEF t2
<1>2. v \in Handler /\ v.t = t2 /\ v.out = w.out
  BY <1>0, <1>1, WithEndIs
<1> HIDE DEF v
<1>3. Tuned(w.t, v.t)
  BY <1>1, <1>2 DEF Tuned
<1>4. Works(v, u, N, B, wr, d)
  BY <1>2, <1>3, TunedWorks
<1> QED BY <1>4 DEF v, t2

\* A handler that has more to tell.
Telling(w, x) == [w EXCEPT !.told = w.told \cup x]

\* It changes nothing else.
LEMMA TellingWorks ==
    ASSUME NEW w, NEW u, NEW N, NEW B, NEW wr, NEW d, Works(w, u, N, B, wr, d),
           NEW x \in SUBSET {"open", "closed", "readable", "writeable"}
    PROVE  LET v == Telling(w, x)
           IN  /\ Works(v, u, N, B, wr, d) /\ v.t = w.t /\ v.told = w.told \cup x
               /\ v.out = w.out
<1> DEFINE v == Telling(w, x)
<1>0. w \in Handler /\ w.t \in Tcb /\ GoodEnd(w.t, wr, d)
  BY WorksFacts
<1>1. v \in Handler /\ v.t = w.t /\ v.told = w.told \cup x /\ v.out = w.out
  BY <1>0 DEF Handler, Telling
<1> HIDE DEF v
<1>2. Tuned(w.t, v.t)
  BY <1>0, <1>1, ReTuned
<1> QED BY <1>1, <1>2, TunedWorks DEF v

\* What the application has to be told about is the same.
Alike(w, v) ==
    /\ v.told = w.told /\ v.t.state = w.t.state /\ v.t.shutdown = w.t.shutdown
    /\ v.t.read_enable = w.t.read_enable /\ v.t.write_enable = w.t.write_enable
    /\ v.t.rbuf = w.t.rbuf

\* A handler that closes the connection, or has nothing new to tell.
Continues(w, v) ==
    v.t.shutdown = w.t.shutdown /\ (v.t.state = "TCP_CLOSED" \/ Alike(w, v))

\* Then the application knows as much as before.
LEMMA ContinuesHeard ==
    ASSUME NEW w, NEW v, Continues(w, v), NEW a
    PROVE  /\ HeardSoFar(w, a) => HeardSoFar(v, a)
           /\ HeardBy(w, a) /\ v.t.sbuf = w.t.sbuf => HeardBy(v, a)
<1>1. CASE v.t.state = "TCP_CLOSED"
  BY <1>1 DEF HeardSoFar, HeardBy, Heard
<1>2. CASE Alike(w, v)
  <2>1. Told(v) = Told(w)
    BY <1>2 DEF Alike, Told
  <2> QED BY <1>2, <2>1 DEF Alike, HeardSoFar, HeardBy, Heard
<1> QED BY <1>1, <1>2 DEF Continues

\* Sending does not disturb it.
LEMMA SendsAlike ==
    ASSUME NEW w, NEW v, Sends(w, v)
    PROVE  Alike(w, v)
<1>1. v.t.rbuf = w.t.rbuf
  <2>1. Rcv(v.t).rbuf = v.t.rbuf /\ Rcv(w.t).rbuf = w.t.rbuf /\ Rcv(v.t) = Rcv(w.t)
    BY DEF Rcv, Sends
  <2> QED BY <2>1
<1> QED BY <1>1 DEF Alike, Sends

\* A step after another.
LEMMA ContinuesOn ==
    ASSUME NEW w, NEW v, NEW x, Alike(w, v), Continues(v, x)
    PROVE  Continues(w, x)
BY DEF Alike, Continues

-----------------------------------------------------------------------------
(***************************************************************************)
(* The changes of the settings.                                            *)
(***************************************************************************)
\* The congestion windows that are computed are positive.
LEMMA WindowFacts ==
    ASSUME NEW t \in Tcb, NEW n \in Nat, t.snd_una <= t.snd_nxt
    PROVE  /\ Grow(t) \in Positive /\ HalfInFlight(t) \in Positive
           /\ Capped(HalfInFlight(t) + 3 * t.mss) \in Positive
           /\ MinOf(t.ssthresh, InFlight(t) + t.mss) \in Positive
           /\ Capped(t.cwnd + t.mss - MinOf(n, t.cwnd)) \in Positive
           /\ Capped(t.cwnd + t.mss) \in Positive
<1> DEFINE m == t.mss
           c == t.cwnd
           f == InFlight(t)
           q == (m * m) \div c
           h == f \div 2
<1>0. m \in Nat /\ m > 0 /\ c \in Nat /\ c > 0 /\ t.ssthresh \in Nat /\ t.ssthresh > 0
  BY EndTypes
<1>1. f \in Nat
  BY EndTypes DEF InFlight
<1>2. MaxCwnd \in Nat /\ MaxCwnd > 0
  BY MssFacts DEF Positive
<1>3. q \in Int
  <2>1. m * m \in Nat
    BY <1>0
  <2> DEFINE k == m * m
  <2> HIDE DEF k, c
  <2> QED BY <1>0, <2>1 DEF k
<1>4. h \in Int
  BY <1>1
<1>5. Grow(t) = Capped(IF c < t.ssthresh THEN c + m ELSE c + MaxOf(1, q))
  BY DEF Grow
<1>6. HalfInFlight(t) = MaxOf(h, 2 * m)
  BY DEF HalfInFlight
<1> HIDE DEF m, c, f, q, h
<1>7. \A n1 \in Positive : Capped(n1) \in Positive
  BY <1>2 DEF Capped, MinOf, Positive
<1>8. c + m \in Positive /\ c + MaxOf(1, q) \in Positive
  BY <1>0, <1>3 DEF MaxOf, Positive
<1>9. MaxOf(h, 2 * m) \in Positive
  BY <1>0, <1>4 DEF MaxOf, Positive
<1>10. MaxOf(h, 2 * m) + 3 * m \in Positive
  BY <1>0, <1>9 DEF Positive
<1>11. MinOf(t.ssthresh, f + m) \in Positive
  BY <1>0, <1>1 DEF MinOf, Positive
<1>12. c + m - MinOf(n, c) \in Positive
  BY <1>0 DEF MinOf, Positive
<1>13. Grow(t) \in Positive
  BY <1>5, <1>7, <1>8
<1>14. /\ HalfInFlight(t) \in Positive /\ Capped(HalfInFlight(t) + 3 * m) \in Positive
       /\ Capped(c + m - MinOf(n, c)) \in Positive /\ Capped(c + m) \in Positive
  BY <1>6, <1>7, <1>8, <1>9, <1>10, <1>12
<1> QED BY <1>11, <1>13, <1>14 DEF m, c, f

\* The settings of an end that stay.
SetSame(w, cw, ss, dup, rec) ==
    WithEnd(w, Set(w.t, w.t.state, w.t.mss, w.t.msslevel, cw, ss, dup, rec))

\* Congestion control changes no stream and tells nothing.
LEMMA SetSameWorks ==
    ASSUME NEW w, NEW u, NEW N, NEW B, NEW wr, NEW d, Works(w, u, N, B, wr, d),
           NEW cw \in Positive, NEW ss \in Positive, NEW dup \in 0 .. 4, NEW rec \in Nat,
           rec <= w.t.snd_nxt
    PROVE  LET v == SetSame(w, cw, ss, dup, rec)
           IN  /\ Works(v, u, N, B, wr, d) /\ Alike(w, v) /\ v.t.dup_acks = dup
               /\ v.t.rto_base = w.t.rto_base /\ v.t.sbuf = w.t.sbuf
               /\ v.t.snd_wnd = w.t.snd_wnd /\ v.t.snd_una = w.t.snd_una
               /\ v.t.snd_nxt = w.t.snd_nxt /\ v.t.recover = rec /\ v.out = w.out
<1> DEFINE st == w.t.state
           ms == w.t.mss
           lv == w.t.msslevel
           t2 == Set(w.t, st, ms, lv, cw, ss, dup, rec)
           v == WithEnd(w, t2)
<1>0. w \in Handler /\ w.t \in Tcb /\ Local(w.t)
  BY WorksFacts
<1>1. st \in TcpState /\ ms \in Positive /\ lv \in DOMAIN MssLevels
  BY <1>0 DEF Tcb
<1>2. st = w.t.state
  OBVIOUS
<1> HIDE DEF st, ms, lv
<1>3. /\ t2 \in Tcb /\ t2.state = st /\ t2.dup_acks = dup /\ t2.recover = rec
      /\ t2.shutdown = w.t.shutdown /\ t2.rto_base = w.t.rto_base
      /\ t2.snd_nxt = w.t.snd_nxt /\ t2.snd_una = w.t.snd_una /\ t2.sbuf = w.t.sbuf
      /\ t2.rbuf = w.t.rbuf /\ t2.snd_wnd = w.t.snd_wnd
      /\ t2.read_enable = w.t.read_enable /\ t2.write_enable = w.t.write_enable
  <2>1. IsSet(w.t, t2, st, ms, lv, dup, rec)
    BY <1>0, <1>1, SetIs
  <2> HIDE DEF t2
  <2> QED BY <2>1 DEF IsSet
<1>4. Works(v, u, N, B, wr, d)
  BY <1>0, <1>1, <1>2, SetWorks
<1> HIDE DEF t2
<1>5. v \in Handler /\ v.t = t2 /\ v.out = w.out /\ v.told = w.told
  BY <1>0, <1>3, WithEndIs
<1>6. SetSame(w, cw, ss, dup, rec) = v
  BY DEF SetSame, v, t2, st, ms, lv
<1> HIDE DEF v
<1>7. Alike(w, v)
  BY <1>2, <1>3, <1>5 DEF Alike
<1> QED BY <1>3, <1>4, <1>5, <1>6, <1>7
\* Closedown.
LEMMA ClosedownWorks ==
    ASSUME NEW w, NEW u, NEW N, NEW B, NEW wr, NEW d, Works(w, u, N, B, wr, d)
    PROVE  LET v == Closedown(w)
           IN  /\ Works(v, u, N, B, wr, d) /\ v.t.state = "TCP_CLOSED"
               /\ v.t.shutdown = w.t.shutdown /\ v.t.rto_base = w.t.rto_base
               /\ v.t.sbuf = w.t.sbuf /\ v.t.snd_wnd = w.t.snd_wnd
               /\ v.t.failed = w.t.failed
               /\ v.t.snd_una = w.t.snd_una /\ v.t.snd_nxt = w.t.snd_nxt
<1> DEFINE st == "TCP_CLOSED"
           ms == w.t.mss
           lv == w.t.msslevel
           cw == w.t.cwnd
           ss == w.t.ssthresh
           dup == w.t.dup_acks
           rec == w.t.recover
           t2 == Set(w.t, st, ms, lv, cw, ss, dup, rec)
           x == WithEnd(w, t2)
           c == {"closed"}
           v == Telling(x, c)
<1>0. w \in Handler /\ w.t \in Tcb /\ Local(w.t)
  BY WorksFacts
<1>1. /\ st \in TcpState /\ ms \in Positive /\ lv \in DOMAIN MssLevels /\ cw \in Positive
      /\ ss \in Positive /\ dup \in 0 .. 4 /\ rec \in Nat
  BY <1>0 DEF Tcb, TcpState
<1>2. rec <= w.t.snd_nxt
  BY <1>0 DEF Local
<1>3. st = "TCP_CLOSED"
  OBVIOUS
<1>4. Closedown(w) = v
  BY <1>0 DEF Closedown, Handler, Tcb, WithEnd, Set, Telling
<1> HIDE DEF st, ms, lv, cw, ss, dup, rec
<1>5. IsSet(w.t, t2, st, ms, lv, dup, rec)
  BY <1>0, <1>1, SetIs
<1>6. Works(x, u, N, B, wr, d)
  BY <1>0, <1>1, <1>2, <1>3, SetWorks
<1> HIDE DEF t2
<1>7. x.t = t2
  BY <1>0, <1>5, WithEndIs DEF IsSet
<1>8. c \in SUBSET {"open", "closed", "readable", "writeable"}
  OBVIOUS
<1> HIDE DEF x, c
<1>9. Works(v, u, N, B, wr, d) /\ v.t = x.t
  BY <1>6, <1>8, TellingWorks
<1> HIDE DEF v
<1> QED BY <1>3, <1>4, <1>5, <1>7, <1>9 DEF IsSet

\* The level that adjustMTU chooses.
AdvisedLevel(t) ==
    Min({l \in DOMAIN MssLevels : MssLevels[l] <= t.mtu_advise} \cup {Len(MssLevels)})

\* It is one of the list.
LEMMA AdvisedFacts ==
    ASSUME NEW t
    PROVE  AdvisedLevel(t) \in DOMAIN MssLevels
<1> DEFINE I == {l \in DOMAIN MssLevels : MssLevels[l] <= t.mtu_advise} \cup {Len(MssLevels)}
<1>1. DOMAIN MssLevels \subseteq Nat /\ Len(MssLevels) \in DOMAIN MssLevels
  BY PseudoTcpAssumption
<1>2. I \subseteq DOMAIN MssLevels /\ I \subseteq Nat /\ I # {}
  BY <1>1
<1>3. AdvisedLevel(t) = Min(I)
  BY DEF AdvisedLevel
<1> HIDE DEF I
<1>4. Min(I) \in I
  BY <1>2, MinFacts
<1> QED BY <1>2, <1>3, <1>4

\* adjustMTU as a change of the settings.
LEMMA AdjustIs ==
    ASSUME NEW t \in Tcb, NEW st
    PROVE  AdjustMTU([t EXCEPT !.state = st]) =
              Set(t, st, t.mtu_advise, AdvisedLevel(t), MaxOf(t.cwnd, t.mtu_advise),
                  MaxOf(t.ssthresh, 2 * t.mtu_advise), t.dup_acks, t.recover)
<1> DEFINE x == [t EXCEPT !.state = st]
<1>1. x.mtu_advise = t.mtu_advise
  BY DEF Tcb
<1>2. AdvisedLevel(x) = AdvisedLevel(t)
  <2> HIDE DEF x
  <2> QED BY <1>1 DEF AdvisedLevel
<1>3. AdjustMTU(x) =
         [x EXCEPT !.msslevel = AdvisedLevel(x), !.mss = x.mtu_advise,
                   !.ssthresh = MaxOf(@, 2 * x.mtu_advise), !.cwnd = MaxOf(@, x.mtu_advise)]
  <2> HIDE DEF x
  <2> QED BY DEF AdjustMTU, AdvisedLevel
<1> DEFINE lv == AdvisedLevel(x)
<1> HIDE DEF lv
<1>4. AdjustMTU(x) =
         [x EXCEPT !.msslevel = lv, !.mss = t.mtu_advise,
                   !.ssthresh = MaxOf(@, 2 * t.mtu_advise), !.cwnd = MaxOf(@, t.mtu_advise)]
  <2> HIDE DEF x
  <2> QED BY <1>1, <1>3 DEF lv
<1>5. lv = AdvisedLevel(t)
  BY <1>2 DEF lv
<1> QED BY <1>4, <1>5 DEF Set, Tcb

\* adjustMTU, in a state that the end may enter.
LEMMA AdjustWorks ==
    ASSUME NEW w, NEW u, NEW N, NEW B, NEW wr, NEW d, Works(w, u, N, B, wr, d),
           NEW st \in TcpState,
           \/ st = w.t.state
           \/ w.t.state \in Connecting /\ st = "TCP_ESTABLISHED"
    PROVE  LET v == WithEnd(w, AdjustMTU([w.t EXCEPT !.state = st]))
           IN  /\ Works(v, u, N, B, wr, d) /\ v.told = w.told /\ v.out = w.out
               /\ v.t.state = st /\ v.t.shutdown = w.t.shutdown
               /\ v.t.rto_base = w.t.rto_base /\ v.t.sbuf = w.t.sbuf
               /\ v.t.rbuf = w.t.rbuf /\ v.t.snd_wnd = w.t.snd_wnd
               /\ v.t.failed = w.t.failed
               /\ v.t.read_enable = w.t.read_enable /\ v.t.write_enable = w.t.write_enable
               /\ v.t.snd_una = w.t.snd_una /\ v.t.snd_nxt = w.t.snd_nxt
<1> DEFINE lv == AdvisedLevel(w.t)
           ms == w.t.mtu_advise
           cw == MaxOf(w.t.cwnd, ms)
           ss == MaxOf(w.t.ssthresh, 2 * ms)
           dup == w.t.dup_acks
           rec == w.t.recover
           t2 == Set(w.t, st, ms, lv, cw, ss, dup, rec)
           v == WithEnd(w, t2)
<1>0. w \in Handler /\ w.t \in Tcb /\ Local(w.t)
  BY WorksFacts
<1>1. /\ lv \in DOMAIN MssLevels /\ dup \in 0 .. 4 /\ rec \in Nat
      /\ w.t.cwnd \in Positive /\ w.t.ssthresh \in Positive
  BY <1>0, AdvisedFacts DEF Tcb
<1>2. ms \in Positive
  BY <1>0 DEF Tcb
<1>3. cw \in Positive /\ ss \in Positive
  <2> HIDE DEF ms
  <2> QED BY <1>1, <1>2 DEF MaxOf, Positive
<1>4. rec <= w.t.snd_nxt
  BY <1>0 DEF Local
<1>5. AdjustMTU([w.t EXCEPT !.state = st]) = t2
  BY <1>0, AdjustIs
<1> HIDE DEF ms, lv, cw, ss, dup, rec
<1>6. IsSet(w.t, t2, st, ms, lv, dup, rec)
  BY <1>0, <1>1, <1>2, <1>3, SetIs
<1>7. Works(v, u, N, B, wr, d)
  BY <1>0, <1>1, <1>2, <1>3, <1>4, SetWorks
<1> HIDE DEF t2
<1>8. v.t = t2 /\ v.told = w.told /\ v.out = w.out
  BY <1>0, <1>6, WithEndIs DEF IsSet
<1> HIDE DEF v
<1>9. WithEnd(w, AdjustMTU([w.t EXCEPT !.state = st])) = v
  BY <1>5 DEF v
<1> QED BY <1>6, <1>7, <1>8, <1>9 DEF IsSet

\* The connection is open, and the application is told so.
LEMMA OpenWorks ==
    ASSUME NEW w, NEW u, NEW N, NEW B, NEW wr, NEW d, Works(w, u, N, B, wr, d),
           w.t.state \in Connecting, NEW a
    PROVE  LET v == Open(w)
           IN  /\ Works(v, u, N, B, wr, d) /\ v.t.shutdown = w.t.shutdown
               /\ v.t.state = "TCP_ESTABLISHED" /\ HeardSoFar(v, a)
<1> DEFINE st == "TCP_ESTABLISHED"
           x == WithEnd(w, AdjustMTU([w.t EXCEPT !.state = st]))
           c == {"open"}
           v == Telling(x, c)
<1>0. w \in Handler /\ w.t \in Tcb
  BY WorksFacts
<1>1. st \in TcpState /\ st = "TCP_ESTABLISHED"
  BY DEF TcpState
<1>2. Open(w) = v
  BY <1>0 DEF Open, Handler, WithEnd, Telling
<1> HIDE DEF st
<1>3. /\ Works(x, u, N, B, wr, d) /\ x.t.state = st /\ x.t.shutdown = w.t.shutdown
  BY <1>1, AdjustWorks
<1>4. c \in SUBSET {"open", "closed", "readable", "writeable"} /\ "open" \in c
  OBVIOUS
<1> HIDE DEF x, c
<1>5. Works(v, u, N, B, wr, d) /\ v.t = x.t /\ v.told = x.told \cup c
  BY <1>3, <1>4, TellingWorks
<1> HIDE DEF v
<1>6. ~v.t.shutdown => "readable" \in Told(v) /\ "writeable" \in Told(v)
  BY <1>4, <1>5 DEF Told
<1> QED BY <1>1, <1>2, <1>3, <1>5, <1>6 DEF HeardSoFar

\* queue with no other change of the end.
LEMMA QueueIs ==
    ASSUME NEW w \in Handler, NEW units, NEW ctrl
    PROVE  Queue(w, units, ctrl) =
              WithEnd(w, QueuedEnd(w.t, w.t.state, w.t.snd_wnd, units, ctrl))
<1> DEFINE t == w.t
           b == t.sbuf \o units
           c == Queued(Snd(t), Len(units), ctrl)
           x == [t EXCEPT !.sbuf = b, !.slist = c]
<1>0. t \in Tcb
  BY DEF Handler
<1>1. /\ Snd(t).slist = t.slist /\ Snd(t).una = t.snd_una /\ Snd(t).sbuf = t.sbuf
  BY DEF Snd
<1>2. c = IF t.slist # <<>> /\ Last(t.slist).ctrl = ctrl /\ Last(t.slist).xmit = 0
          THEN [t.slist EXCEPT ![Len(t.slist)].len = @ + Len(units)]
          ELSE Append(t.slist, [seq |-> t.snd_una + Len(t.sbuf), len |-> Len(units),
                                ctrl |-> ctrl, xmit |-> 0])
  BY <1>1 DEF Queued
<1>3. Queue(w, units, ctrl) = [w EXCEPT !.t.sbuf = b, !.t.slist = c]
  <2> HIDE DEF c
  <2> DEFINE l == t.slist
             g == Append(l, [seq |-> t.snd_una + Len(t.sbuf), len |-> Len(units),
                             ctrl |-> ctrl, xmit |-> 0])
             h == [l EXCEPT ![Len(l)].len = @ + Len(units)]
  <2>1. Queue(w, units, ctrl) =
           [w EXCEPT !.t.sbuf = b,
                     !.t.slist = IF l # <<>> /\ Last(l).ctrl = ctrl /\ Last(l).xmit = 0
                                 THEN h ELSE g]
    <3>1. [w EXCEPT !.t.sbuf = b].t.slist = l
      BY <1>0 DEF Handler, Tcb
    <3> QED BY <3>1 DEF Queue, Lengthened
  <2> QED BY <1>2, <2>1
<1> HIDE DEF b, c
<1>4. [w EXCEPT !.t.sbuf = b, !.t.slist = c] = WithEnd(w, x)
  BY <1>0 DEF Handler, WithEnd
<1>5. x = [t EXCEPT !.state = t.state, !.snd_wnd = t.snd_wnd, !.sbuf = b, !.slist = c]
  <2> HIDE DEF t
  <2> QED BY <1>0 DEF Tcb
<1>6. QueuedEnd(t, t.state, t.snd_wnd, units, ctrl) = x
  BY <1>5 DEF QueuedEnd, b, c
<1> QED BY <1>3, <1>4, <1>6

\* An end in another state, with another window of the peer.
InState(w, st, wnd) == WithEnd(w, [w.t EXCEPT !.state = st, !.snd_wnd = wnd])

\* queueConnectMessage, from a state in which the end does not yet send.
LEMMA QueueConnectIs ==
    ASSUME NEW w \in Handler, NEW st \in TcpState
    PROVE  QueueConnectMessage([w EXCEPT !.t.state = st]) =
              WithEnd(w, QueuedEnd(w.t, st, 1, <<CTL_CONNECT>>, TRUE))
<1> DEFINE units == <<CTL_CONNECT>>
           ctrl == TRUE
           t == w.t
           t1 == [t EXCEPT !.state = st, !.snd_wnd = 1]
           v == InState(w, st, 1)
           c == Queued(Snd(t), Len(units), ctrl)
           b == t.sbuf \o units
<1>0. t \in Tcb
  BY DEF Handler
<1>1. /\ t1 \in Tcb /\ t1.state = st /\ t1.snd_wnd = 1 /\ t1.slist = t.slist
      /\ t1.sbuf = t.sbuf /\ t1.snd_una = t.snd_una
  <2> HIDE DEF t
  <2> QED BY <1>0 DEF Tcb
<1>2. [[w EXCEPT !.t.state = st] EXCEPT !.t.snd_wnd = 1] = v
  BY <1>0 DEF Handler, WithEnd, InState
<1>3. v \in Handler /\ v.t = t1
  <2>1. v = WithEnd(w, t1)
    BY DEF InState
  <2> HIDE DEF t1, v
  <2> QED BY <1>1, <2>1, WithEndIs
<1>4. QueueConnectMessage([w EXCEPT !.t.state = st]) = Queue(v, units, ctrl)
  BY <1>2 DEF QueueConnectMessage
<1> HIDE DEF units, ctrl, v
<1>5. Queue(v, units, ctrl) =
         WithEnd(v, QueuedEnd(v.t, v.t.state, v.t.snd_wnd, units, ctrl))
  BY <1>3, QueueIs
<1>6. Queued(Snd(v.t), Len(units), ctrl) = c
  <2>1. /\ Snd(v.t).slist = Snd(t).slist /\ Snd(v.t).una = Snd(t).una
        /\ Snd(v.t).sbuf = Snd(t).sbuf
    BY <1>1, <1>3 DEF Snd
  <2> QED BY <2>1 DEF Queued
<1>7. QueuedEnd(v.t, v.t.state, v.t.snd_wnd, units, ctrl) =
         [t1 EXCEPT !.state = st, !.snd_wnd = 1, !.sbuf = b, !.slist = c]
  <2>1. v.t.state = st /\ v.t.snd_wnd = 1 /\ v.t.sbuf = t.sbuf /\ v.t = t1
    BY <1>1, <1>3
  <2> HIDE DEF c, t1
  <2> QED BY <1>6, <2>1 DEF QueuedEnd
<1>8. QueuedEnd(t, st, 1, units, ctrl) =
         [t EXCEPT !.state = st, !.snd_wnd = 1, !.sbuf = b, !.slist = c]
  BY DEF QueuedEnd
<1> HIDE DEF b, c
<1>9. [t1 EXCEPT !.state = st, !.snd_wnd = 1, !.sbuf = b, !.slist = c] =
      [t EXCEPT !.state = st, !.snd_wnd = 1, !.sbuf = b, !.slist = c]
  <2> HIDE DEF t
  <2> QED BY <1>0 DEF Tcb
<1>10. WithEnd(v, QueuedEnd(v.t, v.t.state, v.t.snd_wnd, units, ctrl)) =
       WithEnd(w, QueuedEnd(t, st, 1, units, ctrl))
  <2> DEFINE q == QueuedEnd(t, st, 1, units, ctrl)
  <2>1. QueuedEnd(v.t, v.t.state, v.t.snd_wnd, units, ctrl) = q
    BY <1>7, <1>8, <1>9
  <2> HIDE DEF q
  <2>2. WithEnd(v, q) = WithEnd(w, q)
    BY DEF WithEnd, v, InState, Handler
  <2> QED BY <2>1, <2>2 DEF q
<1> QED BY <1>4, <1>5, <1>10 DEF units, ctrl
\* An end that listens has no stream yet; the CONNECT message fits the window of
\* every peer.
LEMMA ConnectWorks ==
    ASSUME NEW w, NEW u, NEW N, NEW B, NEW wr, NEW d, Works(w, u, N, B, wr, d),
           w.t.state = "TCP_LISTEN", NEW st \in {"TCP_SYN_SENT", "TCP_SYN_RECEIVED"},
           GoodReceiver(Rcv(u)), NEW a
    PROVE  LET v == QueueConnectMessage([w EXCEPT !.t.state = st])
           IN  /\ Works(v, u, N, B, wr, d) /\ v.t.shutdown = w.t.shutdown
               /\ v.t.state = st
<1> DEFINE units == <<CTL_CONNECT>>
           ctrl == TRUE
           one == 1
           t2 == QueuedEnd(w.t, st, one, units, ctrl)
           v == WithEnd(w, t2)
<1>0. /\ w \in Handler /\ w.t \in Tcb /\ u \in Tcb /\ wr \in Nat
      /\ GoodSender(Snd(w.t)) /\ Life(w.t, wr)
  BY WorksFacts DEF Works
<1>1. w.t.snd_una = 0 /\ w.t.sbuf = <<>> /\ wr = 0
  BY <1>0, EndTypes DEF Life
<1>2. /\ units \in Seq(Nat) /\ Len(units) = 1 /\ DOMAIN units = {1} /\ units[1] = 0
      /\ ctrl \in BOOLEAN /\ ctrl = TRUE /\ one \in Nat /\ one = 1
  BY DEF CTL_CONNECT
<1>3. st \in TcpState
  BY DEF TcpState
<1>4. QueueConnectMessage([w EXCEPT !.t.state = st]) = v
  BY <1>0, <1>3, QueueConnectIs
<1> HIDE DEF units, ctrl, one
<1>5. Follow(Snd(w.t), units, ctrl)
  <2>1. Snd(w.t).una = 0 /\ Snd(w.t).sbuf = <<>>
    BY <1>1 DEF Snd
  <2>2. Snd(w.t).una + Len(Snd(w.t).sbuf) = 0
    BY <2>1
  <2>3. \A i \in DOMAIN units : units[i] = 0 + i - 1
    BY <1>2
  <2> QED BY <1>2, <2>2, <2>3 DEF Follow
<1>6. /\ t2 \in Tcb /\ Unqueued(w.t, t2) /\ t2.state = st
      /\ t2.snd_una = w.t.snd_una /\ Len(t2.sbuf) = Len(w.t.sbuf) + Len(units)
  <2> DEFINE t == w.t
  <2>1. t \in Tcb /\ GoodSender(Snd(t)) /\ Follow(Snd(t), units, ctrl)
    BY <1>0, <1>5
  <2> HIDE DEF t
  <2>2. LET x == QueuedEnd(t, st, one, units, ctrl)
        IN  /\ x \in Tcb /\ Unqueued(t, x) /\ x.state = st
            /\ x.snd_una = t.snd_una /\ Len(x.sbuf) = Len(t.sbuf) + Len(units)
    <3>1. one \in Nat
      BY <1>2
    <3> QED BY ONLY <3>1, <1>3, <2>1, QueuedEndIs
  <2> QED BY <2>2 DEF t
<1>7. w.t.snd_una + one <= u.rcv_nxt + u.rcv_wnd
  <2>1. RcvBuf <= u.rcv_nxt + u.rcv_wnd
    BY <1>0, Halves DEF GoodReceiver
  <2>2. u.rcv_nxt \in Nat /\ u.rcv_wnd \in Nat
    BY <1>0, EndTypes
  <2>3. RcvBuf \in Nat /\ RcvBuf > 0
    BY PseudoTcpAssumption
  <2> QED BY <1>1, <1>2, <2>1, <2>2, <2>3
<1>8. Len(w.t.sbuf) + Len(units) <= SndBuf
  BY <1>1, <1>2, PseudoTcpAssumption
<1>9. Life(t2, wr)
  <2> HIDE DEF t2
  <2>0. Len(w.t.sbuf) = 0
    BY <1>1
  <2>1. t2.snd_una + Len(t2.sbuf) = wr + 1
    BY <1>1, <1>2, <1>6, <2>0
  <2> QED BY <1>6, <2>1 DEF Life
<1>10. Works(v, u, N, B, wr, d)
  BY <1>0, <1>2, <1>3, <1>5, <1>7, <1>8, <1>9, QueuedWorks
<1> HIDE DEF t2
<1>11. v.t = t2
  BY <1>0, <1>6, WithEndIs
<1> HIDE DEF v
<1> QED BY <1>4, <1>6, <1>10, <1>11 DEF Unqueued

\* The CONNECT message of the peer.
LEMMA TakeConnectWorks ==
    ASSUME NEW w, NEW u, NEW N, NEW B, NEW wr, NEW d, Works(w, u, N, B, wr, d),
           NEW m, GoodReceiver(Rcv(u)), NEW a, HeardSoFar(w, a)
    PROVE  LET v == TakeConnect(w, m)
           IN  /\ Works(v, u, N, B, wr, d) /\ v.t.shutdown = w.t.shutdown
               /\ HeardSoFar(v, a)
               /\ w.t.state # "TCP_CLOSED" => v.t.state # "TCP_CLOSED"
<1> DEFINE x == QueueConnectMessage([w EXCEPT !.t.state = "TCP_SYN_RECEIVED"])
<1>1. CASE m.ctrl /\ w.t.state = "TCP_LISTEN"
  <2> DEFINE st == "TCP_SYN_RECEIVED"
             y == QueueConnectMessage([w EXCEPT !.t.state = st])
  <2>1. st \in {"TCP_SYN_SENT", "TCP_SYN_RECEIVED"} /\ st = "TCP_SYN_RECEIVED"
    OBVIOUS
  <2>2. y = x
    OBVIOUS
  <2>3. TakeConnect(w, m) = x
    BY <1>1 DEF TakeConnect
  <2> HIDE DEF st
  <2>4. Works(y, u, N, B, wr, d) /\ y.t.shutdown = w.t.shutdown /\ y.t.state = st
    BY <1>1, <2>1, ConnectWorks
  <2> HIDE DEF x, y
  <2> QED BY <2>1, <2>2, <2>3, <2>4 DEF HeardSoFar
<1>2. CASE m.ctrl /\ w.t.state = "TCP_SYN_SENT"
  <2>1. TakeConnect(w, m) = Open(w)
    BY <1>2 DEF TakeConnect
  <2>2. LET v == Open(w)
        IN  /\ Works(v, u, N, B, wr, d) /\ v.t.shutdown = w.t.shutdown
            /\ v.t.state = "TCP_ESTABLISHED" /\ HeardSoFar(v, a)
    <3>1. w.t.state \in Connecting
      BY <1>2 DEF Connecting
    <3> QED BY <3>1, OpenWorks
  <2> QED BY <2>1, <2>2
<1>3. CASE ~(m.ctrl /\ w.t.state = "TCP_LISTEN") /\ ~(m.ctrl /\ w.t.state = "TCP_SYN_SENT")
  <2>1. TakeConnect(w, m) = w
    BY <1>3 DEF TakeConnect
  <2> QED BY <2>1
<1> QED BY <1>1, <1>2, <1>3

\* The end whose units below ack were acknowledged, with the window of the peer.
AckedEnd(t, ack, wnd) ==
    [t EXCEPT !.snd_wnd = wnd, !.snd_una = ack, !.rto_base = (ack # t.snd_nxt),
              !.sbuf = SubSeq(t.sbuf, ack - t.snd_una + 1, Len(t.sbuf)),
              !.slist = RemoveAcked(t.slist, ack - t.snd_una)]

\* What an acknowledgement leaves alone.
Unacked(t, t2) ==
    /\ t2.state = t.state /\ t2.shutdown = t.shutdown /\ Rcv(t2) = Rcv(t)
    /\ t2.recover = t.recover /\ t2.mss = t.mss /\ t2.msslevel = t.msslevel
    /\ t2.read_enable = t.read_enable /\ t2.write_enable = t.write_enable
    /\ t2.dup_acks = t.dup_acks /\ t2.snd_nxt = t.snd_nxt

\* Sender and segments of such an end.
LEMMA AckedEndIs ==
    ASSUME NEW t \in Tcb, GoodSender(Snd(t)), NEW ack \in Nat, NEW wnd \in Nat,
           t.snd_una < ack, Reached(Snd(t), ack)
    PROVE  LET t2 == AckedEnd(t, ack, wnd)
           IN  /\ t2 \in Tcb /\ GoodSender(Snd(t2)) /\ Keeps(Snd(t), Snd(t2))
               /\ Unacked(t, t2) /\ t2.snd_wnd = wnd /\ t2.snd_una = ack
               /\ t2.rto_base = (ack # t.snd_nxt)
               /\ t2.snd_una + Len(t2.sbuf) = t.snd_una + Len(t.sbuf)
<1> DEFINE s == Snd(t)
           c == RemoveAcked(s.slist, ack - s.una)
           b == SubSeq(s.sbuf, ack - s.una + 1, Len(s.sbuf))
           rb == (ack # t.snd_nxt)
           t1 == [t EXCEPT !.snd_wnd = wnd, !.snd_una = ack]
           t2 == [t1 EXCEPT !.rto_base = rb, !.sbuf = b, !.slist = c]
           s2 == [s EXCEPT !.slist = RemoveAcked(s.slist, ack - s.una),
                           !.sbuf = SubSeq(s.sbuf, ack - s.una + 1, Len(s.sbuf)),
                           !.una = ack, !.wnd = wnd]
<1>0. /\ s \in Sender /\ s.slist = t.slist /\ s.sbuf = t.sbuf /\ s.una = t.snd_una
      /\ s.nxt = t.snd_nxt /\ s.wnd = t.snd_wnd
  BY Halves
<1>r. rb \in BOOLEAN
  OBVIOUS
<1>a. t2 = AckedEnd(t, ack, wnd)
  BY <1>0 DEF AckedEnd
<1> HIDE DEF s
<1>1. /\ s2 \in Sender /\ GoodSender(s2) /\ Keeps(s, s2)
      /\ s2.una + Len(s2.sbuf) = s.una + Len(s.sbuf)
  <2>1. GoodSender(s) /\ s.una < ack /\ Reached(s, ack)
    BY <1>0 DEF s
  <2> QED BY ONLY <1>0, <2>1, ack \in Nat, wnd \in Nat, AckKeepsSender
<1>2. s2.slist = c /\ s2.sbuf = b /\ s2.una = ack /\ s2.nxt = s.nxt /\ s2.wnd = wnd
  <2> HIDE DEF c, b
  <2> QED BY <1>0 DEF Sender, c, b
<1> HIDE DEF s2
<1>3. c \in Seq(Segment) /\ b \in Seq(Nat)
  BY <1>1, <1>2, SegmentTypes
<1> HIDE DEF c, b, rb
<1>4. /\ t1 \in Tcb /\ t1.snd_wnd = wnd /\ t1.snd_una = ack /\ Rcv(t1) = Rcv(t)
      /\ t1.state = t.state /\ t1.shutdown = t.shutdown
      /\ t1.recover = t.recover /\ t1.mss = t.mss /\ t1.msslevel = t.msslevel
      /\ t1.read_enable = t.read_enable /\ t1.write_enable = t.write_enable
      /\ t1.dup_acks = t.dup_acks /\ t1.snd_nxt = t.snd_nxt
  BY DEF Tcb, Rcv
<1> HIDE DEF t1
<1>5. /\ t2 \in Tcb /\ t2.snd_wnd = t1.snd_wnd /\ t2.snd_una = t1.snd_una
      /\ t2.rto_base = rb /\ t2.sbuf = b /\ t2.slist = c
      /\ t2.state = t1.state /\ t2.shutdown = t1.shutdown
      /\ t2.recover = t1.recover /\ t2.mss = t1.mss /\ t2.msslevel = t1.msslevel
      /\ t2.read_enable = t1.read_enable /\ t2.write_enable = t1.write_enable
      /\ t2.dup_acks = t1.dup_acks /\ t2.snd_nxt = t1.snd_nxt
  BY <1>r, <1>3, <1>4 DEF Tcb
<1>6. Rcv(t2) = Rcv(t1)
  BY <1>4 DEF Tcb, Rcv
<1> HIDE DEF t2
<1>7. Unacked(t, t2)
  BY <1>4, <1>5, <1>6 DEF Unacked
<1>8. Snd(t2) = s2
  <2>1. Snd(t2) \in Sender
    BY <1>5, Halves
  <2>2. /\ Snd(t2).slist = c /\ Snd(t2).sbuf = b /\ Snd(t2).una = ack
        /\ Snd(t2).nxt = s.nxt /\ Snd(t2).wnd = wnd
    BY <1>0, <1>4, <1>5 DEF Snd
  <2> DEFINE x == Snd(t2)
  <2> HIDE DEF x
  <2>3. x = s2
    BY <1>1, <1>2, <2>1, <2>2 DEF Sender, x
  <2> QED BY <2>3 DEF x
<1>9. t2.snd_una + Len(t2.sbuf) = t.snd_una + Len(t.sbuf)
  BY <1>0, <1>1, <1>2, <1>4, <1>5
<1> QED BY <1>a, <1>1, <1>4, <1>5, <1>7, <1>8, <1>9 DEF s, rb
\* A packet on the way to the end of a handler.
LEMMA ArrivingIs ==
    ASSUME NEW w, NEW u, NEW N, NEW B, NEW wr, NEW d, Works(w, u, N, B, wr, d), NEW m \in B
    PROVE  /\ m \in Message /\ GoodAck(Snd(w.t), Rcv(u), m) /\ GoodPacket(Snd(u), m)
           /\ m.ack \in Nat /\ m.wnd \in Nat /\ m.seq \in Int /\ m.data \in Seq(Nat)
           /\ m.ctrl \in BOOLEAN
<1>1. m \in Message
  BY DEF Works
<1>2. GoodAck(Snd(w.t), Rcv(u), m) /\ GoodPacket(Snd(u), m)
  BY DEF Works, GoodHandler, Flow
<1> QED BY <1>1, <1>2 DEF Message

\* What is acknowledged is taken out of the buffer and the segments.
LEMMA AckedWorks ==
    ASSUME NEW w, NEW u, NEW N, NEW B, NEW wr, NEW d, Works(w, u, N, B, wr, d), NEW m \in B,
           m.ack > w.t.snd_una, m.ack <= w.t.snd_nxt
    PROVE  LET v == Acked(w, m)
           IN  /\ Works(v, u, N, B, wr, d) /\ Alike(w, v)
               /\ v.t.dup_acks = w.t.dup_acks
<1> DEFINE t == w.t
           a == m.ack
           n == m.wnd
           t2 == AckedEnd(t, a, n)
           v == WithEnd(w, t2)
<1>0. /\ w \in Handler /\ t \in Tcb /\ u \in Tcb /\ wr \in Nat
      /\ GoodSender(Snd(t)) /\ Local(t) /\ Life(t, wr)
  BY WorksFacts DEF Works
<1>1. a \in Nat /\ n \in Nat /\ GoodAck(Snd(t), Rcv(u), m) /\ a > t.snd_una /\ a <= t.snd_nxt
  BY ArrivingIs
<1>2. Acked(w, m) = v
  BY <1>0 DEF Acked, WithEnd, AckedEnd, Handler, Tcb
<1>3. /\ Snd(t).una = t.snd_una /\ Snd(t).nxt = t.snd_nxt /\ Snd(t).sbuf = t.sbuf
      /\ Rcv(u).nxt = u.rcv_nxt /\ Rcv(u).wnd = u.rcv_wnd
      /\ Snd(t2).una = t2.snd_una /\ Snd(t2).nxt = t2.snd_nxt /\ Snd(t2).wnd = t2.snd_wnd
  BY DEF Snd, Rcv
<1>4. /\ t.snd_una \in Nat /\ t.snd_nxt \in Nat /\ Len(t.sbuf) \in Nat
      /\ t.state \in TcpState
  BY <1>0, EndTypes
<1>5. a <= u.rcv_nxt /\ a + n <= u.rcv_nxt + u.rcv_wnd /\ Reached(Snd(t), a)
  BY <1>1, <1>3 DEF GoodAck
<1>6. t.snd_nxt <= u.rcv_nxt + u.rcv_wnd
  BY <1>3 DEF Works, GoodHandler, Flow, Arrives
<1>n. t.snd_nxt <= t.snd_una + Len(t.sbuf)
  BY <1>0, <1>3 DEF GoodSender
<1>e. t.state # "TCP_LISTEN"
  <2> HIDE DEF t, a
  <2>1. ASSUME t.state = "TCP_LISTEN" PROVE t.snd_una = 0 /\ Len(t.sbuf) = 0
    BY <1>0, <2>1 DEF Life
  <2> QED BY <1>1, <1>4, <1>n, <2>1
<1> HIDE DEF t, a, n
<1>7. /\ t2 \in Tcb /\ GoodSender(Snd(t2)) /\ Keeps(Snd(t), Snd(t2))
      /\ Unacked(t, t2) /\ t2.snd_wnd = n /\ t2.snd_una = a
      /\ t2.rto_base = (a # t.snd_nxt)
      /\ t2.snd_una + Len(t2.sbuf) = t.snd_una + Len(t.sbuf)
  <2>1. t.snd_una < a
    BY <1>1, <1>4
  <2> QED BY ONLY <1>0, <1>1, <1>5, <2>1, AckedEndIs
<1> HIDE DEF t2
<1>8. v \in Handler /\ v.t = t2 /\ v.out = w.out /\ v.told = w.told
  BY <1>0, <1>7, WithEndIs
<1>9. Len(t2.sbuf) \in Nat
  BY <1>7, EndTypes
<1>10. Local(t2)
  <2>1. t2.rto_base <=> t2.snd_nxt > t2.snd_una
    <3>1. t2.rto_base <=> (a # t.snd_nxt)
      BY <1>7
    <3>2. t2.snd_nxt = t.snd_nxt /\ t2.snd_una = a
      BY <1>7 DEF Unacked
    <3>3. a # t.snd_nxt <=> t.snd_nxt > a
      BY <1>1, <1>4
    <3> QED BY <3>1, <3>2, <3>3
  <2>2. Len(t2.sbuf) <= SndBuf
    <3>1. Len(t.sbuf) <= SndBuf /\ SndBuf \in Nat
      BY <1>0, PseudoTcpAssumption DEF Local
    <3> QED BY <1>1, <1>4, <1>7, <1>9, <3>1
  <2> QED BY <1>0, <1>7, <2>1, <2>2 DEF Local, Unacked
<1>11. Life(t2, wr)
  <2>1. t2.state = t.state /\ t2.shutdown = t.shutdown
    BY <1>7 DEF Unacked
  <2> QED BY <1>0, <1>7, <1>e, <2>1 DEF Life
<1>12. Forward(Snd(t), Snd(t2), Rcv(u))
  <2>1. t2.snd_nxt = t.snd_nxt
    BY <1>7 DEF Unacked
  <2>2. Snd(t).nxt <= Snd(t2).nxt
    BY <1>3, <1>4, <2>1
  <2> QED BY <1>3, <1>5, <1>6, <1>7, <2>1, <2>2 DEF Forward
<1> HIDE DEF v
<1>13. Works(v, u, N, B, wr, d)
  <2>1. /\ Rcv(v.t) = Rcv(w.t) /\ v.t.shutdown = w.t.shutdown /\ GoodSender(Snd(v.t))
        /\ Forward(Snd(w.t), Snd(v.t), Rcv(u)) /\ Local(v.t) /\ Life(v.t, wr)
    BY <1>7, <1>8, <1>10, <1>11, <1>12 DEF Unacked, t
  <2> QED BY <1>0, <1>8, <2>1, SenderWorks
<1>14. v.t.rbuf = w.t.rbuf
  <2>1. Rcv(t2).rbuf = Rcv(t).rbuf
    BY <1>7 DEF Unacked
  <2> QED BY <1>8, <2>1 DEF Rcv, t
<1>15. Alike(w, v)
  BY <1>7, <1>8, <1>14 DEF Alike, Unacked, t
<1>16. v.t.dup_acks = w.t.dup_acks
  BY <1>7, <1>8 DEF Unacked, t
<1> QED BY <1>2, <1>13, <1>15, <1>16

\* What the end does when its oldest segment is sent again.
Resent(w, v) ==
    /\ Continues(w, v) /\ v.t.rto_base = TRUE /\ v.t.sbuf = w.t.sbuf
    /\ v.t.snd_una < v.t.snd_nxt
    /\ w.t.state # "TCP_CLOSED" /\ v.t.state # "TCP_CLOSED" => Alike(w, v)

\* There is a segment to send again while something is in flight.
LEMMA RetransmitWorks ==
    ASSUME NEW w, NEW u, NEW N, NEW B, NEW wr, NEW d, Works(w, u, N, B, wr, d),
           w.t.snd_una < w.t.snd_nxt, NEW io \in Conditions
    PROVE  Works(Retransmit(w, io), u, N, B, wr, d) /\ Resent(w, Retransmit(w, io))
<1> DEFINE t == w.t
           s == Snd(t)
           one == 1
<1>0. /\ w \in Handler /\ t \in Tcb /\ GoodSender(s) /\ Local(t)
  BY WorksFacts
<1>1. /\ s \in Sender /\ s.slist = t.slist /\ s.sbuf = t.sbuf /\ s.una = t.snd_una
      /\ s.nxt = t.snd_nxt
  BY <1>0, Halves
<1>2. s.una \in Nat /\ s.nxt \in Nat /\ s.slist \in Seq(Segment) /\ Len(s.sbuf) \in Nat
  BY <1>1, SegmentTypes
<1> HIDE DEF s
<1>3. s.slist # <<>>
  <2>1. s.sbuf # <<>>
    BY <1>0, <1>1, <1>2 DEF GoodSender
  <2> QED BY <1>0, <2>1 DEF GoodSender, Segments
<1>4. one \in DOMAIN s.slist /\ s.slist[1].seq = s.una
  BY <1>0, <1>2, <1>3 DEF GoodSender, Segments
<1>5. s.slist[one].xmit # 0
  <2>1. s.slist[one].xmit = 0 => s.nxt <= s.slist[one].seq
    BY <1>0, <1>4 DEF GoodSender, Segments
  <2> QED BY <1>1, <1>2, <1>4, <2>1
<1>6. t.rto_base = TRUE
  <2>1. t.rto_base \in BOOLEAN
    BY <1>0 DEF Tcb
  <2> QED BY <1>0, <2>1 DEF Local
<1>7. CASE CanTransmit(w.t, 1) /\ io.resent /\ Fits(w.t, 1)
  <2>1. Retransmit(w, io) = Transmit(w, one)
    BY <1>7 DEF Retransmit
  <2>2. one \in DOMAIN w.t.slist /\ w.t.slist[one].xmit # 0 /\ Fits(w.t, one)
    BY <1>1, <1>4, <1>5, <1>7
  <2> HIDE DEF one
  <2>3. LET v == Transmit(w, one)
        IN  /\ v \in Handler /\ GoodHandler(v, u, N, B, wr, d) /\ Sends(w, v)
            /\ v.t.rto_base = TRUE /\ v.t.snd_una < v.t.snd_nxt
    BY <2>2, TransmitFacts DEF Works
  <2> DEFINE v == Transmit(w, one)
  <2>4. Alike(w, v) /\ v.t.sbuf = w.t.sbuf
    BY <2>3, SendsAlike DEF Sends
  <2> HIDE DEF v
  <2>5. Resent(w, v)
    BY <2>3, <2>4 DEF Resent, Continues, Alike, v
  <2>6. Works(v, u, N, B, wr, d)
    BY <2>3 DEF Works, v
  <2> QED BY <2>1, <2>5, <2>6 DEF v
<1>8. CASE ~(CanTransmit(w.t, 1) /\ io.resent /\ Fits(w.t, 1))
  <2> DEFINE v == Closedown(w)
  <2>1. Retransmit(w, io) = v
    BY <1>8 DEF Retransmit
  <2>2. /\ Works(v, u, N, B, wr, d) /\ v.t.state = "TCP_CLOSED"
        /\ v.t.shutdown = w.t.shutdown /\ v.t.rto_base = w.t.rto_base
        /\ v.t.sbuf = w.t.sbuf
        /\ v.t.snd_una = w.t.snd_una /\ v.t.snd_nxt = w.t.snd_nxt
    BY ClosedownWorks
  <2> HIDE DEF v
  <2> QED BY <1>6, <2>1, <2>2 DEF Resent, Continues
<1> QED BY <1>7, <1>8

\* What a handler leaves that took an acknowledgement: a good end, which does not
\* stall if it has just been closed.
TookAck(w, v, u, N, B, wr, d) ==
    /\ Works(v, u, N, B, wr, d) /\ Continues(w, v)
    /\ v.t.state = "TCP_CLOSED" => w.t.state = "TCP_CLOSED" \/ Running(v.t)

\* An acknowledgement of new units.
LEMMA ValuableAckWorks ==
    ASSUME NEW w, NEW u, NEW N, NEW B, NEW wr, NEW d, Works(w, u, N, B, wr, d), NEW m \in B,
           m.ack > w.t.snd_una, m.ack <= w.t.snd_nxt, w.t.state # "TCP_CLOSED", NEW io \in Conditions
    PROVE  TookAck(w, ValuableAck(w, m, io), u, N, B, wr, d)
<1> DEFINE a == Acked(w, m)
           r == Retransmit(a, io)
           n == m.ack - w.t.snd_una
           zero == 0
           c1 == Grow(a.t)
           c2 == MinOf(a.t.ssthresh, InFlight(a.t) + a.t.mss)
           c3 == Capped(r.t.cwnd + r.t.mss - MinOf(n, r.t.cwnd))
           x1 == SetSame(a, c1, a.t.ssthresh, zero, a.t.recover)
           x2 == SetSame(a, c2, a.t.ssthresh, zero, a.t.recover)
           x3 == SetSame(r, c3, r.t.ssthresh, r.t.dup_acks, r.t.recover)
<1>1. Works(a, u, N, B, wr, d) /\ Alike(w, a)
  BY AckedWorks
<1>2. n \in Nat
  <2>1. m.ack \in Nat /\ w.t \in Tcb
    BY ArrivingIs, WorksFacts
  <2>2. w.t.snd_una \in Nat
    BY <2>1, EndTypes
  <2> QED BY <2>1, <2>2
<1>3. a.t.state # "TCP_CLOSED" /\ Continues(w, a)
  BY <1>1 DEF Alike, Continues
<1>d. /\ ValuableAck(w, m, io) =
            IF a.t.dup_acks < 3 THEN [a EXCEPT !.t.dup_acks = zero, !.t.cwnd = c1]
            ELSE IF a.t.snd_una >= a.t.recover
            THEN [a EXCEPT !.t.dup_acks = zero, !.t.cwnd = c2]
            ELSE IF r.t.state = "TCP_CLOSED" THEN r
            ELSE [r EXCEPT !.t.cwnd = Capped(@ + r.t.mss - MinOf(n, @))]
  BY DEF ValuableAck
<1> HIDE DEF a, n, c1, c2, zero
<1>4. /\ a \in Handler /\ a.t \in Tcb /\ Local(a.t) /\ GoodSender(Snd(a.t))
  BY <1>1, WorksFacts
<1>5. /\ a.t.dup_acks \in 0 .. 4 /\ a.t.snd_una \in Nat /\ a.t.snd_nxt \in Nat
      /\ a.t.recover \in Nat /\ a.t.ssthresh \in Positive
  BY <1>4, EndTypes DEF Positive
<1>6. a.t.snd_una <= a.t.snd_nxt /\ a.t.recover <= a.t.snd_nxt
  BY <1>4, Halves DEF GoodSender, Local
<1>7. c1 \in Positive /\ c2 \in Positive /\ zero \in 0 .. 4
  BY <1>2, <1>4, <1>6, WindowFacts DEF c1, c2, zero
<1>8. CASE a.t.dup_acks < 3
  <2>1. [a EXCEPT !.t.dup_acks = zero, !.t.cwnd = c1] = x1
    BY <1>4, ZenonT(60) DEF Handler, Tcb, SetSame, WithEnd, Set
  <2>2. ValuableAck(w, m, io) = x1
    BY <1>d, <1>8, <2>1
  <2>3. Works(x1, u, N, B, wr, d) /\ Alike(a, x1)
    BY <1>1, <1>5, <1>6, <1>7, SetSameWorks
  <2> HIDE DEF x1
  <2> QED BY <1>1, <1>3, <2>2, <2>3 DEF TookAck, Alike, Continues
<1>9. CASE ~(a.t.dup_acks < 3) /\ a.t.snd_una >= a.t.recover
  <2>1. [a EXCEPT !.t.dup_acks = zero, !.t.cwnd = c2] = x2
    BY <1>4 DEF Handler, Tcb, SetSame, WithEnd, Set
  <2>2. ValuableAck(w, m, io) = x2
    BY <1>d, <1>9, <2>1
  <2>3. Works(x2, u, N, B, wr, d) /\ Alike(a, x2)
    BY <1>1, <1>5, <1>6, <1>7, SetSameWorks
  <2> HIDE DEF x2
  <2> QED BY <1>1, <1>3, <2>2, <2>3 DEF TookAck, Alike, Continues
<1>10. CASE ~(a.t.dup_acks < 3) /\ ~(a.t.snd_una >= a.t.recover)
  <2>1. a.t.snd_una < a.t.snd_nxt
    BY <1>5, <1>6, <1>10
  <2>2. Works(r, u, N, B, wr, d) /\ Resent(a, r)
    BY <1>1, <2>1, RetransmitWorks
  <2>s. ValuableAck(w, m, io) = IF r.t.state = "TCP_CLOSED" THEN r
                            ELSE [r EXCEPT !.t.cwnd = Capped(@ + r.t.mss - MinOf(n, @))]
    BY <1>d, <1>10
  <2> HIDE DEF r
  <2>3. Continues(w, r)
    BY <1>1, <2>2, ContinuesOn DEF Resent
  <2>4. CASE r.t.state = "TCP_CLOSED"
    <3>1. ValuableAck(w, m, io) = r
      BY <2>s, <2>4
    <3> QED BY <2>2, <2>3, <3>1 DEF TookAck, Resent, Running
  <2>5. CASE r.t.state # "TCP_CLOSED"
    <3>1. /\ r \in Handler /\ r.t \in Tcb /\ Local(r.t) /\ GoodSender(Snd(r.t))
      BY <2>2, WorksFacts
    <3>2. /\ r.t.dup_acks \in 0 .. 4 /\ r.t.recover \in Nat /\ r.t.ssthresh \in Positive
      BY <3>1, EndTypes DEF Positive
    <3>3. r.t.snd_una <= r.t.snd_nxt /\ r.t.recover <= r.t.snd_nxt
      BY <3>1, Halves DEF GoodSender, Local
    <3>4. c3 \in Positive
      BY <1>2, <3>1, <3>3, WindowFacts
    <3>5. ValuableAck(w, m, io) = [r EXCEPT !.t.cwnd = c3]
      BY <2>s, <2>5
    <3> HIDE DEF c3
    <3>6. [r EXCEPT !.t.cwnd = c3] = x3
      BY <3>1 DEF Handler, Tcb, SetSame, WithEnd, Set
    <3>7. Works(x3, u, N, B, wr, d) /\ Alike(r, x3)
      BY <2>2, <3>2, <3>3, <3>4, SetSameWorks
    <3> HIDE DEF x3
    <3>8. Alike(a, r)
      BY <1>3, <2>2, <2>5 DEF Resent
    <3>9. Alike(w, x3) /\ x3.t.state # "TCP_CLOSED"
      BY <1>1, <3>7, <3>8, <2>5 DEF Alike
    <3> QED BY <3>5, <3>6, <3>7, <3>9 DEF TookAck, Continues, Alike
  <2> QED BY <2>4, <2>5
<1> QED BY <1>8, <1>9, <1>10

\* The end with a new window of the peer.
WindowEnd(t, n) == [t EXCEPT !.snd_wnd = n]

\* A repeated acknowledgement tells the window.
LEMMA WindowWorks ==
    ASSUME NEW w, NEW u, NEW N, NEW B, NEW wr, NEW d, Works(w, u, N, B, wr, d), NEW m \in B,
           m.ack = w.t.snd_una
    PROVE  LET v == WithEnd(w, WindowEnd(w.t, m.wnd))
           IN  /\ Works(v, u, N, B, wr, d) /\ Alike(w, v)
               /\ v.t.snd_una = w.t.snd_una /\ v.t.snd_nxt = w.t.snd_nxt
               /\ v.t.dup_acks = w.t.dup_acks
<1> DEFINE t == w.t
           n == m.wnd
           t2 == WindowEnd(t, n)
           v == WithEnd(w, t2)
<1>0. /\ w \in Handler /\ t \in Tcb /\ u \in Tcb /\ wr \in Nat
      /\ GoodSender(Snd(t)) /\ Local(t) /\ Life(t, wr)
  BY WorksFacts DEF Works
<1>1. n \in Nat /\ GoodAck(Snd(t), Rcv(u), m)
  BY ArrivingIs
<1>2. t.snd_una + n <= u.rcv_nxt + u.rcv_wnd
  <2>1. Rcv(u).nxt = u.rcv_nxt /\ Rcv(u).wnd = u.rcv_wnd
    BY DEF Rcv
  <2> QED BY <1>1, <2>1 DEF GoodAck
<1>3. Arrives(Snd(t), Rcv(u))
  BY DEF Works, GoodHandler, Flow
<1> HIDE DEF t, n
<1>4. /\ t2 \in Tcb /\ t2.snd_wnd = n /\ t2.state = t.state /\ t2.shutdown = t.shutdown
      /\ t2.slist = t.slist /\ t2.sbuf = t.sbuf /\ t2.snd_una = t.snd_una
      /\ t2.snd_nxt = t.snd_nxt /\ t2.rto_base = t.rto_base /\ t2.recover = t.recover
      /\ t2.mss = t.mss /\ t2.msslevel = t.msslevel /\ t2.dup_acks = t.dup_acks
      /\ t2.read_enable = t.read_enable /\ t2.write_enable = t.write_enable
      /\ t2.rbuf = t.rbuf /\ Rcv(t2) = Rcv(t)
  BY <1>0, <1>1 DEF WindowEnd, Tcb, Rcv
<1> HIDE DEF t2
<1>5. v \in Handler /\ v.t = t2 /\ v.out = w.out /\ v.told = w.told
  BY <1>0, <1>4, WithEndIs
<1> DEFINE s == Snd(t)
           s2 == Snd(t2)
<1>6. /\ s \in Sender /\ s.slist = t.slist /\ s.sbuf = t.sbuf /\ s.una = t.snd_una
      /\ s.nxt = t.snd_nxt
      /\ s2 \in Sender /\ s2.slist = t.slist /\ s2.sbuf = t.sbuf /\ s2.una = t.snd_una
      /\ s2.nxt = t.snd_nxt /\ s2.wnd = n
  BY <1>0, <1>4, Halves
<1>7. GoodSender(s)
  BY <1>0
<1> HIDE DEF s, s2
<1>8. GoodSender(s2) /\ Keeps(s, s2)
  <2>1. Segments(s2)
    BY <1>6, <1>7 DEF GoodSender, Segments
  <2>2. GoodSender(s2)
    BY <1>6, <1>7, <2>1 DEF GoodSender
  <2> QED BY <1>6, <2>2 DEF Keeps, Reached
<1>9. Forward(s, s2, Rcv(u))
  <2>1. s.nxt \in Nat
    BY <1>6, SegmentTypes
  <2>2. s2.una + s2.wnd <= Rcv(u).nxt + Rcv(u).wnd
    BY <1>2, <1>6 DEF Rcv
  <2>3. s.una <= Rcv(u).nxt /\ s.nxt <= Rcv(u).nxt + Rcv(u).wnd
    BY <1>3 DEF Arrives, s
  <2> QED BY <1>6, <1>8, <2>1, <2>2, <2>3 DEF Forward
<1>10. Local(t2) /\ Life(t2, wr)
  BY <1>0, <1>4 DEF Local, Life
<1> HIDE DEF v
<1>11. Works(v, u, N, B, wr, d)
  <2>1. /\ Rcv(v.t) = Rcv(w.t) /\ v.t.shutdown = w.t.shutdown /\ GoodSender(Snd(v.t))
        /\ Forward(Snd(w.t), Snd(v.t), Rcv(u)) /\ Local(v.t) /\ Life(v.t, wr)
    BY <1>4, <1>5, <1>8, <1>9, <1>10 DEF t, s, s2
  <2> QED BY <1>0, <1>5, <2>1, SenderWorks
<1> QED BY <1>4, <1>5, <1>11 DEF Alike, t, n, v, t2

\* A repeated acknowledgement.
LEMMA DuplicateAckWorks ==
    ASSUME NEW w, NEW u, NEW N, NEW B, NEW wr, NEW d, Works(w, u, N, B, wr, d), NEW m \in B,
           m.ack = w.t.snd_una, w.t.state # "TCP_CLOSED", NEW io \in Conditions
    PROVE  TookAck(w, DuplicateAck(w, m, io), u, N, B, wr, d)
<1> DEFINE a == WithEnd(w, WindowEnd(w.t, m.wnd))
           more == MinOf(a.t.dup_acks + 1, 4)
           c == SetSame(a, a.t.cwnd, a.t.ssthresh, more, a.t.recover)
           r == Retransmit(c, io)
           zero == 0
           x0 == SetSame(a, a.t.cwnd, a.t.ssthresh, zero, a.t.recover)
           wide == Capped(c.t.cwnd + c.t.mss)
           x1 == SetSame(c, wide, c.t.ssthresh, c.t.dup_acks, c.t.recover)
           half == HalfInFlight(r.t)
           three == Capped(half + 3 * r.t.mss)
           x2 == SetSame(r, three, half, r.t.dup_acks, r.t.snd_nxt)
<1>0. w \in Handler /\ w.t \in Tcb
  BY WorksFacts
<1>1. /\ Works(a, u, N, B, wr, d) /\ Alike(w, a)
      /\ a.t.snd_una = w.t.snd_una /\ a.t.snd_nxt = w.t.snd_nxt
  BY WindowWorks
<1>2. [w EXCEPT !.t.snd_wnd = m.wnd] = a
  BY <1>0 DEF Handler, Tcb, WithEnd, WindowEnd
<1>3. DuplicateAck(w, m, io) = IF m.data # <<>> THEN a ELSE CountDuplicate(a, io)
  <2> HIDE DEF a
  <2> QED BY <1>2 DEF DuplicateAck
<1>d. CountDuplicate(a, io) =
         LET k == [a EXCEPT !.t.dup_acks = MinOf(@ + 1, 4)]
             q == Retransmit(k, io)
         IN  IF InFlight(a.t) = 0 THEN [a EXCEPT !.t.dup_acks = 0]
             ELSE IF k.t.dup_acks < 3 THEN k
             ELSE IF k.t.dup_acks > 3 THEN [k EXCEPT !.t.cwnd = Capped(@ + k.t.mss)]
             ELSE IF q.t.state = "TCP_CLOSED" THEN q
             ELSE [q EXCEPT !.t.recover = q.t.snd_nxt,
                            !.t.ssthresh = HalfInFlight(q.t),
                            !.t.cwnd = Capped(HalfInFlight(q.t) + 3 * q.t.mss)]
  <2> HIDE DEF a
  <2> QED BY DEF CountDuplicate
<1> HIDE DEF a
<1>4. /\ a \in Handler /\ a.t \in Tcb /\ Local(a.t) /\ GoodSender(Snd(a.t))
  BY <1>1, WorksFacts
<1>5. /\ a.t.dup_acks \in 0 .. 4 /\ a.t.snd_una \in Nat /\ a.t.snd_nxt \in Nat
      /\ a.t.recover \in Nat /\ a.t.ssthresh \in Positive /\ a.t.cwnd \in Positive
  BY <1>4, EndTypes DEF Positive
<1>6. a.t.snd_una <= a.t.snd_nxt /\ a.t.recover <= a.t.snd_nxt
  BY <1>4, Halves DEF GoodSender, Local
<1>7. more \in 0 .. 4 /\ zero \in 0 .. 4
  BY <1>5 DEF MinOf
<1>8. /\ [a EXCEPT !.t.dup_acks = MinOf(@ + 1, 4)] = c
      /\ [a EXCEPT !.t.dup_acks = 0] = x0
  <2>1. [a EXCEPT !.t.dup_acks = more] = c
    <3> HIDE DEF more
    <3> QED BY <1>4 DEF Handler, Tcb, SetSame, WithEnd, Set
  <2>2. [a EXCEPT !.t.dup_acks = zero] = x0
    <3> HIDE DEF zero
    <3> QED BY <1>4 DEF Handler, Tcb, SetSame, WithEnd, Set
  <2> HIDE DEF c, x0
  <2> QED BY <2>1, <2>2
<1> HIDE DEF zero, more
<1>9. Works(x0, u, N, B, wr, d) /\ Alike(a, x0)
  BY <1>1, <1>5, <1>6, <1>7, SetSameWorks, ZenonT(60)
<1>10. /\ Works(c, u, N, B, wr, d) /\ Alike(a, c) /\ c.t.snd_una = a.t.snd_una
       /\ c.t.snd_nxt = a.t.snd_nxt
  <2>1. Works(a, u, N, B, wr, d)
    BY <1>1
  <2> DEFINE cw == a.t.cwnd
             ss == a.t.ssthresh
             rec == a.t.recover
  <2>2. /\ cw \in Positive /\ ss \in Positive /\ more \in 0 .. 4 /\ rec \in Nat
        /\ rec <= a.t.snd_nxt
    BY <1>5, <1>6, <1>7
  <2> HIDE DEF cw, ss, rec, a
  <2>3. LET v == SetSame(a, cw, ss, more, rec)
        IN  /\ Works(v, u, N, B, wr, d) /\ Alike(a, v) /\ v.t.snd_una = a.t.snd_una
            /\ v.t.snd_nxt = a.t.snd_nxt
    <3> DEFINE v == SetSame(a, cw, ss, more, rec)
    <3>1. /\ Works(v, u, N, B, wr, d) /\ Alike(a, v) /\ v.t.dup_acks = more
          /\ v.t.rto_base = a.t.rto_base /\ v.t.sbuf = a.t.sbuf
          /\ v.t.snd_wnd = a.t.snd_wnd /\ v.t.snd_una = a.t.snd_una
          /\ v.t.snd_nxt = a.t.snd_nxt /\ v.t.recover = rec /\ v.out = a.out
      BY ONLY <2>1, <2>2, SetSameWorks, SMTT(60)
    <3> QED BY <3>1
  <2> QED BY <2>3 DEF cw, ss, rec
<1> HIDE DEF c, x0
<1>11. DuplicateAck(w, m, io) =
         IF m.data # <<>> THEN a
         ELSE IF InFlight(a.t) = 0 THEN x0
         ELSE IF c.t.dup_acks < 3 THEN c
         ELSE IF c.t.dup_acks > 3 THEN [c EXCEPT !.t.cwnd = wide]
         ELSE IF r.t.state = "TCP_CLOSED" THEN r
         ELSE [r EXCEPT !.t.recover = r.t.snd_nxt, !.t.ssthresh = half, !.t.cwnd = three]
  BY <1>3, <1>d, <1>8
<1>s. a.t.state # "TCP_CLOSED" /\ c.t.state # "TCP_CLOSED"
  BY <1>1, <1>10 DEF Alike
<1>12. TookAck(w, a, u, N, B, wr, d)
  BY <1>1, <1>s DEF TookAck, Continues, Alike
<1>13. TookAck(w, x0, u, N, B, wr, d)
  BY <1>1, <1>9, <1>s DEF TookAck, Continues, Alike
<1>14. TookAck(w, c, u, N, B, wr, d)
  BY <1>1, <1>10, <1>s DEF TookAck, Continues, Alike
<1>15. TookAck(w, [c EXCEPT !.t.cwnd = wide], u, N, B, wr, d)
  <2>1. /\ c \in Handler /\ c.t \in Tcb /\ Local(c.t) /\ GoodSender(Snd(c.t))
    BY <1>10, WorksFacts
  <2>2. /\ c.t.dup_acks \in 0 .. 4 /\ c.t.recover \in Nat /\ c.t.ssthresh \in Positive
    BY <2>1, EndTypes DEF Positive
  <2>3. c.t.snd_una <= c.t.snd_nxt /\ c.t.recover <= c.t.snd_nxt
    BY <2>1, Halves DEF GoodSender, Local
  <2>4. wide \in Positive
    <3> DEFINE zz == 0
    <3>1. zz \in Nat
      OBVIOUS
    <3> QED BY <2>1, <2>3, <3>1, WindowFacts
  <2> HIDE DEF wide
  <2>5. [c EXCEPT !.t.cwnd = wide] = x1
    BY <2>1 DEF Handler, Tcb, SetSame, WithEnd, Set
  <2>6. Works(x1, u, N, B, wr, d) /\ Alike(c, x1)
    BY <1>10, <2>2, <2>3, <2>4, SetSameWorks, ZenonT(60)
  <2> HIDE DEF x1
  <2>7. Alike(w, x1) /\ x1.t.state # "TCP_CLOSED"
    BY <1>1, <1>10, <1>s, <2>6 DEF Alike
  <2> QED BY <2>5, <2>6, <2>7 DEF TookAck, Continues, Alike
<1>16. ASSUME InFlight(a.t) # 0
       PROVE  /\ r.t.state = "TCP_CLOSED" => TookAck(w, r, u, N, B, wr, d)
              /\ r.t.state # "TCP_CLOSED" =>
                    TookAck(w, [r EXCEPT !.t.recover = r.t.snd_nxt, !.t.ssthresh = half,
                                         !.t.cwnd = three], u, N, B, wr, d)
  <2>1. c.t.snd_una < c.t.snd_nxt
    BY <1>5, <1>6, <1>10, <1>16 DEF InFlight
  <2>2. Works(r, u, N, B, wr, d) /\ Resent(c, r)
    BY <1>10, <2>1, RetransmitWorks
  <2> HIDE DEF r
  <2>3. Alike(w, c)
    BY <1>1, <1>10 DEF Alike
  <2>4. Continues(w, r)
    BY <2>2, <2>3, ContinuesOn DEF Resent
  <2>5. CASE r.t.state = "TCP_CLOSED"
    BY <2>2, <2>4, <2>5 DEF TookAck, Resent, Running
  <2>6. CASE r.t.state # "TCP_CLOSED"
    <3>1. /\ r \in Handler /\ r.t \in Tcb /\ Local(r.t) /\ GoodSender(Snd(r.t))
      BY <2>2, WorksFacts
    <3>2. r.t.dup_acks \in 0 .. 4 /\ r.t.snd_nxt \in Nat
      BY <3>1, EndTypes
    <3>3. r.t.snd_una <= r.t.snd_nxt /\ r.t.snd_nxt <= r.t.snd_nxt
      BY <3>1, <3>2, Halves DEF GoodSender
    <3>4. half \in Positive /\ three \in Positive
      <4> DEFINE zz == 0
      <4>1. zz \in Nat
        OBVIOUS
      <4> QED BY <3>1, <3>3, <4>1, WindowFacts
    <3> HIDE DEF half, three
    <3>5. [r EXCEPT !.t.recover = r.t.snd_nxt, !.t.ssthresh = half, !.t.cwnd = three] = x2
      BY <3>1, ZenonT(60) DEF Handler, Tcb, SetSame, WithEnd, Set
    <3>6. Works(x2, u, N, B, wr, d) /\ Alike(r, x2)
      BY <2>2, <3>2, <3>3, <3>4, SetSameWorks
    <3> HIDE DEF x2
    <3>7. Alike(c, r)
      BY <1>s, <2>2, <2>6 DEF Resent
    <3>8. Alike(w, x2) /\ x2.t.state # "TCP_CLOSED"
      BY <2>3, <2>6, <3>6, <3>7 DEF Alike
    <3>9. TookAck(w, x2, u, N, B, wr, d)
      BY <3>6, <3>8 DEF TookAck, Continues, Alike
    <3> QED BY <2>6, <3>5, <3>9
  <2> QED BY <2>5, <2>6
<1> HIDE DEF r, wide, half, three
<1> QED BY <1>11, <1>12, <1>13, <1>14, <1>15, <1>16

\* An acknowledgement.
LEMMA TakeAckWorks ==
    ASSUME NEW w, NEW u, NEW N, NEW B, NEW wr, NEW d, Works(w, u, N, B, wr, d), NEW m \in B,
           w.t.state # "TCP_CLOSED", NEW io \in Conditions
    PROVE  TookAck(w, TakeAck(w, m, io), u, N, B, wr, d)
<1>0. m.ack \in Nat /\ w.t.snd_una \in Nat
  <2>1. m.ack \in Nat /\ w.t \in Tcb
    BY ArrivingIs, WorksFacts
  <2> QED BY <2>1, EndTypes
<1>1. CASE m.ack > w.t.snd_una /\ m.ack <= w.t.snd_nxt
  <2>1. TakeAck(w, m, io) = ValuableAck(w, m, io)
    BY <1>0, <1>1 DEF TakeAck
  <2> QED BY <1>1, <2>1, ValuableAckWorks
<1>2. CASE m.ack = w.t.snd_una
  <2>1. TakeAck(w, m, io) = DuplicateAck(w, m, io)
    BY <1>0, <1>2 DEF TakeAck
  <2> QED BY <1>2, <2>1, DuplicateAckWorks
<1>3. CASE ~(m.ack > w.t.snd_una /\ m.ack <= w.t.snd_nxt) /\ m.ack # w.t.snd_una
  <2>1. TakeAck(w, m, io) = w
    BY <1>3 DEF TakeAck
  <2> QED BY <2>1 DEF TookAck, Continues, Alike
<1> QED BY <1>1, <1>2, <1>3

\* The first packet but CONNECT opens the connection.
LEMMA EstablishWorks ==
    ASSUME NEW w, NEW u, NEW N, NEW B, NEW wr, NEW d, Works(w, u, N, B, wr, d),
           NEW m, NEW a, HeardSoFar(w, a)
    PROVE  LET v == Establish(w, m)
           IN  Works(v, u, N, B, wr, d) /\ v.t.shutdown = w.t.shutdown /\ HeardSoFar(v, a)
<1>1. CASE w.t.state = "TCP_SYN_RECEIVED" /\ ~m.ctrl
  <2>1. Establish(w, m) = Open(w)
    BY <1>1 DEF Establish
  <2>2. w.t.state \in Connecting
    BY <1>1 DEF Connecting
  <2> QED BY <2>1, <2>2, OpenWorks
<1>2. CASE ~(w.t.state = "TCP_SYN_RECEIVED" /\ ~m.ctrl)
  <2>1. Establish(w, m) = w
    BY <1>2 DEF Establish
  <2> QED BY <2>1
<1> QED BY <1>1, <1>2

\* An end with other promises to its application.
Promises(t, re, we) == [t EXCEPT !.read_enable = re, !.write_enable = we]

\* They belong to none of the two streams.
LEMMA PromisesWork ==
    ASSUME NEW w, NEW u, NEW N, NEW B, NEW wr, NEW d, Works(w, u, N, B, wr, d),
           NEW re \in BOOLEAN, NEW we \in BOOLEAN
    PROVE  LET v == WithEnd(w, Promises(w.t, re, we))
           IN  /\ Works(v, u, N, B, wr, d) /\ v.told = w.told /\ v.out = w.out
               /\ v.t.state = w.t.state /\ v.t.shutdown = w.t.shutdown
               /\ v.t.read_enable = re /\ v.t.write_enable = we
               /\ v.t.rto_base = w.t.rto_base /\ v.t.snd_wnd = w.t.snd_wnd
               /\ v.t.sbuf = w.t.sbuf /\ v.t.rbuf = w.t.rbuf /\ v.t.failed = w.t.failed
<1> DEFINE t == w.t
           t2 == Promises(t, re, we)
           v == WithEnd(w, t2)
<1>0. w \in Handler /\ t \in Tcb /\ GoodEnd(t, wr, d)
  BY WorksFacts
<1>1. /\ t2 \in Tcb /\ t2.state = t.state /\ t2.shutdown = t.shutdown
      /\ t2.read_enable = re /\ t2.write_enable = we
      /\ t2.rto_base = t.rto_base /\ t2.snd_wnd = t.snd_wnd
      /\ t2.sbuf = t.sbuf /\ t2.rbuf = t.rbuf /\ t2.failed = t.failed
      /\ t2.recover = t.recover /\ t2.mss = t.mss /\ t2.msslevel = t.msslevel
      /\ Snd(t2) = Snd(t) /\ Rcv(t2) = Rcv(t)
  <2> HIDE DEF t
  <2> QED BY <1>0 DEF Promises, Tcb, Snd, Rcv
<1> HIDE DEF t2
<1>2. v \in Handler /\ v.t = t2 /\ v.out = w.out /\ v.told = w.told
  BY <1>0, <1>1, WithEndIs
<1> HIDE DEF v
<1>3. Tuned(w.t, v.t)
  BY <1>0, <1>1, <1>2, ReTuned
<1>4. Works(v, u, N, B, wr, d)
  BY <1>2, <1>3, TunedWorks
<1> QED BY <1>1, <1>2, <1>4 DEF v, t2

\* The application is told that it can write as soon as there is room enough.
LEMMA TellWriteableWorks ==
    ASSUME NEW w, NEW u, NEW N, NEW B, NEW wr, NEW d, Works(w, u, N, B, wr, d),
           NEW a, HeardSoFar(w, a)
    PROVE  LET v == TellWriteable(w)
           IN  Works(v, u, N, B, wr, d) /\ v.t.shutdown = w.t.shutdown /\ HeardBy(v, a)
<1>0. w \in Handler /\ w.t \in Tcb
  BY WorksFacts
<1>k. Len(w.t.sbuf) \in Nat /\ kIdealRefillSize \in Int
  <2>1. SndBuf \in Nat /\ RcvBuf \in Nat
    BY PseudoTcpAssumption
  <2> QED BY <1>0, <2>1, EndTypes DEF kIdealRefillSize
<1>1. CASE w.t.write_enable /\ Len(w.t.sbuf) < kIdealRefillSize
  <2> DEFINE re == w.t.read_enable
             we == FALSE
             x == WithEnd(w, Promises(w.t, re, we))
             c == {"writeable"}
             v == Telling(x, c)
  <2>1. re \in BOOLEAN /\ we \in BOOLEAN
    BY <1>0 DEF Tcb
  <2>2. TellWriteable(w) = v
    BY <1>0, <1>1 DEF TellWriteable, Handler, Tcb, WithEnd, Promises, Telling
  <2> HIDE DEF re, we
  <2>3. /\ Works(x, u, N, B, wr, d) /\ x.told = w.told
        /\ x.t.state = w.t.state /\ x.t.shutdown = w.t.shutdown
        /\ x.t.read_enable = re /\ x.t.rbuf = w.t.rbuf
    BY <2>1, PromisesWork
  <2>4. c \in SUBSET {"open", "closed", "readable", "writeable"} /\ "writeable" \in c
    OBVIOUS
  <2> HIDE DEF x, c
  <2>5. Works(v, u, N, B, wr, d) /\ v.t = x.t /\ v.told = x.told \cup c
    BY <2>3, <2>4, TellingWorks
  <2> HIDE DEF v
  <2>6. ~v.t.shutdown => "writeable" \in Told(v) /\ Told(w) \subseteq Told(v)
    BY <2>3, <2>4, <2>5 DEF Told
  <2>7. HeardBy(v, a)
    BY <2>3, <2>5, <2>6 DEF HeardBy, Heard, HeardSoFar, re
  <2> QED BY <2>2, <2>3, <2>5, <2>7
<1>2. CASE ~(w.t.write_enable /\ Len(w.t.sbuf) < kIdealRefillSize)
  <2>1. TellWriteable(w) = w
    BY <1>2 DEF TellWriteable
  <2>2. HeardBy(w, a)
    <3>1. w.t.write_enable => Len(w.t.sbuf) >= kIdealRefillSize
      BY <1>2, <1>k
    <3> QED BY <3>1 DEF HeardBy, Heard, HeardSoFar
  <2> QED BY <2>1, <2>2
<1> QED BY <1>1, <1>2

-----------------------------------------------------------------------------
(***************************************************************************)
(* The receiving half.                                                     *)
(***************************************************************************)
\* What Fitting leaves of a packet: units f that the receiver of t has not got, in
\* their place, up to the end of a segment of the sender s.
IsNew(t, f, ctrl, s) ==
    /\ f.data \in Seq(Nat)
    /\ Len(f.data) > 0 =>
          /\ f.seq \in Nat /\ t.rcv_nxt <= f.seq
          /\ f.seq + Len(f.data) <= t.rcv_nxt + t.rcv_wnd
          /\ Reached(s, f.seq + Len(f.data))
          /\ \A i \in 1 .. Len(f.data) : f.data[i] = f.seq + i - 1
          /\ ctrl => f.seq = 0 /\ Len(f.data) = 1
          /\ ~ctrl => f.seq > 0

\* The window was kept, so that nothing is cut at its end.
LEMMA FittingIs ==
    ASSUME NEW w, NEW u, NEW N, NEW B, NEW wr, NEW d, Works(w, u, N, B, wr, d), NEW m \in B
    PROVE  IsNew(w.t, Fitting(w.t, m), m.ctrl, Snd(u))
<1> DEFINE t == w.t
           x == t.rcv_nxt
           q == m.seq
           D == m.data
           L == Len(D)
           old == MinOf(MaxOf(x - q, 0), L)
           beyond == MaxOf((q + L) - x - ReceiveSpace(t), 0)
           f == Fitting(t, m)
           s == Snd(u)
<1>0. t \in Tcb /\ u \in Tcb /\ GoodReceiver(Rcv(t))
  BY WorksFacts DEF Works
<1>1. /\ q \in Int /\ D \in Seq(Nat) /\ m.ctrl \in BOOLEAN /\ GoodPacket(s, m) /\ L \in Nat
  BY ArrivingIs
<1>2. /\ x \in Nat /\ t.rcv_wnd \in Nat /\ Len(t.rbuf) \in Nat /\ RcvBuf \in Nat
  BY <1>0, EndTypes, PseudoTcpAssumption
<1>3. t.rcv_wnd + Len(t.rbuf) <= RcvBuf
  BY <1>0, Halves DEF GoodReceiver
<1>4. s.nxt <= x + t.rcv_wnd /\ s.nxt \in Nat
  <2>1. Arrives(s, Rcv(t))
    BY DEF Works, GoodHandler, Flow
  <2>2. Rcv(t).nxt = x /\ Rcv(t).wnd = t.rcv_wnd
    BY DEF Rcv
  <2>3. s.nxt \in Nat
    BY <1>0, Halves, SegmentTypes
  <2> QED BY <2>1, <2>2, <2>3 DEF Arrives
<1>5. /\ q + L <= s.nxt /\ (D # <<>> => Reached(s, q + L))
      /\ \A i \in DOMAIN D : D[i] = q + i - 1
      /\ m.ctrl => q = 0 /\ L = 1
      /\ ~m.ctrl /\ D # <<>> => q > 0
  BY <1>1 DEF GoodPacket, GoodData
<1>6. q + L <= x + t.rcv_wnd
  BY <1>1, <1>2, <1>4, <1>5, SMTT(40)
<1>7. beyond = 0
  <2> DEFINE b == (q + L) - x - ReceiveSpace(t)
  <2>1. ReceiveSpace(t) = RcvBuf - Len(t.rbuf)
    BY DEF ReceiveSpace
  <2>2. b \in Int /\ b <= 0
    <3> HIDE DEF x, q, L, t
    <3>1. ReceiveSpace(t) \in Int /\ t.rcv_wnd <= ReceiveSpace(t)
      BY <1>2, <1>3, <2>1
    <3> DEFINE z == ReceiveSpace(t)
               y == t.rcv_wnd
    <3>2. z \in Int /\ y \in Int /\ y <= z /\ q \in Int /\ L \in Int /\ x \in Int
          /\ q + L <= x + y
      BY <1>1, <1>2, <1>6, <3>1
    <3> HIDE DEF z, y
    <3>3. (q + L) - x - z \in Int /\ (q + L) - x - z <= 0
      BY ONLY <3>2
    <3> QED BY <3>3 DEF z
  <2> HIDE DEF b
  <2>3. MaxOf(b, 0) = 0
    BY <2>2 DEF MaxOf
  <2> QED BY <2>3 DEF b
<1>8. old \in Nat /\ old <= L
  BY <1>1, <1>2 DEF MinOf, MaxOf
<1>9. f.seq = q + old /\ f.data = SubSeq(D, old + 1, L - beyond)
  <2>1. f = [seq |-> q + old, data |-> SubSeq(D, old + 1, L - beyond)]
    BY DEF Fitting
  <2> HIDE DEF f, q, old, D, L, beyond
  <2> QED BY <2>1
<1>10. f.data = SubSeq(D, old + 1, L)
  <2>1. L - beyond = L
    BY <1>1, <1>7
  <2> QED BY <1>9, <2>1
<1> HIDE DEF old, f, D, beyond, x, q, t, L
<1>11. SubSeq(D, old + 1, L) \in Seq(Nat) /\ Dropped(D, SubSeq(D, old + 1, L), old)
  <2>1. D \in Seq(Nat) /\ old \in Nat /\ old <= Len(D)
    BY <1>1, <1>8 DEF L
  <2> QED BY ONLY <2>1, DropFacts DEF L
<1>12. /\ f.data \in Seq(Nat) /\ Len(f.data) = L - old
       /\ \A j \in 1 .. L - old : f.data[j] = D[old + j] /\ old + j \in DOMAIN D
  BY <1>10, <1>11 DEF Dropped, L
<1>13. ASSUME Len(f.data) > 0
       PROVE  /\ f.seq \in Nat /\ x <= f.seq
              /\ f.seq + Len(f.data) <= x + t.rcv_wnd
              /\ Reached(s, f.seq + Len(f.data))
              /\ \A i \in 1 .. Len(f.data) : f.data[i] = f.seq + i - 1
              /\ m.ctrl => f.seq = 0 /\ Len(f.data) = 1
              /\ ~m.ctrl => f.seq > 0
  <2>0. f.seq = q + old
    BY <1>9
  <2>l. Len(f.data) = L - old
    BY <1>12
  <2>1. old < L /\ L > 0 /\ D # <<>>
    <3>1. old < L /\ L > 0
      BY <1>1, <1>8, <1>12, <1>13
    <3> QED BY <1>1, <3>1 DEF L
  <2>2. q >= 0
    BY <1>1, <1>5, <2>1
  <2>3. old = MaxOf(x - q, 0)
    BY <1>1, <1>2, <2>1 DEF old, MinOf, MaxOf
  <2>4. f.seq \in Nat /\ x <= f.seq /\ f.seq >= q
    BY <1>1, <1>2, <1>9, <2>2, <2>3 DEF MaxOf
  <2>5. f.seq + Len(f.data) = q + L
    BY ONLY <1>1, <1>8, <2>0, <2>l
  <2>6. ASSUME NEW i \in 1 .. Len(f.data) PROVE f.data[i] = f.seq + i - 1
    <3>1. i \in 1 .. L - old
      BY <1>12
    <3>2. f.data[i] = D[old + i] /\ D[old + i] = q + (old + i) - 1
      BY <1>5, <1>12, <3>1
    <3>3. i \in Int
      BY <3>1
    <3> QED BY ONLY <1>1, <1>8, <2>0, <3>2, <3>3
  <2>7. m.ctrl => f.seq = 0 /\ Len(f.data) = 1
    <3>1. m.ctrl => q = 0 /\ L = 1
      BY <1>5
    <3> QED BY ONLY <1>1, <1>8, <2>0, <2>l, <2>1, <3>1
  <2>8. ~m.ctrl => f.seq > 0
    BY <1>1, <1>5, <2>1, <2>4
  <2>9. /\ f.seq + Len(f.data) <= x + t.rcv_wnd /\ Reached(s, f.seq + Len(f.data))
    BY <1>5, <1>6, <2>1, <2>5
  <2> QED BY <2>4, <2>6, <2>7, <2>8, <2>9
<1> QED BY <1>12, <1>13 DEF IsNew, f, x, t

\* The end t with the receiving half r.
RcvEnd(t, r, re) ==
    [t EXCEPT !.rlist = r.rlist, !.rbuf = r.rbuf, !.ahead = r.ahead, !.rcv_nxt = r.nxt,
              !.rcv_wnd = r.wnd, !.read_enable = re]

\* The rest of it.
IsRcvEnd(t, t2, r, re) ==
    /\ t2 \in Tcb /\ Rcv(t2) = r /\ Snd(t2) = Snd(t)
    /\ t2.read_enable = re /\ t2.write_enable = t.write_enable
    /\ t2.state = t.state /\ t2.shutdown = t.shutdown /\ t2.rto_base = t.rto_base
    /\ t2.recover = t.recover /\ t2.mss = t.mss /\ t2.msslevel = t.msslevel
    /\ t2.sbuf = t.sbuf /\ t2.snd_una = t.snd_una /\ t2.snd_nxt = t.snd_nxt
    /\ t2.snd_wnd = t.snd_wnd /\ t2.rbuf = r.rbuf /\ t2.failed = t.failed

\* The sending half is untouched.
LEMMA RcvEndIs ==
    ASSUME NEW t \in Tcb, NEW r \in Receiver, NEW re \in BOOLEAN
    PROVE  IsRcvEnd(t, RcvEnd(t, r, re), r, re)
<1> DEFINE a == [t EXCEPT !.rlist = r.rlist, !.rbuf = r.rbuf, !.ahead = r.ahead]
           t2 == [a EXCEPT !.rcv_nxt = r.nxt, !.rcv_wnd = r.wnd, !.read_enable = re]
<1>1. /\ r.rlist \in Seq(SavedSegment) /\ r.rbuf \in Seq(Nat) /\ r.ahead \in Placed
      /\ r.nxt \in Nat /\ r.wnd \in Nat
  BY DEF Receiver
<1>2. RcvEnd(t, r, re) = t2
  BY DEF RcvEnd
<1>3. /\ a \in Tcb /\ a.rlist = r.rlist /\ a.rbuf = r.rbuf /\ a.ahead = r.ahead
      /\ Snd(a) = Snd(t) /\ a.write_enable = t.write_enable
      /\ a.state = t.state /\ a.shutdown = t.shutdown /\ a.rto_base = t.rto_base
      /\ a.recover = t.recover /\ a.mss = t.mss /\ a.msslevel = t.msslevel
      /\ a.failed = t.failed
  BY <1>1 DEF Tcb, Snd
<1> HIDE DEF a
<1>4. /\ t2 \in Tcb /\ t2.rlist = a.rlist /\ t2.rbuf = a.rbuf /\ t2.ahead = a.ahead
      /\ t2.rcv_nxt = r.nxt /\ t2.rcv_wnd = r.wnd /\ t2.read_enable = re
      /\ Snd(t2) = Snd(a) /\ t2.write_enable = a.write_enable
      /\ t2.state = a.state /\ t2.shutdown = a.shutdown /\ t2.rto_base = a.rto_base
      /\ t2.recover = a.recover /\ t2.mss = a.mss /\ t2.msslevel = a.msslevel
      /\ t2.failed = a.failed
  BY <1>1, <1>3 DEF Tcb, Snd
<1> HIDE DEF t2
<1>5. Rcv(t2) = r
  <2>1. Rcv(t2) \in Receiver
    BY <1>4, Halves
  <2>2. /\ Rcv(t2).rlist = r.rlist /\ Rcv(t2).rbuf = r.rbuf /\ Rcv(t2).ahead = r.ahead
        /\ Rcv(t2).nxt = r.nxt /\ Rcv(t2).wnd = r.wnd
    BY <1>3, <1>4 DEF Rcv
  <2> DEFINE x == Rcv(t2)
  <2> HIDE DEF x
  <2>3. /\ x = [rlist |-> x.rlist, rbuf |-> x.rbuf, ahead |-> x.ahead, nxt |-> x.nxt,
                wnd |-> x.wnd]
        /\ r = [rlist |-> r.rlist, rbuf |-> r.rbuf, ahead |-> r.ahead, nxt |-> r.nxt,
                wnd |-> r.wnd]
    BY <2>1 DEF Receiver, x
  <2>4. /\ x.rlist = r.rlist /\ x.rbuf = r.rbuf /\ x.ahead = r.ahead /\ x.nxt = r.nxt
        /\ x.wnd = r.wnd
    BY <2>2 DEF x
  <2>5. x = r
    BY ONLY <2>3, <2>4
  <2> QED BY <2>5 DEF x
<1>6. Snd(t2) = Snd(t)
  BY <1>3, <1>4
<1>7. /\ t2.sbuf = t.sbuf /\ t2.snd_una = t.snd_una /\ t2.snd_nxt = t.snd_nxt
      /\ t2.snd_wnd = t.snd_wnd
  <2>1. /\ Snd(t2).sbuf = Snd(t).sbuf /\ Snd(t2).una = Snd(t).una /\ Snd(t2).nxt = Snd(t).nxt
        /\ Snd(t2).wnd = Snd(t).wnd
    BY <1>6
  <2> QED BY <2>1 DEF Snd
<1> QED BY <1>2, <1>3, <1>4, <1>5, <1>6, <1>7 DEF IsRcvEnd

\* A handler that changed its receiving half and left the sending one alone.
LEMMA ReceiverWorks ==
    ASSUME NEW w, NEW u, NEW N, NEW B, NEW wr, NEW d, Works(w, u, N, B, wr, d),
           NEW r \in Receiver, NEW re \in BOOLEAN, GoodReceiver(r),
           Onward(Rcv(w.t), r, Snd(u)), NEW d2, Got(r, w.t.shutdown, d2)
    PROVE  LET v == WithEnd(w, RcvEnd(w.t, r, re))
           IN  /\ Works(v, u, N, B, wr, d2) /\ v.t = RcvEnd(w.t, r, re)
               /\ v.told = w.told /\ v.out = w.out
               /\ IsRcvEnd(w.t, RcvEnd(w.t, r, re), r, re)
<1> DEFINE t2 == RcvEnd(w.t, r, re)
           v == WithEnd(w, t2)
<1>0. /\ w \in Handler /\ w.t \in Tcb /\ u \in Tcb /\ N \in SUBSET Message
      /\ B \in SUBSET Message /\ GoodHandler(w, u, N, B, wr, d)
      /\ GoodSender(Snd(w.t)) /\ Local(w.t) /\ Life(w.t, wr) /\ wr \in Nat
  BY WorksFacts DEF Works
<1>1. IsRcvEnd(w.t, t2, r, re)
  BY <1>0, RcvEndIs
<1> HIDE DEF t2
<1>2. v \in Handler /\ v.t = t2 /\ v.out = w.out /\ v.told = w.told
  BY <1>0, <1>1, WithEndIs DEF IsRcvEnd
<1> HIDE DEF v
<1>3. GoodEnd(v.t, wr, d2)
  <2>1. Local(t2)
    BY <1>0, <1>1 DEF IsRcvEnd, Local
  <2>2. Life(t2, wr)
    BY <1>0, <1>1 DEF IsRcvEnd, Life
  <2> QED BY <1>0, <1>1, <1>2, <2>1, <2>2 DEF GoodEnd, IsRcvEnd
<1>4. Forward(Snd(w.t), Snd(v.t), Rcv(u)) /\ Onward(Rcv(w.t), Rcv(v.t), Snd(u))
  BY <1>0, <1>1, <1>2, StandingStill DEF IsRcvEnd
<1>5. \A x \in v.out : x \in w.out \/ (GoodPacket(Snd(v.t), x) /\ GoodAck(Snd(u), Rcv(v.t), x))
  BY <1>2
<1>6. GoodHandler(v, u, N, B, wr, d2)
  BY <1>0, <1>2, <1>3, <1>4, <1>5, HandlerGoesOn
<1> QED BY <1>0, <1>1, <1>2, <1>6 DEF Works, v, t2

\* The part of the buffer beyond the readable units.
LEMMA PlacedIs ==
    /\ \A a \in Placed : DOMAIN a \subseteq Nat /\ a \in [DOMAIN a -> Nat]
    /\ \A D \in SUBSET Nat : \A a \in [D -> Nat] : a \in Placed /\ DOMAIN a = D
BY DEF Placed

\* The buffer with the units f written into it.
Put(ahead, f) ==
    [p \in DOMAIN ahead \cup (f.seq .. f.seq + Len(f.data) - 1) |->
        IF p \in f.seq .. f.seq + Len(f.data) - 1 THEN f.data[p - f.seq + 1] ELSE ahead[p]]

PutIn(r, f) == [r EXCEPT !.ahead = Put(r.ahead, f)]

\* Units in their place.
InPlace(f) ==
    /\ f.seq \in Nat /\ f.data \in Seq(Nat)
    /\ \A i \in 1 .. Len(f.data) : f.data[i] = f.seq + i - 1

IsPut(r, r2, f) ==
    /\ r2 \in Receiver /\ GoodReceiver(r2)
    /\ r2.rlist = r.rlist /\ r2.rbuf = r.rbuf /\ r2.nxt = r.nxt /\ r2.wnd = r.wnd
    /\ DOMAIN r.ahead \subseteq DOMAIN r2.ahead
    /\ \A p \in Nat : f.seq <= p /\ p < f.seq + Len(f.data) => p \in DOMAIN r2.ahead

\* Writing them leaves a good receiver.
LEMMA PutWorks ==
    ASSUME NEW r \in Receiver, GoodReceiver(r), NEW f, InPlace(f)
    PROVE  IsPut(r, PutIn(r, f), f)
<1> DEFINE n == Len(f.data)
           q == f.seq
           A == DOMAIN r.ahead
           I == q .. q + n - 1
           D == A \cup I
           a == [p \in D |-> IF p \in I THEN f.data[p - q + 1] ELSE r.ahead[p]]
           r2 == [r EXCEPT !.ahead = a]
<1>0. /\ n \in Nat /\ q \in Nat /\ \A i \in 1 .. n : f.data[i] = q + i - 1
  BY DEF InPlace
<1>1. A \subseteq Nat /\ r.ahead \in [A -> Nat]
  <2>1. r.ahead \in Placed
    BY DEF Receiver
  <2> QED BY <2>1, PlacedIs
<1>2. PutIn(r, f) = r2
  BY DEF PutIn, Put
<1>3. \A p \in A : r.ahead[p] = p
  BY DEF GoodReceiver
<1> HIDE DEF n, q, A
<1>4. \A p \in I : f.data[p - q + 1] = p /\ p \in Nat
  <2> TAKE p \in I
  <2>1. p \in Int /\ q <= p /\ p <= q + n - 1
    BY <1>0
  <2>2. p - q + 1 \in 1 .. n /\ q + (p - q + 1) - 1 = p /\ p \in Nat
    BY <1>0, <2>1
  <2> QED BY <1>0, <2>2
<1>5. D \in SUBSET Nat
  <2> HIDE DEF I
  <2> QED BY <1>1, <1>4
<1>6. \A p \in Nat : q <= p /\ p < q + n => p \in I
  BY <1>0
<1> HIDE DEF I
<1>7. \A p \in D : a[p] = p
  BY <1>3, <1>4
<1>8. a \in [D -> Nat]
  BY <1>1, <1>3, <1>4, <1>5
<1>9. A \subseteq D /\ I \subseteq D
  OBVIOUS
<1> HIDE DEF D, a
<1>10. a \in Placed /\ DOMAIN a = D
  BY <1>5, <1>8, PlacedIs
<1>11. /\ r2 \in Receiver /\ r2.ahead = a
       /\ r2.rlist = r.rlist /\ r2.rbuf = r.rbuf /\ r2.nxt = r.nxt /\ r2.wnd = r.wnd
  BY <1>10 DEF Receiver
<1> HIDE DEF r2
<1>12. GoodReceiver(r2)
  <2>1. \A i \in DOMAIN r2.rlist : \A p \in Nat :
           r2.nxt <= p /\ r2.rlist[i].seq <= p /\ p < End(r2.rlist[i]) => p \in DOMAIN r2.ahead
    <3>1. \A i \in DOMAIN r.rlist : \A p \in Nat :
             r.nxt <= p /\ r.rlist[i].seq <= p /\ p < End(r.rlist[i]) => p \in A
      BY DEF GoodReceiver, A
    <3> QED BY <1>9, <1>10, <1>11, <3>1
  <2>2. r2.wnd + Len(r2.rbuf) <= RcvBuf /\ RcvBuf <= r2.nxt + r2.wnd
    BY <1>11 DEF GoodReceiver
  <2>3. \A p \in DOMAIN r2.ahead : r2.ahead[p] = p
    BY <1>7, <1>10, <1>11
  <2> QED BY <2>1, <2>2, <2>3 DEF GoodReceiver
<1>13. IsPut(r, r2, f)
  BY <1>6, <1>9, <1>10, <1>11, <1>12 DEF IsPut, A, n, q
<1> QED BY <1>2, <1>13

\* The receiver after n units of the buffer became readable.
TakeFrom(r, n) ==
    [r EXCEPT !.rbuf = r.rbuf \o [i \in 1 .. n |-> r.ahead[r.nxt + i - 1]],
              !.nxt = r.nxt + n,
              !.wnd = r.wnd - n,
              !.ahead = [p \in {q \in DOMAIN r.ahead : q >= r.nxt + n} |-> r.ahead[p]]]

\* The next n units are in the buffer.
HasNext(r, n) ==
    n \in Nat /\ n <= r.wnd /\ \A p \in Nat : r.nxt <= p /\ p < r.nxt + n => p \in DOMAIN r.ahead

IsTaken(r, r2, n) ==
    /\ r2 \in Receiver /\ GoodReceiver(r2) /\ r2.rlist = r.rlist
    /\ r2.nxt = r.nxt + n /\ r2.wnd = r.wnd - n
    /\ Len(r2.rbuf) = Len(r.rbuf) + n
    /\ \A i \in 1 .. Len(r.rbuf) : r2.rbuf[i] = r.rbuf[i]
    /\ \A i \in 1 .. n : r2.rbuf[Len(r.rbuf) + i] = r.nxt + i - 1
    /\ \A p \in DOMAIN r.ahead : p >= r.nxt + n => p \in DOMAIN r2.ahead

\* ConsumeWriteBuffer leaves a good receiver.
LEMMA TakeWorks ==
    ASSUME NEW r \in Receiver, GoodReceiver(r), NEW n, HasNext(r, n)
    PROVE  IsTaken(r, TakeFrom(r, n), n)
<1> DEFINE A == DOMAIN r.ahead
           b == [i \in 1 .. n |-> r.ahead[r.nxt + i - 1]]
           c == r.rbuf \o b
           D == {q \in A : q >= r.nxt + n}
           a == [p \in D |-> r.ahead[p]]
           x == r.nxt + n
           y == r.wnd - n
           r2 == [r EXCEPT !.rbuf = c, !.nxt = x, !.wnd = y, !.ahead = a]
<1>0. /\ r.rbuf \in Seq(Nat) /\ r.nxt \in Nat /\ r.wnd \in Nat /\ Len(r.rbuf) \in Nat
      /\ n \in Nat /\ n <= r.wnd
  BY ReceiverTypes DEF HasNext
<1>1. A \subseteq Nat /\ r.ahead \in [A -> Nat]
  <2>1. r.ahead \in Placed
    BY DEF Receiver
  <2> QED BY <2>1, PlacedIs
<1>2. TakeFrom(r, n) = r2
  BY DEF TakeFrom
<1>3. \A p \in A : r.ahead[p] = p
  BY DEF GoodReceiver
<1>4. \A i \in 1 .. n : b[i] = r.nxt + i - 1 /\ b[i] \in Nat
  <2> TAKE i \in 1 .. n
  <2>1. r.nxt + i - 1 \in Nat /\ r.nxt <= r.nxt + i - 1 /\ r.nxt + i - 1 < r.nxt + n
    BY <1>0
  <2>2. r.nxt + i - 1 \in A
    BY <2>1 DEF HasNext
  <2> QED BY <1>3, <2>1, <2>2
<1>5. b \in Seq(Nat) /\ Len(b) = n
  BY <1>0, <1>4
<1>6. D \in SUBSET Nat /\ D \subseteq A
  BY <1>1
<1> HIDE DEF A, b
<1>7. a \in [D -> Nat] /\ \A p \in D : a[p] = p
  <2> HIDE DEF D
  <2> QED BY <1>1, <1>3, <1>6
<1>8. \A p \in A : p >= r.nxt + n => p \in D
  OBVIOUS
<1>9. x \in Nat /\ y \in Nat /\ x + y = r.nxt + r.wnd /\ y + n = r.wnd
  <2> DEFINE g == r.nxt
             h == r.wnd
  <2>1. g \in Nat /\ h \in Nat /\ n \in Nat /\ n <= h
    BY <1>0
  <2> HIDE DEF g, h
  <2>2. g + n \in Nat /\ h - n \in Nat /\ (g + n) + (h - n) = g + h /\ (h - n) + n = h
    BY ONLY <2>1
  <2> QED BY <2>2 DEF g, h
<1> HIDE DEF D, a
<1>10. a \in Placed /\ DOMAIN a = D
  BY <1>6, <1>7, PlacedIs
<1>11. /\ c \in Seq(Nat) /\ Len(c) = Len(r.rbuf) + n
       /\ \A i \in 1 .. Len(r.rbuf) : c[i] = r.rbuf[i]
       /\ \A i \in 1 .. n : c[Len(r.rbuf) + i] = b[i]
  <2>1. r.rbuf \in Seq(Nat)
    BY <1>0
  <2> DEFINE e == r.rbuf
             E == Nat
  <2>2. e \in Seq(E) /\ b \in Seq(E)
    BY <1>5, <2>1
  <2> HIDE DEF e, E
  <2>3. /\ e \o b \in Seq(E) /\ Len(e \o b) = Len(e) + Len(b)
        /\ \A i \in 1 .. Len(e) : (e \o b)[i] = e[i]
        /\ \A i \in 1 .. Len(b) : (e \o b)[Len(e) + i] = b[i]
    BY ONLY <2>2, ConcatFacts
  <2> QED BY <1>5, <2>3 DEF e, E
<1> HIDE DEF c, x, y
<1>12. /\ r2 \in Receiver /\ r2.ahead = a
       /\ r2.rlist = r.rlist /\ r2.rbuf = c /\ r2.nxt = x /\ r2.wnd = y
  BY <1>9, <1>10, <1>11 DEF Receiver
<1> HIDE DEF r2
<1>13. GoodReceiver(r2)
  <2>1. \A i \in DOMAIN r2.rlist : \A p \in Nat :
           r2.nxt <= p /\ r2.rlist[i].seq <= p /\ p < End(r2.rlist[i]) => p \in DOMAIN r2.ahead
    <3>1. \A i \in DOMAIN r.rlist : \A p \in Nat :
             r.nxt <= p /\ r.rlist[i].seq <= p /\ p < End(r.rlist[i]) => p \in A
      BY DEF GoodReceiver, A
    <3>2. ASSUME NEW i \in DOMAIN r.rlist, NEW p \in Nat, x <= p, r.rlist[i].seq <= p,
                 p < End(r.rlist[i])
          PROVE  p \in D
      <4>1. r.nxt <= p /\ p >= r.nxt + n
        BY <1>0, <3>2 DEF x
      <4>2. p \in A
        BY <3>1, <3>2, <4>1
      <4> QED BY <1>8, <4>1, <4>2
    <3> QED BY <1>10, <1>12, <3>2
  <2>2. r2.wnd + Len(r2.rbuf) <= RcvBuf /\ RcvBuf <= r2.nxt + r2.wnd
    <3>1. r.wnd + Len(r.rbuf) <= RcvBuf /\ RcvBuf <= r.nxt + r.wnd
      BY DEF GoodReceiver
    <3>2. r2.wnd + Len(r2.rbuf) = r.wnd + Len(r.rbuf) /\ r2.nxt + r2.wnd = r.nxt + r.wnd
      <4>1. r2.wnd = y /\ r2.nxt = x /\ Len(r2.rbuf) = Len(r.rbuf) + n
        BY <1>11, <1>12
      <4>2. y \in Nat /\ n \in Nat /\ Len(r.rbuf) \in Nat /\ y + n = r.wnd
            /\ x + y = r.nxt + r.wnd
        BY <1>0, <1>9
      <4> QED BY ONLY <4>1, <4>2
    <3> QED BY <3>1, <3>2
  <2>3. \A p \in DOMAIN r2.ahead : r2.ahead[p] = p
    BY <1>7, <1>10, <1>12
  <2> QED BY <2>1, <2>2, <2>3 DEF GoodReceiver
<1>14. IsTaken(r, r2, n)
  <2>1. \A i \in 1 .. n : r2.rbuf[Len(r.rbuf) + i] = r.nxt + i - 1
    BY <1>4, <1>11, <1>12
  <2>2. \A i \in 1 .. Len(r.rbuf) : r2.rbuf[i] = r.rbuf[i]
    BY <1>11, <1>12
  <2>3. \A p \in DOMAIN r.ahead : p >= r.nxt + n => p \in DOMAIN r2.ahead
    BY <1>8, <1>10, <1>12 DEF A
  <2> QED BY <1>11, <1>12, <1>13, <2>1, <2>2, <2>3 DEF IsTaken, x, y
<1> QED BY <1>2, <1>14

\* What became readable follows what was.
LEMMA TakenGot ==
    ASSUME NEW r \in Receiver, NEW r2 \in Receiver, NEW n \in Nat, IsTaken(r, r2, n),
           NEW d \in Seq(Nat), Got(r, FALSE, d), n > 0 => r.nxt > 0
    PROVE  Got(r2, FALSE, d)
<1> DEFINE L == Len(r.rbuf)
           K == Len(d)
<1>0. /\ r.nxt \in Nat /\ L \in Nat /\ n \in Nat /\ K \in Nat /\ DOMAIN r.rbuf = 1 .. L
      /\ DOMAIN r2.rbuf = 1 .. L + n
  <2>1. r.rbuf \in Seq(Nat) /\ r2.rbuf \in Seq(Nat) /\ r.nxt \in Nat
    BY ReceiverTypes
  <2>2. Len(r2.rbuf) = L + n
    BY DEF IsTaken
  <2> QED BY <2>1, <2>2
<1>1. K + L = IF r.nxt = 0 THEN 0 ELSE r.nxt - 1
  BY DEF Got
<1>2. r2.nxt = r.nxt + n /\ Len(r2.rbuf) = L + n
  BY DEF IsTaken
<1>n. r.nxt \in Nat /\ L \in Nat /\ n \in Nat /\ K \in Nat
  BY <1>0
<1> HIDE DEF L, K
<1>3. ASSUME NEW i \in DOMAIN r2.rbuf PROVE r2.rbuf[i] = K + i
  <2>0. i \in 1 .. L + n
    BY <1>0
  <2>1. CASE i <= L
    <3>1. i \in 1 .. L
      BY <1>0, <2>0, <2>1
    <3>2. r2.rbuf[i] = r.rbuf[i]
      BY <3>1 DEF IsTaken, L
    <3>3. r.rbuf[i] = K + i
      BY <1>0, <3>1 DEF Got, K
    <3> QED BY <3>2, <3>3
  <2>2. CASE i > L
    <3> DEFINE j == i - L
    <3>1. j \in 1 .. n /\ L + j = i /\ n > 0
      BY ONLY <1>n, <2>0, <2>2
    <3>2. r2.rbuf[L + j] = r.nxt + j - 1
      BY <3>1 DEF IsTaken, L
    <3>3. K + L = r.nxt - 1
      BY <1>0, <1>1, <3>1
    <3>4. r2.rbuf[i] = r.nxt + j - 1
      BY <3>1, <3>2
    <3>5. j \in Int /\ i \in Int
      BY <2>0, <3>1
    <3>6. r.nxt + j - 1 = K + i
      <4> DEFINE g == r.nxt
      <4>1. g \in Int /\ K + L = g - 1 /\ L + j = i /\ K \in Int /\ L \in Int
        BY <1>n, <3>1, <3>3
      <4> HIDE DEF g, j
      <4>2. g + j - 1 = K + i
        BY ONLY <4>1, <3>5
      <4> QED BY <4>2 DEF g
    <3> QED BY <3>4, <3>6
  <2> QED BY <1>0, <2>0, <2>1, <2>2
<1>4. K + Len(r2.rbuf) = IF r2.nxt = 0 THEN 0 ELSE r2.nxt - 1
  <2>1. CASE n = 0
    BY <1>0, <1>1, <1>2, <2>1
  <2>2. CASE n > 0
    <3>1. K + L = r.nxt - 1 /\ r.nxt > 0
      BY <1>0, <1>1, <2>2
    <3>2. r2.nxt # 0 /\ K + (L + n) = (r.nxt + n) - 1
      <4> DEFINE g == r.nxt
                 h == r2.nxt
      <4>1. g \in Int /\ K + L = g - 1 /\ g > 0 /\ h = g + n /\ K \in Int /\ L \in Int
            /\ n \in Int /\ n > 0
        BY <1>n, <1>2, <3>1, <2>2
      <4> HIDE DEF g, h
      <4>2. h # 0 /\ K + (L + n) = (g + n) - 1
        BY ONLY <4>1
      <4> QED BY <4>2 DEF g, h
    <3> QED BY <1>2, <3>2
  <2> QED BY <2>1, <2>2
<1>5. \A i \in DOMAIN d : d[i] = i
  BY DEF Got
<1> QED BY <1>3, <1>4, <1>5 DEF Got, K

\* nxt of the loop that recovers saved segments.
IsReach(f, l, a) ==
    f = [i \in 0 .. Len(l) |-> IF i = 0 THEN a ELSE MaxOf(f[i - 1], l[i].seq + l[i].len)]
Reach(l, a) == CHOOSE f : IsReach(f, l, a)

\* Its values.
LEMMA ReachFacts ==
    ASSUME NEW l \in Seq(SavedSegment), NEW a \in Nat
    PROVE  /\ Reach(l, a)[0] = a
           /\ \A i \in 1 .. Len(l) :
                 Reach(l, a)[i] = MaxOf(Reach(l, a)[i - 1], l[i].seq + l[i].len)
<1> DEFINE N == Len(l)
           h == [k \in Nat |-> [v \in Nat |->
                    IF k + 1 \in 1 .. N THEN MaxOf(v, l[k + 1].seq + l[k + 1].len) ELSE v]]
<1>0. N \in Nat /\ \A i \in 1 .. N : l[i].len \in Nat /\ l[i].seq \in Nat
  <2>1. \A i \in 1 .. N : l[i] \in SavedSegment
    OBVIOUS
  <2> QED BY <2>1 DEF SavedSegment, Positive
<1>1. h \in [Nat -> [Nat -> Nat]]
  <2>1. ASSUME NEW k \in Nat, NEW v \in Nat
        PROVE  (IF k + 1 \in 1 .. N THEN MaxOf(v, l[k + 1].seq + l[k + 1].len) ELSE v) \in Nat
    BY <1>0 DEF MaxOf
  <2> HIDE DEF N
  <2> QED BY <2>1
<1>2. PICK f \in [0 .. N -> Nat] :
         f[0] = a /\ \A i \in 1 .. N : f[i] = h[i - 1][f[i - 1]]
  <2> DEFINE S == Nat
  <2>1. h \in [Nat -> [S -> S]] /\ a \in S /\ N \in Nat
    BY <1>0, <1>1
  <2> HIDE DEF h, N, S
  <2>2. \E f : Steps(f, N, S, a, h)
    BY <2>1, StepsExist
  <2> QED BY <2>2 DEF S, Steps
<1>3. ASSUME NEW i \in 1 .. N PROVE f[i] = MaxOf(f[i - 1], l[i].seq + l[i].len)
  <2>0. i - 1 \in Nat /\ i - 1 + 1 = i /\ i - 1 \in 0 .. N
    BY <1>0
  <2>1. f[i - 1] \in Nat
    <3> HIDE DEF N
    <3> QED BY <2>0
  <2>2. \A k \in Nat, v \in Nat :
           h[k][v] = IF k + 1 \in 1 .. N THEN MaxOf(v, l[k + 1].seq + l[k + 1].len) ELSE v
    OBVIOUS
  <2> HIDE DEF h
  <2>3. f[i] = h[i - 1][f[i - 1]]
    BY <1>2
  <2> QED BY <2>0, <2>1, <2>2, <2>3
<1>4. IsReach(f, l, a)
  <2>1. \A i \in 0 .. N :
           f[i] = IF i = 0 THEN a ELSE MaxOf(f[i - 1], l[i].seq + l[i].len)
    BY <1>0, <1>2, <1>3
  <2>2. f = [i \in 0 .. N |-> f[i]]
    OBVIOUS
  <2> QED BY <2>1, <2>2 DEF IsReach
<1>5. IsReach(Reach(l, a), l, a)
  BY <1>4 DEF Reach
<1> DEFINE g == Reach(l, a)
<1> HIDE DEF g
<1>6. g = [i \in 0 .. N |-> IF i = 0 THEN a ELSE MaxOf(g[i - 1], l[i].seq + l[i].len)]
  BY <1>5 DEF IsReach, g
<1>7. g[0] = a /\ \A i \in 1 .. N : g[i] = MaxOf(g[i - 1], l[i].seq + l[i].len)
  BY <1>0, <1>6
<1> QED BY <1>7 DEF g

\* How many of the saved segments follow without a gap, and how far they reach.
Gaps(l, a) == {i \in DOMAIN l : l[i].seq > Reach(l, a)[i - 1]}
Recovered(l, a) == IF Gaps(l, a) = {} THEN Len(l) ELSE Min(Gaps(l, a)) - 1
RecoveredTo(l, a) == Reach(l, a)[Recovered(l, a)]

\* They are in the buffer, up to the end of a segment of the sender.
LEMMA RecoverFacts ==
    ASSUME NEW r \in Receiver, GoodReceiver(r), NEW s \in Sender, GoodSender(s),
           Arrives(s, r)
    PROVE  LET n == RecoveredTo(r.rlist, r.nxt) - r.nxt
           IN  /\ Recovered(r.rlist, r.nxt) \in 0 .. Len(r.rlist)
               /\ RecoveredTo(r.rlist, r.nxt) \in Nat
               /\ HasNext(r, n) /\ r.nxt + n = RecoveredTo(r.rlist, r.nxt)
               /\ Reached(s, r.nxt + n)
<1> DEFINE l == r.rlist
           a == r.nxt
           N == Len(l)
           A == DOMAIN r.ahead
           f == Reach(l, a)
           G == Gaps(l, a)
           k == Recovered(l, a)
<1>0. /\ l \in Seq(SavedSegment) /\ a \in Nat /\ r.wnd \in Nat /\ N \in Nat
      /\ DOMAIN l = 1 .. N
  BY ReceiverTypes
<1>1. \A i \in 1 .. N : l[i].seq \in Nat /\ l[i].len \in Nat /\ End(l[i]) \in Nat
                        /\ End(l[i]) = l[i].seq + l[i].len
  BY ReceiverTypes DEF End
<1>2. f[0] = a /\ \A i \in 1 .. N : f[i] = MaxOf(f[i - 1], End(l[i]))
  <2>1. f[0] = a /\ \A i \in 1 .. N : f[i] = MaxOf(f[i - 1], l[i].seq + l[i].len)
    <3> HIDE DEF l, a
    <3> QED BY <1>0, ReachFacts
  <2> HIDE DEF f
  <2> QED BY <1>1, <2>1
<1>3. \A i \in 1 .. N : \A p \in Nat : a <= p /\ l[i].seq <= p /\ p < End(l[i]) => p \in A
  BY <1>0 DEF GoodReceiver
<1>4. Reached(s, a) /\ (\A i \in 1 .. N : Reached(s, End(l[i]))) /\ s.nxt <= a + r.wnd
  BY <1>0 DEF Arrives
<1>5. G = {i \in 1 .. N : l[i].seq > f[i - 1]} /\ k = IF G = {} THEN N ELSE Min(G) - 1
  BY <1>0 DEF Gaps, Recovered
<1>6. RecoveredTo(l, a) = f[k]
  BY DEF RecoveredTo
<1> HIDE DEF f, G, k, A, l, a
<1>7. k \in 0 .. N /\ \A i \in 1 .. k : i \notin G
  <2>1. CASE G = {}
    BY <1>0, <1>5, <2>1
  <2>2. CASE G # {}
    <3>1. G \subseteq Nat /\ \A i \in G : i \in 1 .. N
      BY <1>5
    <3>2. Min(G) \in G /\ \A y \in G : Min(G) <= y
      BY <2>2, <3>1, MinFacts
    <3>3. k = Min(G) - 1 /\ Min(G) \in 1 .. N
      BY <1>5, <2>2, <3>1, <3>2
    <3> DEFINE z == Min(G)
    <3> HIDE DEF z
    <3>4. z \in 1 .. N /\ k = z - 1 /\ \A y \in G : z <= y
      BY <3>2, <3>3 DEF z
    <3> QED BY <1>0, <3>1, <3>4
  <2> QED BY <2>1, <2>2
<1> DEFINE Q(i) == /\ f[i] \in Nat /\ a <= f[i] /\ Reached(s, f[i])
                   /\ \A p \in Nat : a <= p /\ p < f[i] => p \in A
           P == {i \in Nat : i <= k => Q(i)}
<1>8. 0 \in P
  <2>1. Q(0)
    BY <1>0, <1>2, <1>4
  <2> HIDE DEF Q
  <2> QED BY <2>1
<1>9. ASSUME NEW i \in Nat, i \in P PROVE i + 1 \in P
  <2>1. ASSUME i + 1 <= k PROVE Q(i + 1)
    <3>1. i <= k /\ i + 1 \in 1 .. N /\ i + 1 \in 1 .. k /\ i + 1 - 1 = i
      BY <1>0, <1>7, <2>1
    <3>2. Q(i)
      BY <1>9, <3>1
    <3>3. f[i + 1] = MaxOf(f[i], End(l[i + 1]))
      BY <1>2, <3>1
    <3>4. ~(l[i + 1].seq > f[i])
      BY <1>5, <1>7, <3>1, SMTT(40)
    <3> DEFINE e == End(l[i + 1])
               b == l[i + 1].seq
               c == f[i]
               g == f[i + 1]
    <3>5. e \in Nat /\ b \in Nat /\ c \in Nat /\ b <= c /\ a <= c /\ g = MaxOf(c, e)
      BY <1>1, <3>1, <3>2, <3>3, <3>4
    <3>6. Reached(s, c) /\ Reached(s, e)
      BY <1>4, <3>1, <3>2
    <3>7. /\ \A p \in Nat : a <= p /\ p < c => p \in A
          /\ \A p \in Nat : a <= p /\ b <= p /\ p < e => p \in A
      BY <1>3, <3>1, <3>2
    <3> HIDE DEF e, b, c, g
    <3>8. g \in Nat /\ a <= g /\ (g = c \/ g = e)
      BY <1>0, <3>5 DEF MaxOf
    <3>9. ASSUME NEW p \in Nat, a <= p, p < g PROVE p \in A
      <4>1. CASE p < c
        BY <3>7, <3>9, <4>1
      <4>2. CASE ~(p < c)
        <5>1. b <= p /\ p < e
          BY <3>5, <3>8, <3>9, <4>2
        <5> QED BY <3>7, <3>9, <5>1
      <4> QED BY <4>1, <4>2
    <3>10. Reached(s, g)
      BY <3>6, <3>8
    <3> QED BY <3>8, <3>9, <3>10 DEF g
  <2> HIDE DEF Q
  <2> QED BY <2>1
<1>10. Nat \subseteq P
  <2> HIDE DEF P
  <2> QED BY <1>8, <1>9, SetInduction
<1>11. Q(k)
  <2>1. k \in Nat /\ k <= k
    BY <1>0, <1>7
  <2>2. k \in P
    BY <1>10, <2>1
  <2> HIDE DEF Q
  <2> QED BY <2>1, <2>2
<1> DEFINE g == f[k]
           n == g - a
<1>12. /\ g \in Nat /\ a <= g /\ Reached(s, g)
       /\ \A p \in Nat : a <= p /\ p < g => p \in A
  BY <1>11
<1> HIDE DEF Q, P, g
<1>13. g <= s.nxt
  BY <1>12, ReachedWasSent
<1>14. n \in Nat /\ a + n = g /\ n <= r.wnd
  <2>1. s.nxt \in Nat
    BY SegmentTypes
  <2> QED BY <1>0, <1>4, <1>12, <1>13, <2>1
<1>15. HasNext(r, n)
  <2> HIDE DEF n
  <2> QED BY <1>12, <1>14 DEF HasNext, a, A
<1>16. RecoveredTo(l, a) = g
  BY <1>6 DEF g
<1> QED BY <1>7, <1>12, <1>14, <1>15, <1>16 DEF l, a, k

\* A receiver that went on to the end of a segment.
LEMMA GoesOnward ==
    ASSUME NEW s \in Sender, NEW r \in Receiver, NEW r2 \in Receiver, Arrives(s, r),
           r.nxt <= r2.nxt, r.nxt + r.wnd <= r2.nxt + r2.wnd, Reached(s, r2.nxt),
           \A i \in DOMAIN r2.rlist : Reached(s, End(r2.rlist[i]))
    PROVE  Onward(r, r2, s)
<1>1. /\ s.una \in Nat /\ s.nxt \in Nat /\ s.wnd \in Nat /\ r.nxt \in Nat /\ r.wnd \in Nat
      /\ r2.nxt \in Nat /\ r2.wnd \in Nat
  BY SegmentTypes, ReceiverTypes
<1>2. /\ s.una <= r.nxt /\ s.nxt <= r.nxt + r.wnd /\ s.una + s.wnd <= r.nxt + r.wnd
  BY DEF Arrives
<1>3. /\ s.una <= r2.nxt /\ s.nxt <= r2.nxt + r2.wnd /\ s.una + s.wnd <= r2.nxt + r2.wnd
  <2> DEFINE a == r.nxt
             b == r.nxt + r.wnd
             c == r2.nxt
             e == r2.nxt + r2.wnd
             f == s.una + s.wnd
             g == s.una
             h == s.nxt
  <2>1. /\ a \in Int /\ b \in Int /\ c \in Int /\ e \in Int /\ f \in Int /\ g \in Int
        /\ h \in Int /\ a <= c /\ b <= e /\ g <= a /\ h <= b /\ f <= b
    BY <1>1, <1>2
  <2> HIDE DEF a, b, c, e, f, g, h
  <2>2. g <= c /\ h <= e /\ f <= e
    BY ONLY <2>1
  <2> QED BY <2>2 DEF c, e, f, g, h
<1> QED BY <1>3 DEF Onward, Arrives

\* One step after another.
LEMMA OnwardOn ==
    ASSUME NEW s, NEW r \in Receiver, NEW r2 \in Receiver, NEW r3 \in Receiver,
           Onward(r, r2, s), Onward(r2, r3, s)
    PROVE  Onward(r, r3, s)
<1>1. /\ r.nxt \in Nat /\ r.wnd \in Nat /\ r2.nxt \in Nat /\ r2.wnd \in Nat
      /\ r3.nxt \in Nat /\ r3.wnd \in Nat
  BY ReceiverTypes
<1>2. r.nxt <= r3.nxt
  BY <1>1 DEF Onward
<1>3. r.nxt + r.wnd <= r3.nxt + r3.wnd
  <2> DEFINE a == r.nxt + r.wnd
             b == r2.nxt + r2.wnd
             c == r3.nxt + r3.wnd
  <2>1. a \in Int /\ b \in Int /\ c \in Int /\ a <= b /\ b <= c
    BY <1>1 DEF Onward
  <2> HIDE DEF a, b, c
  <2>2. a <= c
    BY ONLY <2>1
  <2> QED BY <2>2 DEF a, c
<1> QED BY <1>2, <1>3 DEF Onward

\* The receiver after the next n units became readable, up to the end of a segment.
LEMMA TakenOnward ==
    ASSUME NEW s \in Sender, NEW r \in Receiver, NEW r2, NEW n, IsTaken(r, r2, n),
           HasNext(r, n), Arrives(s, r), Reached(s, r.nxt + n)
    PROVE  r2 \in Receiver /\ Onward(r, r2, s) /\ Arrives(s, r2)
<1>1. r2 \in Receiver /\ r2.rlist = r.rlist /\ r2.nxt = r.nxt + n /\ r2.wnd = r.wnd - n
  BY DEF IsTaken
<1>2. r.nxt \in Nat /\ r.wnd \in Nat /\ n \in Nat
  BY ReceiverTypes DEF HasNext
<1>3. r.nxt <= r2.nxt /\ r.nxt + r.wnd <= r2.nxt + r2.wnd
  <2> DEFINE a == r.nxt
             b == r.wnd
             c == r2.nxt
             e == r2.wnd
  <2>1. a \in Nat /\ b \in Nat /\ n \in Nat /\ c = a + n /\ e = b - n
    BY <1>1, <1>2
  <2> HIDE DEF a, b, c, e
  <2>2. a <= c /\ a + b <= c + e
    BY ONLY <2>1
  <2> QED BY <2>2 DEF a, b, c, e
<1>4. Reached(s, r2.nxt)
  BY <1>1
<1>5. \A i \in DOMAIN r2.rlist : Reached(s, End(r2.rlist[i]))
  BY <1>1 DEF Arrives
<1>6. Onward(r, r2, s)
  BY <1>1, <1>3, <1>4, <1>5, GoesOnward
<1> QED BY <1>1, <1>6 DEF Onward

\* The receiver without its first k saved segments.
Forget(r, k) == [r EXCEPT !.rlist = SubSeq(r.rlist, k + 1, Len(r.rlist))]

\* They are not needed.
LEMMA ForgetWorks ==
    ASSUME NEW s \in Sender, NEW r \in Receiver, GoodReceiver(r), Arrives(s, r),
           NEW k \in 0 .. Len(r.rlist), NEW d, Got(r, FALSE, d)
    PROVE  LET r2 == Forget(r, k)
           IN  r2 \in Receiver /\ GoodReceiver(r2) /\ Onward(r, r2, s) /\ Got(r2, FALSE, d)
<1> DEFINE l == SubSeq(r.rlist, k + 1, Len(r.rlist))
           r2 == Forget(r, k)
<1>0. /\ r.rlist \in Seq(SavedSegment) /\ r.nxt \in Nat /\ r.wnd \in Nat
      /\ Len(r.rlist) \in Nat /\ k \in Nat /\ k <= Len(r.rlist)
  BY ReceiverTypes
<1>1. l \in Seq(SavedSegment) /\ Dropped(r.rlist, l, k)
  <2> DEFINE q == r.rlist
             E == SavedSegment
  <2>1. q \in Seq(E) /\ k \in Nat /\ k <= Len(q)
    BY <1>0
  <2> HIDE DEF q, E
  <2>2. SubSeq(q, k + 1, Len(q)) \in Seq(E) /\ Dropped(q, SubSeq(q, k + 1, Len(q)), k)
    BY ONLY <2>1, DropFacts
  <2> QED BY <2>2 DEF q, E
<1> HIDE DEF l
<1>2. /\ r2 \in Receiver /\ r2.rlist = l /\ r2.nxt = r.nxt /\ r2.wnd = r.wnd
      /\ r2.rbuf = r.rbuf /\ r2.ahead = r.ahead
  <2>1. r2 = [r EXCEPT !.rlist = l]
    BY DEF Forget, l
  <2> QED BY <1>1, <2>1 DEF Receiver
<1> HIDE DEF r2
<1>3. \A i \in DOMAIN r2.rlist : \E j \in DOMAIN r.rlist : r2.rlist[i] = r.rlist[j]
  BY <1>1, <1>2 DEF Dropped
<1>4. GoodReceiver(r2)
  <2>1. ASSUME NEW i \in DOMAIN r2.rlist, NEW p \in Nat, r2.nxt <= p, r2.rlist[i].seq <= p,
               p < End(r2.rlist[i])
        PROVE  p \in DOMAIN r2.ahead
    <3>1. PICK j \in DOMAIN r.rlist : r2.rlist[i] = r.rlist[j]
      BY <1>3
    <3>2. r.nxt <= p /\ r.rlist[j].seq <= p /\ p < End(r.rlist[j])
      BY <1>2, <2>1, <3>1
    <3> QED BY <1>2, <3>2 DEF GoodReceiver
  <2> QED BY <1>2, <2>1 DEF GoodReceiver
<1>5. Onward(r, r2, s)
  <2>1. Reached(s, r2.nxt) /\ \A i \in DOMAIN r2.rlist : Reached(s, End(r2.rlist[i]))
    BY <1>2, <1>3 DEF Arrives
  <2>2. r.nxt <= r2.nxt /\ r.nxt + r.wnd <= r2.nxt + r2.wnd
    BY <1>0, <1>2
  <2> QED BY <1>2, <2>1, <2>2, GoesOnward
<1>6. Got(r2, FALSE, d)
  BY <1>2 DEF Got
<1> QED BY <1>2, <1>4, <1>5, <1>6 DEF r2

\* The receiver after the units f, which are the next ones, and what they let
\* recover.
TakeNext(r, f) == TakeFrom(PutIn(r, f), Len(f.data))
TakeSaved(r) ==
    Forget(TakeFrom(r, RecoveredTo(r.rlist, r.nxt) - r.nxt), Recovered(r.rlist, r.nxt))

\* A receiver that went on and is good for what was read, d.
WentOn(r, r2, s, d) ==
    /\ r2 \in Receiver /\ GoodReceiver(r2) /\ Onward(r, r2, s) /\ Got(r2, FALSE, d)
    /\ Arrives(s, r2)

\* The next units become readable.
LEMMA TakeNextWorks ==
    ASSUME NEW s \in Sender, NEW r \in Receiver, GoodReceiver(r), Arrives(s, r),
           NEW f, InPlace(f), f.seq = r.nxt, r.nxt > 0, Len(f.data) <= r.wnd,
           Reached(s, r.nxt + Len(f.data)), NEW d \in Seq(Nat), Got(r, FALSE, d)
    PROVE  WentOn(r, TakeNext(r, f), s, d) /\ TakeNext(r, f).nxt > 0
<1> DEFINE r1 == PutIn(r, f)
           n == Len(f.data)
           r2 == TakeFrom(r1, n)
<1>0. r.nxt \in Nat /\ r.wnd \in Nat /\ n \in Nat
  BY ReceiverTypes DEF InPlace
<1>1. IsPut(r, r1, f)
  BY PutWorks
<1> HIDE DEF r1
<1>2. /\ r1 \in Receiver /\ GoodReceiver(r1)
      /\ r1.rlist = r.rlist /\ r1.rbuf = r.rbuf /\ r1.nxt = r.nxt /\ r1.wnd = r.wnd
      /\ \A p \in Nat : f.seq <= p /\ p < f.seq + n => p \in DOMAIN r1.ahead
  BY <1>1 DEF IsPut
<1>3. Arrives(s, r1) /\ Onward(r, r1, s) /\ Got(r1, FALSE, d)
  <2>1. Arrives(s, r1)
    BY <1>2 DEF Arrives
  <2>2. r.nxt <= r1.nxt /\ r.nxt + r.wnd <= r1.nxt + r1.wnd
    BY <1>0, <1>2
  <2>3. Got(r1, FALSE, d)
    BY <1>2 DEF Got
  <2> QED BY <2>1, <2>2, <2>3 DEF Onward
<1> HIDE DEF n
<1>4. HasNext(r1, n)
  BY <1>0, <1>2 DEF HasNext, n
<1>5. IsTaken(r1, r2, n)
  BY <1>2, <1>4, TakeWorks
<1> HIDE DEF r2
<1>6. Reached(s, r1.nxt + n)
  BY <1>2 DEF n
<1>7. r2 \in Receiver /\ Onward(r1, r2, s) /\ Arrives(s, r2)
  BY <1>2, <1>3, <1>4, <1>5, <1>6, TakenOnward
<1>8. Onward(r, r2, s)
  BY <1>2, <1>3, <1>7, OnwardOn
<1>9. Got(r2, FALSE, d)
  <2>1. n > 0 => r1.nxt > 0
    BY <1>2
  <2> QED BY <1>0, <1>2, <1>3, <1>5, <1>7, <2>1, TakenGot
<1>10. GoodReceiver(r2) /\ r2.nxt > 0
  BY <1>0, <1>2, <1>5 DEF IsTaken
<1>11. TakeNext(r, f) = r2
  BY DEF TakeNext, r1, r2, n
<1> QED BY <1>7, <1>8, <1>9, <1>10, <1>11 DEF WentOn

\* So do the saved segments that follow them.
LEMMA TakeSavedWorks ==
    ASSUME NEW s \in Sender, GoodSender(s), NEW r \in Receiver, GoodReceiver(r),
           Arrives(s, r), r.nxt > 0, NEW d \in Seq(Nat), Got(r, FALSE, d)
    PROVE  WentOn(r, TakeSaved(r), s, d)
<1> DEFINE n == RecoveredTo(r.rlist, r.nxt) - r.nxt
           k == Recovered(r.rlist, r.nxt)
           r2 == TakeFrom(r, n)
           r3 == Forget(r2, k)
<1>1. k \in 0 .. Len(r.rlist) /\ HasNext(r, n) /\ Reached(s, r.nxt + n)
  BY RecoverFacts
<1> HIDE DEF n, k
<1>2. IsTaken(r, r2, n)
  BY <1>1, TakeWorks
<1> HIDE DEF r2
<1>3. r2 \in Receiver /\ Onward(r, r2, s) /\ Arrives(s, r2)
  BY <1>1, <1>2, TakenOnward
<1>4. Got(r2, FALSE, d)
  <2>1. n > 0 => r.nxt > 0
    OBVIOUS
  <2>2. n \in Nat
    BY <1>1 DEF HasNext
  <2> QED BY <1>2, <1>3, <2>1, <2>2, TakenGot
<1>5. GoodReceiver(r2) /\ k \in 0 .. Len(r2.rlist)
  BY <1>1, <1>2 DEF IsTaken
<1>6. r3 \in Receiver /\ GoodReceiver(r3) /\ Onward(r2, r3, s) /\ Got(r3, FALSE, d)
  BY <1>3, <1>4, <1>5, ForgetWorks
<1> HIDE DEF r3
<1>7. Onward(r, r3, s)
  BY <1>3, <1>6, OnwardOn
<1>8. TakeSaved(r) = r3
  BY DEF TakeSaved, r3, r2, n, k
<1>9. Arrives(s, r3)
  BY <1>6 DEF Onward
<1> QED BY <1>6, <1>7, <1>8, <1>9 DEF WentOn

-----------------------------------------------------------------------------
(***************************************************************************)
(* The data of a packet.                                                   *)
(***************************************************************************)
\* The steps of process change the receiving half of the end.
LEMMA RcvSteps ==
    ASSUME NEW t \in Tcb
    PROVE  /\ \A f : Written(t, f) = RcvEnd(t, PutIn(Rcv(t), f), t.read_enable)
           /\ \A n : Consume(t, n) = RcvEnd(t, TakeFrom(Rcv(t), n), t.read_enable)
<1> DEFINE r == Rcv(t)
<1>0. /\ r \in Receiver /\ r.rlist = t.rlist /\ r.rbuf = t.rbuf /\ r.ahead = t.ahead
      /\ r.nxt = t.rcv_nxt /\ r.wnd = t.rcv_wnd
  BY Halves
<1> HIDE DEF r
<1>1. ASSUME NEW f PROVE Written(t, f) = RcvEnd(t, PutIn(r, f), t.read_enable)
  <2> DEFINE a == Put(t.ahead, f)
             x == PutIn(r, f)
  <2>1. Written(t, f) = [t EXCEPT !.ahead = a]
    BY DEF Written, Put
  <2>2. /\ x.rlist = t.rlist /\ x.rbuf = t.rbuf /\ x.ahead = a /\ x.nxt = t.rcv_nxt
        /\ x.wnd = t.rcv_wnd
    <3>1. x = [r EXCEPT !.ahead = a]
      BY <1>0 DEF PutIn
    <3> HIDE DEF a, x
    <3> QED BY <1>0, <3>1 DEF Receiver
  <2> HIDE DEF a, x
  <2>3. [t EXCEPT !.ahead = a] = RcvEnd(t, x, t.read_enable)
    BY <2>2 DEF RcvEnd, Tcb
  <2> QED BY <2>1, <2>3 DEF x
<1>2. ASSUME NEW n PROVE Consume(t, n) = RcvEnd(t, TakeFrom(r, n), t.read_enable)
  <2> DEFINE b == t.rbuf \o [i \in 1 .. n |-> t.ahead[t.rcv_nxt + i - 1]]
             c == t.rcv_nxt + n
             e == t.rcv_wnd - n
             a == [p \in {q \in DOMAIN t.ahead : q >= t.rcv_nxt + n} |-> t.ahead[p]]
             x == TakeFrom(r, n)
  <2>1. Consume(t, n) = [t EXCEPT !.rbuf = b, !.rcv_nxt = c, !.rcv_wnd = e, !.ahead = a]
    BY DEF Consume
  <2>2. /\ x.rlist = t.rlist /\ x.rbuf = b /\ x.ahead = a /\ x.nxt = c /\ x.wnd = e
    <3>1. x = [r EXCEPT !.rbuf = b, !.nxt = c, !.wnd = e, !.ahead = a]
      BY <1>0 DEF TakeFrom
    <3> HIDE DEF a, b, c, e, x
    <3> QED BY <1>0, <3>1 DEF Receiver
  <2> HIDE DEF a, b, c, e, x
  <2>3. [t EXCEPT !.rbuf = b, !.rcv_nxt = c, !.rcv_wnd = e, !.ahead = a]
           = RcvEnd(t, x, t.read_enable)
    BY <2>2 DEF RcvEnd, Tcb
  <2> QED BY <2>1, <2>3 DEF x
<1> QED BY <1>1, <1>2 DEF r

\* One change of it after another.
LEMMA RcvEndTwice ==
    ASSUME NEW t \in Tcb, NEW r, NEW r2, NEW re, NEW re2
    PROVE  RcvEnd(RcvEnd(t, r, re), r2, re2) = RcvEnd(t, r2, re2)
BY DEF RcvEnd, Tcb

\* What Recover does with the end and its saved segments.
LEMMA RecoverIs ==
    ASSUME NEW t
    PROVE  /\ Recover(t).t = Consume(t, RecoveredTo(t.rlist, t.rcv_nxt) - t.rcv_nxt)
           /\ Recover(t).rest = SubSeq(t.rlist, Recovered(t.rlist, t.rcv_nxt) + 1, Len(t.rlist))
<1> DEFINE l == t.rlist
           a == t.rcv_nxt
           k == Recovered(l, a)
           g == RecoveredTo(l, a)
<1>1. Recover(t) = [t |-> Consume(t, g - a), rest |-> SubSeq(l, k + 1, Len(l)),
                    found |-> g > a]
  BY DEF Recover, RecoveredTo, Recovered, Gaps, Reach, IsReach
<1> HIDE DEF k, g, l, a
<1>2. Recover(t).t = Consume(t, g - a) /\ Recover(t).rest = SubSeq(l, k + 1, Len(l))
  <2> DEFINE x == Consume(t, g - a)
             y == SubSeq(l, k + 1, Len(l))
             b == g > a
             z == Recover(t)
  <2>1. z = [t |-> x, rest |-> y, found |-> b]
    BY <1>1
  <2> HIDE DEF x, y, b, z
  <2>2. z.t = x /\ z.rest = y
    BY ONLY <2>1
  <2> QED BY <2>2 DEF x, y, z
<1> QED BY ONLY <1>2 DEF k, g, l, a

\* What reading data makes of the end.
ReadEnd(t, f) == RcvEnd(t, TakeSaved(TakeNext(Rcv(t), f)), FALSE)

\* The units of a packet that are next, with their place in both streams.
IsNext(w, u, f, d) ==
    /\ InPlace(f) /\ f.seq = w.t.rcv_nxt /\ f.seq > 0 /\ Len(f.data) <= w.t.rcv_wnd
    /\ Reached(Snd(u), f.seq + Len(f.data)) /\ d \in Seq(Nat) /\ ~w.t.shutdown
    /\ GoodSender(Snd(u))

\* Reading them is a step of the receiver.
LEMMA ReadDataIs ==
    ASSUME NEW w, NEW u, NEW N, NEW B, NEW wr, NEW d, Works(w, u, N, B, wr, d), NEW f,
           IsNext(w, u, f, d)
    PROVE  /\ ReadData(w, f) =
                 Telling(WithEnd(w, ReadEnd(w.t, f)), IF w.t.read_enable THEN {"readable"} ELSE {})
           /\ WentOn(Rcv(w.t), TakeSaved(TakeNext(Rcv(w.t), f)), Snd(u), d)
<1> DEFINE t == w.t
           r == Rcv(t)
           re == t.read_enable
           n == Len(f.data)
           s == Snd(u)
           r1 == PutIn(r, f)
           r2 == TakeNext(r, f)
           r3 == TakeFrom(r2, RecoveredTo(r2.rlist, r2.nxt) - r2.nxt)
           r4 == TakeSaved(r2)
<1>0. /\ w \in Handler /\ t \in Tcb /\ u \in Tcb /\ GoodReceiver(r) /\ Got(r, t.shutdown, d)
      /\ re \in BOOLEAN /\ Arrives(s, r)
  BY WorksFacts, ZenonT(60) DEF Works, GoodHandler, Flow, Tcb
<1>1. r \in Receiver /\ s \in Sender /\ r.nxt = t.rcv_nxt /\ r.wnd = t.rcv_wnd
  BY <1>0, Halves
<1>2. /\ InPlace(f) /\ f.seq = r.nxt /\ r.nxt > 0 /\ n <= r.wnd
      /\ Reached(s, r.nxt + n) /\ d \in Seq(Nat) /\ GoodSender(s) /\ t.shutdown = FALSE
  <2>1. t.shutdown \in BOOLEAN
    BY <1>0 DEF Tcb
  <2> QED BY <1>1, <2>1 DEF IsNext
<1>3. Got(r, FALSE, d)
  BY <1>0, <1>2
<1> HIDE DEF r, s
<1>4. r1 \in Receiver
  BY <1>1, <1>0, <1>2, PutWorks DEF IsPut
<1>5. WentOn(r, r2, s, d) /\ r2.nxt > 0
  BY <1>0, <1>1, <1>2, <1>3, TakeNextWorks
<1>6. r2 \in Receiver /\ GoodReceiver(r2) /\ Arrives(s, r2) /\ Got(r2, FALSE, d) /\ Onward(r, r2, s)
  BY <1>5 DEF WentOn
<1>7. r2 = TakeFrom(r1, n)
  BY DEF TakeNext
<1> HIDE DEF r1, r2, n
<1>8. WentOn(r2, r4, s, d)
  BY <1>1, <1>2, <1>5, <1>6, TakeSavedWorks
<1>9. r3 \in Receiver
  <2>1. HasNext(r2, RecoveredTo(r2.rlist, r2.nxt) - r2.nxt)
    BY <1>1, <1>2, <1>6, RecoverFacts
  <2> QED BY <1>6, <2>1, TakeWorks DEF IsTaken
<1>10. r4 = Forget(r3, Recovered(r2.rlist, r2.nxt))
  BY DEF TakeSaved
<1>10a. r3.rlist = r2.rlist
  <2>1. HasNext(r2, RecoveredTo(r2.rlist, r2.nxt) - r2.nxt)
    BY <1>1, <1>2, <1>6, RecoverFacts
  <2> QED BY <1>6, <2>1, TakeWorks DEF IsTaken
<1> HIDE DEF r3, r4
<1>11. r4 \in Receiver /\ Onward(r, r4, s)
  <2>1. r4 \in Receiver /\ Onward(r2, r4, s)
    BY <1>8 DEF WentOn
  <2> QED BY <1>1, <1>6, <2>1, OnwardOn
<1>12. WentOn(r, r4, s, d)
  BY <1>8, <1>11 DEF WentOn
<1> DEFINE t1 == RcvEnd(t, r1, re)
           t2 == RcvEnd(t, r2, re)
           t3 == RcvEnd(t, r3, re)
           t4 == RcvEnd(t, r4, FALSE)
<1>13. /\ t1 \in Tcb /\ Rcv(t1) = r1 /\ t1.read_enable = re
       /\ t2 \in Tcb /\ Rcv(t2) = r2 /\ t2.read_enable = re
       /\ t3 \in Tcb /\ Rcv(t3) = r3 /\ t3.read_enable = re
  BY <1>0, <1>4, <1>6, <1>9, RcvEndIs DEF IsRcvEnd
<1>14. Written(t, f) = t1
  BY <1>0, RcvSteps DEF r, r1
<1>15. Consume(t1, n) = t2
  <2>1. Consume(t1, n) = RcvEnd(t1, TakeFrom(Rcv(t1), n), t1.read_enable)
    <3> HIDE DEF t1
    <3> QED BY <1>13, RcvSteps
  <2>2. Consume(t1, n) = RcvEnd(t1, r2, re)
    BY <1>7, <1>13, <2>1
  <2> QED BY <1>0, <2>2, RcvEndTwice
<1>16. t2.rlist = r2.rlist /\ t2.rcv_nxt = r2.nxt
  <2> HIDE DEF t2
  <2> QED BY <1>13, Halves
<1>17. Consume(t2, RecoveredTo(t2.rlist, t2.rcv_nxt) - t2.rcv_nxt) = t3
  <2> DEFINE k == RecoveredTo(r2.rlist, r2.nxt) - r2.nxt
  <2>1. Consume(t2, k) = RcvEnd(t2, TakeFrom(Rcv(t2), k), t2.read_enable)
    <3> HIDE DEF t2, k
    <3> QED BY <1>13, RcvSteps
  <2>2. TakeFrom(r2, k) = r3
    BY DEF r3
  <2> HIDE DEF k
  <2>3. Consume(t2, k) = RcvEnd(t2, r3, re)
    BY <1>13, <2>1, <2>2
  <2>4. Consume(t2, k) = t3
    BY <1>0, <2>3, RcvEndTwice
  <2> QED BY <1>16, <2>4 DEF k
<1> DEFINE rec == Recover(t2)
           rest == SubSeq(r2.rlist, Recovered(r2.rlist, r2.nxt) + 1, Len(r2.rlist))
<1>18. rec.t = t3 /\ rec.rest = rest
  <2>1. /\ rec.t = Consume(t2, RecoveredTo(t2.rlist, t2.rcv_nxt) - t2.rcv_nxt)
        /\ rec.rest = SubSeq(t2.rlist, Recovered(t2.rlist, t2.rcv_nxt) + 1, Len(t2.rlist))
    <3> HIDE DEF t2
    <3> QED BY RecoverIs
  <2> HIDE DEF t2, t3, rec
  <2> QED BY <1>16, <1>17, <2>1
<1>19. [t3 EXCEPT !.rlist = rest, !.read_enable = FALSE] = t4
  <2>1. r4 = [r3 EXCEPT !.rlist = rest]
    BY <1>10, <1>10a DEF Forget
  <2>2. /\ r4.rlist = rest /\ r4.rbuf = r3.rbuf /\ r4.ahead = r3.ahead /\ r4.nxt = r3.nxt
        /\ r4.wnd = r3.wnd
    <3> HIDE DEF rest
    <3> QED BY <1>9, <2>1 DEF Receiver
  <2> HIDE DEF rest
  <2>3. t4 = [t EXCEPT !.rlist = rest, !.rbuf = r3.rbuf, !.ahead = r3.ahead,
                       !.rcv_nxt = r3.nxt, !.rcv_wnd = r3.wnd, !.read_enable = FALSE]
    BY <2>2 DEF RcvEnd
  <2>4. t3 = [t EXCEPT !.rlist = r3.rlist, !.rbuf = r3.rbuf, !.ahead = r3.ahead,
                       !.rcv_nxt = r3.nxt, !.rcv_wnd = r3.wnd, !.read_enable = re]
    BY DEF RcvEnd
  <2> HIDE DEF t3, t4, t, re
  <2> QED BY <1>0, <2>3, <2>4 DEF Tcb
<1> DEFINE c == IF re THEN {"readable"} ELSE {}
<1>20. ReadData(w, f) = [w EXCEPT !.t = t4, !.told = IF re THEN @ \cup {"readable"} ELSE @]
  <2>1. Recover(Consume(Written(w.t, f), Len(f.data))) = rec
    BY <1>14, <1>15 DEF n
  <2>2. ReadData(w, f) = [w EXCEPT !.t = [rec.t EXCEPT !.rlist = rec.rest, !.read_enable = FALSE],
                                   !.told = IF re THEN @ \cup {"readable"} ELSE @]
    <3> HIDE DEF rec
    <3> QED BY <2>1 DEF ReadData
  <2> HIDE DEF rec, t3, t4, rest
  <2> QED BY <1>18, <1>19, <2>2
<1>21. ReadData(w, f) = Telling(WithEnd(w, t4), c)
  <2> HIDE DEF t4
  <2> QED BY <1>0, <1>20 DEF Telling, WithEnd, Handler
<1>22. ReadEnd(w.t, f) = t4
  BY DEF ReadEnd, r4, r2, r
<1> QED BY <1>12, <1>21, <1>22 DEF r, r2, r4, s

\* What a handler leaves in good order, where the application knows of a.
GoesWell(w, v, u, N, B, wr, d, a) ==
    Works(v, u, N, B, wr, d) /\ v.t.shutdown = w.t.shutdown /\ HeardBy(v, a)

\* The application is told that it can read, if it was not before.
LEMMA ReadDataWorks ==
    ASSUME NEW w, NEW u, NEW N, NEW B, NEW wr, NEW d, Works(w, u, N, B, wr, d), NEW f,
           IsNext(w, u, f, d), NEW a, HeardBy(w, a)
    PROVE  GoesWell(w, ReadData(w, f), u, N, B, wr, d, a)
<1> DEFINE r == TakeSaved(TakeNext(Rcv(w.t), f))
           re == FALSE
           t2 == RcvEnd(w.t, r, re)
           x == WithEnd(w, t2)
           c == IF w.t.read_enable THEN {"readable"} ELSE {}
           v == Telling(x, c)
<1>0. w \in Handler /\ w.t \in Tcb /\ w.t.shutdown = FALSE
  <2>1. w \in Handler /\ w.t \in Tcb
    BY WorksFacts
  <2> QED BY <2>1 DEF IsNext, Tcb
<1>1. ReadData(w, f) = v /\ WentOn(Rcv(w.t), r, Snd(u), d)
  BY ReadDataIs DEF ReadEnd
<1> HIDE DEF r
<1>2. r \in Receiver /\ GoodReceiver(r) /\ Onward(Rcv(w.t), r, Snd(u)) /\ Got(r, w.t.shutdown, d)
  BY <1>0, <1>1 DEF WentOn
<1>3. re \in BOOLEAN
  OBVIOUS
<1> HIDE DEF re
<1>4. /\ Works(x, u, N, B, wr, d) /\ x.t = t2 /\ x.told = w.told /\ x.out = w.out
      /\ IsRcvEnd(w.t, t2, r, re)
  BY <1>2, <1>3, ReceiverWorks
<1> HIDE DEF t2, x
<1>5. c \in SUBSET {"open", "closed", "readable", "writeable"}
      /\ (w.t.read_enable => "readable" \in c)
  OBVIOUS
<1> HIDE DEF c
<1>6. Works(v, u, N, B, wr, d) /\ v.t = x.t /\ v.told = x.told \cup c
  BY <1>4, <1>5, TellingWorks, ZenonT(60)
<1> HIDE DEF v
<1>7. /\ v.t.state = w.t.state /\ v.t.shutdown = w.t.shutdown /\ v.t.sbuf = w.t.sbuf
      /\ v.t.write_enable = w.t.write_enable
  BY <1>4, <1>6 DEF IsRcvEnd
<1>8. Told(w) \subseteq Told(v) /\ (w.t.read_enable => "readable" \in Told(v))
  BY <1>0, <1>4, <1>5, <1>6, <1>7 DEF Told
<1>9. HeardBy(v, a)
  BY <1>7, <1>8 DEF HeardBy, Heard
<1> QED BY <1>1, <1>6, <1>7, <1>9 DEF GoesWell

\* The receiver with the units f saved.
Saved(f) == [seq |-> f.seq, len |-> Len(f.data)]
SaveIn(r, f) == [PutIn(r, f) EXCEPT !.rlist = SaveSegment(r.rlist, Saved(f))]

\* Where a segment is put into the list of saved ones.
LEMMA SaveSegmentFacts ==
    ASSUME NEW l \in Seq(SavedSegment), NEW g \in SavedSegment
    PROVE  /\ SaveSegment(l, g) \in Seq(SavedSegment)
           /\ \A i \in DOMAIN SaveSegment(l, g) :
                 SaveSegment(l, g)[i] = g \/ \E j \in DOMAIN l : SaveSegment(l, g)[i] = l[j]
<1> DEFINE N == Len(l)
           S == {i \in DOMAIN l : l[i].seq >= g.seq} \cup {Len(l) + 1}
           k == Min(S)
           c == InsertAt(l, k, g)
<1>0. N \in Nat /\ DOMAIN l = 1 .. N
  OBVIOUS
<1>1. SaveSegment(l, g) = c
  BY DEF SaveSegment
<1>2. S \subseteq 1 .. N + 1 /\ S \subseteq Nat /\ S # {}
  BY <1>0
<1> HIDE DEF S
<1>3. k \in S
  BY <1>2, MinFacts
<1> HIDE DEF k
<1>4. k \in 1 .. Len(l) + 1
  BY <1>2, <1>3
<1>5. c \in Seq(SavedSegment) /\ Inserted(l, c, k, g)
  <2> DEFINE E == SavedSegment
  <2>1. l \in Seq(E) /\ g \in E
    OBVIOUS
  <2> HIDE DEF E, c
  <2>2. InsertAt(l, k, g) \in Seq(E) /\ Inserted(l, InsertAt(l, k, g), k, g)
    BY ONLY <1>4, <2>1, InsertAtFacts
  <2> QED BY <2>2 DEF E, c
<1> HIDE DEF c
<1>6. /\ Len(c) = N + 1 /\ DOMAIN c = 1 .. N + 1
      /\ \A i \in 1 .. k - 1 : c[i] = l[i]
      /\ c[k] = g
      /\ \A i \in k .. N : c[i + 1] = l[i]
  <2>1. Len(c) = N + 1
    BY <1>5 DEF Inserted
  <2>2. DOMAIN c = 1 .. N + 1
    BY <1>5, <2>1
  <2> QED BY <1>5, <2>1, <2>2 DEF Inserted
<1>7. ASSUME NEW i \in DOMAIN c PROVE c[i] = g \/ \E j \in DOMAIN l : c[i] = l[j]
  <2>0. i \in 1 .. N + 1
    BY <1>6
  <2>1. CASE i < k
    <3>1. i \in 1 .. k - 1 /\ i \in 1 .. N
      BY <1>0, <1>4, <2>0, <2>1
    <3> QED BY <1>0, <1>6, <3>1
  <2>2. CASE i = k
    BY <1>6, <2>2
  <2>3. CASE i > k
    <3>1. i - 1 \in k .. N /\ i - 1 + 1 = i /\ i - 1 \in 1 .. N
      BY <1>0, <1>4, <2>0, <2>3
    <3>2. c[i] = l[i - 1]
      BY <1>6, <3>1
    <3> QED BY <1>0, <3>1, <3>2
  <2> QED BY <1>4, <2>0, <2>1, <2>2, <2>3
<1> QED BY <1>1, <1>5, <1>7

\* Saving units leaves a good receiver.
LEMMA SaveWorks ==
    ASSUME NEW s \in Sender, NEW r \in Receiver, GoodReceiver(r), Arrives(s, r),
           NEW f, InPlace(f), Len(f.data) > 0, Reached(s, f.seq + Len(f.data)),
           NEW shut, NEW d, Got(r, shut, d)
    PROVE  LET r2 == SaveIn(r, f)
           IN  r2 \in Receiver /\ GoodReceiver(r2) /\ Onward(r, r2, s) /\ Got(r2, shut, d)
<1> DEFINE r1 == PutIn(r, f)
           g == Saved(f)
           c == SaveSegment(r.rlist, g)
           r2 == SaveIn(r, f)
           n == Len(f.data)
<1>0. r.nxt \in Nat /\ r.wnd \in Nat /\ f.seq \in Nat /\ n \in Nat /\ r.rlist \in Seq(SavedSegment)
  BY ReceiverTypes DEF InPlace
<1>1. IsPut(r, r1, f)
  BY PutWorks
<1>r. r2 = [r1 EXCEPT !.rlist = c]
  BY DEF SaveIn
<1> HIDE DEF r1
<1>2. /\ r1 \in Receiver /\ GoodReceiver(r1)
      /\ r1.rlist = r.rlist /\ r1.rbuf = r.rbuf /\ r1.nxt = r.nxt /\ r1.wnd = r.wnd
      /\ \A p \in Nat : f.seq <= p /\ p < f.seq + n => p \in DOMAIN r1.ahead
  BY <1>1 DEF IsPut
<1> HIDE DEF n
<1>3. g \in SavedSegment /\ g.seq = f.seq /\ End(g) = f.seq + n
  <2>1. g = [seq |-> f.seq, len |-> n] /\ n \in Positive
    BY <1>0 DEF Saved, Positive, n
  <2> HIDE DEF g
  <2> QED BY <1>0, <2>1 DEF SavedSegment, End
<1> HIDE DEF g
<1>4. /\ c \in Seq(SavedSegment)
      /\ \A i \in DOMAIN c : c[i] = g \/ \E j \in DOMAIN r.rlist : c[i] = r.rlist[j]
  BY <1>0, <1>3, SaveSegmentFacts
<1> HIDE DEF c
<1>5. /\ r2 \in Receiver /\ r2.rlist = c /\ r2.rbuf = r.rbuf /\ r2.nxt = r.nxt
      /\ r2.wnd = r.wnd /\ r2.ahead = r1.ahead
  <2>1. /\ r2 \in Receiver /\ r2.rlist = c /\ r2.rbuf = r1.rbuf /\ r2.nxt = r1.nxt
        /\ r2.wnd = r1.wnd /\ r2.ahead = r1.ahead
    <3> HIDE DEF r2
    <3> QED BY <1>2, <1>4, <1>r DEF Receiver
  <2> QED BY <1>2, <2>1
<1> HIDE DEF r2
<1>6. GoodReceiver(r2)
  <2>1. ASSUME NEW i \in DOMAIN r2.rlist, NEW p \in Nat, r2.nxt <= p, r2.rlist[i].seq <= p,
               p < End(r2.rlist[i])
        PROVE  p \in DOMAIN r2.ahead
    <3>1. r2.rlist[i] = g \/ \E j \in DOMAIN r.rlist : r2.rlist[i] = r.rlist[j]
      BY <1>4, <1>5
    <3>2. CASE r2.rlist[i] = g
      BY <1>2, <1>3, <1>5, <2>1, <3>2
    <3>3. CASE \E j \in DOMAIN r.rlist : r2.rlist[i] = r.rlist[j]
      <4>1. PICK j \in DOMAIN r.rlist : r2.rlist[i] = r.rlist[j]
        BY <3>3
      <4>2. j \in DOMAIN r1.rlist /\ r1.nxt <= p /\ r1.rlist[j].seq <= p /\ p < End(r1.rlist[j])
        BY <1>2, <1>5, <2>1, <4>1
      <4>3. p \in DOMAIN r1.ahead
        BY <1>2, <4>2 DEF GoodReceiver
      <4> QED BY <1>5, <4>3
    <3> QED BY <3>1, <3>2, <3>3
  <2>2. /\ r1.wnd + Len(r1.rbuf) <= RcvBuf /\ RcvBuf <= r1.nxt + r1.wnd
        /\ \A p \in DOMAIN r1.ahead : r1.ahead[p] = p
    BY <1>2 DEF GoodReceiver
  <2> QED BY <1>2, <1>5, <2>1, <2>2 DEF GoodReceiver
<1>7. Onward(r, r2, s)
  <2>1. ASSUME NEW i \in DOMAIN r2.rlist PROVE Reached(s, End(r2.rlist[i]))
    <3>1. r2.rlist[i] = g \/ \E j \in DOMAIN r.rlist : r2.rlist[i] = r.rlist[j]
      BY <1>4, <1>5
    <3> QED BY <1>3, <3>1 DEF Arrives, n
  <2>2. Reached(s, r2.nxt)
    BY <1>5 DEF Arrives
  <2>3. r.nxt <= r2.nxt /\ r.nxt + r.wnd <= r2.nxt + r2.wnd
    BY <1>0, <1>5
  <2> QED BY <1>5, <2>1, <2>2, <2>3, GoesOnward
<1>8. Got(r2, shut, d)
  BY <1>5 DEF Got
<1> QED BY <1>5, <1>6, <1>7, <1>8 DEF r2

\* A handler that changes its receiving half, but not what is readable.
LEMMA ReceiverHeard ==
    ASSUME NEW w, NEW u, NEW N, NEW B, NEW wr, NEW d, Works(w, u, N, B, wr, d),
           NEW r \in Receiver, GoodReceiver(r), Onward(Rcv(w.t), r, Snd(u)),
           Got(r, w.t.shutdown, d), r.rbuf = w.t.rbuf, NEW a, HeardBy(w, a)
    PROVE  GoesWell(w, WithEnd(w, RcvEnd(w.t, r, w.t.read_enable)), u, N, B, wr, d, a)
<1> DEFINE re == w.t.read_enable
           t2 == RcvEnd(w.t, r, re)
           v == WithEnd(w, t2)
<1>0. w.t \in Tcb
  BY WorksFacts
<1>1. re \in BOOLEAN
  BY <1>0 DEF Tcb
<1>e. re = w.t.read_enable
  OBVIOUS
<1> HIDE DEF re
<1>2. /\ Works(v, u, N, B, wr, d) /\ v.t = t2 /\ v.told = w.told
      /\ IsRcvEnd(w.t, t2, r, re)
  BY <1>1, ReceiverWorks
<1> HIDE DEF t2, v
<1>3. /\ v.t.state = w.t.state /\ v.t.shutdown = w.t.shutdown /\ v.t.sbuf = w.t.sbuf
      /\ v.t.write_enable = w.t.write_enable /\ v.t.rbuf = w.t.rbuf
      /\ v.t.read_enable = w.t.read_enable
  BY <1>2, <1>e DEF IsRcvEnd
<1>4. Told(v) = Told(w)
  BY <1>2, <1>3 DEF Told
<1>5. HeardBy(v, a)
  BY <1>3, <1>4 DEF HeardBy, Heard
<1> QED BY <1>2, <1>3, <1>5 DEF GoesWell, v, t2, re

\* Units beyond a gap are kept.
LEMMA SaveDataWorks ==
    ASSUME NEW w, NEW u, NEW N, NEW B, NEW wr, NEW d, Works(w, u, N, B, wr, d), NEW f,
           InPlace(f), Len(f.data) > 0, Reached(Snd(u), f.seq + Len(f.data)),
           NEW a, HeardBy(w, a)
    PROVE  GoesWell(w, SaveData(w, f), u, N, B, wr, d, a)
<1> DEFINE t == w.t
           r == Rcv(t)
           re == t.read_enable
           r1 == PutIn(r, f)
           r2 == SaveIn(r, f)
           c == SaveSegment(r.rlist, Saved(f))
<1>0. /\ w \in Handler /\ t \in Tcb /\ u \in Tcb /\ GoodReceiver(r) /\ Got(r, t.shutdown, d)
      /\ re \in BOOLEAN /\ Arrives(Snd(u), r)
  BY WorksFacts, ZenonT(60) DEF Works, GoodHandler, Flow, Tcb
<1>1. r \in Receiver /\ Snd(u) \in Sender /\ r.rlist = t.rlist /\ r.rbuf = t.rbuf
  BY <1>0, Halves
<1>2. Written(t, f) = RcvEnd(t, r1, re)
  BY <1>0, RcvSteps
<1> HIDE DEF r
<1>3. IsPut(r, r1, f)
  BY <1>0, <1>1, PutWorks
<1>4. r2 = [r1 EXCEPT !.rlist = c]
  BY DEF SaveIn
<1>5. r2 \in Receiver /\ GoodReceiver(r2) /\ Onward(r, r2, Snd(u)) /\ Got(r2, t.shutdown, d)
  <2> DEFINE shut == t.shutdown
             s == Snd(u)
  <2>1. s \in Sender /\ Arrives(s, r) /\ Got(r, shut, d) /\ Reached(s, f.seq + Len(f.data))
    BY <1>0, <1>1
  <2> HIDE DEF shut, s, r2
  <2>2. LET x == SaveIn(r, f)
        IN  x \in Receiver /\ GoodReceiver(x) /\ Onward(r, x, s) /\ Got(x, shut, d)
    BY <1>0, <1>1, <2>1, SaveWorks
  <2> QED BY <2>2 DEF shut, s, r2
<1> HIDE DEF r1, r2
<1>6. r1 \in Receiver /\ r1.rlist = r.rlist /\ r1.rbuf = r.rbuf
  BY <1>3 DEF IsPut
<1>7. /\ r2.rlist = c /\ r2.rbuf = r1.rbuf /\ r2.ahead = r1.ahead /\ r2.nxt = r1.nxt
      /\ r2.wnd = r1.wnd
  <2> HIDE DEF c
  <2> QED BY <1>4, <1>6 DEF Receiver
<1>8. SaveData(w, f) = WithEnd(w, RcvEnd(t, r2, re))
  <2> DEFINE t1 == RcvEnd(t, r1, re)
  <2>1. t1.rlist = t.rlist
    <3>1. IsRcvEnd(t, t1, r1, re)
      BY <1>0, <1>6, RcvEndIs
    <3> HIDE DEF t1
    <3>2. t1.rlist = r1.rlist
      BY <3>1, Halves DEF IsRcvEnd
    <3> QED BY <1>1, <1>6, <3>2
  <2>2. SaveData(w, f) = [w EXCEPT !.t = [t1 EXCEPT !.rlist = SaveSegment(@, Saved(f))]]
    <3> HIDE DEF t1
    <3> QED BY <1>2 DEF SaveData, Saved, t1
  <2>3. [t1 EXCEPT !.rlist = SaveSegment(@, Saved(f))] = [t1 EXCEPT !.rlist = c]
    <3>1. [t1 EXCEPT !.rlist = SaveSegment(@, Saved(f))]
             = [t1 EXCEPT !.rlist = SaveSegment(t1.rlist, Saved(f))]
      OBVIOUS
    <3> HIDE DEF t1
    <3> QED BY <1>1, <2>1, <3>1
  <2>4. [t1 EXCEPT !.rlist = c] = RcvEnd(t, r2, re)
    <3> HIDE DEF c, t, re
    <3> QED BY <1>0, <1>7 DEF RcvEnd, Tcb
  <2> HIDE DEF t1
  <2> QED BY <2>2, <2>3, <2>4 DEF WithEnd
<1>9. r2.rbuf = w.t.rbuf
  BY <1>1, <1>6, <1>7
<1>10. GoesWell(w, WithEnd(w, RcvEnd(w.t, r2, w.t.read_enable)), u, N, B, wr, d, a)
  BY <1>5, <1>9, ReceiverHeard DEF r
<1> QED BY <1>8, <1>10

\* The receiver that ignores the next n units.
SkipIn(r, n) == [r EXCEPT !.nxt = r.nxt + n]

\* It keeps what it has; only the CONNECT message is ignored while somebody reads.
LEMMA SkipWorks ==
    ASSUME NEW s \in Sender, NEW r \in Receiver, GoodReceiver(r), Arrives(s, r),
           NEW n \in Nat, Reached(s, r.nxt + n), NEW shut \in BOOLEAN, NEW d, Got(r, shut, d),
           shut \/ (r.nxt = 0 /\ n = 1)
    PROVE  LET r2 == SkipIn(r, n)
           IN  r2 \in Receiver /\ GoodReceiver(r2) /\ Onward(r, r2, s) /\ Got(r2, shut, d)
<1> DEFINE x == r.nxt + n
           r2 == SkipIn(r, n)
<1>0. r.nxt \in Nat /\ r.wnd \in Nat /\ Len(r.rbuf) \in Nat /\ RcvBuf \in Nat
  BY ReceiverTypes, PseudoTcpAssumption
<1>1. x \in Nat /\ r.nxt <= x
  BY <1>0
<1>2. /\ r2 \in Receiver /\ r2.nxt = x /\ r2.wnd = r.wnd /\ r2.rlist = r.rlist
      /\ r2.rbuf = r.rbuf /\ r2.ahead = r.ahead
  <2>1. r2 = [r EXCEPT !.nxt = x]
    BY DEF SkipIn
  <2> HIDE DEF x, r2
  <2> QED BY <1>1, <2>1 DEF Receiver
<1> HIDE DEF r2
<1>3. Reached(s, r2.nxt)
  BY <1>2
<1>c. shut \/ (r.nxt = 0 /\ x = 1)
  BY <1>0
<1> HIDE DEF x
<1>4. GoodReceiver(r2)
  <2>1. ASSUME NEW i \in DOMAIN r2.rlist, NEW p \in Nat, r2.nxt <= p, r2.rlist[i].seq <= p,
               p < End(r2.rlist[i])
        PROVE  p \in DOMAIN r2.ahead
    <3>1. r.nxt <= p
      BY <1>0, <1>1, <1>2, <2>1
    <3> QED BY <1>2, <2>1, <3>1 DEF GoodReceiver
  <2>2. RcvBuf <= r2.nxt + r2.wnd
    <3>1. RcvBuf <= r.nxt + r.wnd
      BY DEF GoodReceiver
    <3> QED BY <1>0, <1>1, <1>2, <3>1
  <2> QED BY <1>2, <2>1, <2>2 DEF GoodReceiver
<1>5. Onward(r, r2, s)
  <2>1. r.nxt <= r2.nxt /\ r.nxt + r.wnd <= r2.nxt + r2.wnd
    BY <1>0, <1>1, <1>2
  <2>2. \A i \in DOMAIN r2.rlist : Reached(s, End(r2.rlist[i]))
    BY <1>2 DEF Arrives
  <2> QED BY <1>2, <1>3, <2>1, <2>2, GoesOnward
<1>6. Got(r2, shut, d)
  <2>1. CASE shut
    BY <1>2, <2>1 DEF Got
  <2>2. CASE ~shut
    <3>1. r.nxt = 0 /\ x = 1
      BY <1>c, <2>2
    <3>2. Len(d) + Len(r.rbuf) = 0
      BY <2>2, <3>1 DEF Got
    <3>3. Len(d) + Len(r2.rbuf) = IF r2.nxt = 0 THEN 0 ELSE r2.nxt - 1
      BY <1>2, <3>1, <3>2
    <3> QED BY <1>2, <3>3 DEF Got
  <2> QED BY <2>1, <2>2
<1> QED BY <1>2, <1>4, <1>5, <1>6 DEF r2

\* Units that are ignored are acknowledged all the same.
IgnoreData(w, n) == [w EXCEPT !.t.rcv_nxt = @ + n]

\* Nothing becomes readable.
LEMMA IgnoreDataWorks ==
    ASSUME NEW w, NEW u, NEW N, NEW B, NEW wr, NEW d, Works(w, u, N, B, wr, d), NEW n \in Nat,
           Reached(Snd(u), w.t.rcv_nxt + n), w.t.shutdown \/ (w.t.rcv_nxt = 0 /\ n = 1),
           NEW a, HeardBy(w, a)
    PROVE  GoesWell(w, IgnoreData(w, n), u, N, B, wr, d, a)
<1> DEFINE t == w.t
           r == Rcv(t)
           re == t.read_enable
           r2 == SkipIn(r, n)
           x == t.rcv_nxt + n
<1>0. /\ w \in Handler /\ t \in Tcb /\ u \in Tcb /\ GoodReceiver(r) /\ Got(r, t.shutdown, d)
      /\ re \in BOOLEAN /\ Arrives(Snd(u), r) /\ t.shutdown \in BOOLEAN
  <2>1. w \in Handler /\ t \in Tcb /\ GoodReceiver(r) /\ Got(r, t.shutdown, d)
    BY WorksFacts
  <2>2. u \in Tcb /\ GoodHandler(w, u, N, B, wr, d)
    BY DEF Works
  <2>3. Arrives(Snd(u), r)
    BY <2>2 DEF GoodHandler, Flow
  <2>4. re \in BOOLEAN /\ t.shutdown \in BOOLEAN
    BY <2>1 DEF Tcb
  <2> QED BY <2>1, <2>2, <2>3, <2>4
<1>1. /\ r \in Receiver /\ Snd(u) \in Sender /\ r.rlist = t.rlist /\ r.rbuf = t.rbuf
      /\ r.nxt = t.rcv_nxt /\ r.wnd = t.rcv_wnd /\ r.ahead = t.ahead
  BY <1>0, Halves
<1> HIDE DEF r
<1>2. r2 \in Receiver /\ GoodReceiver(r2) /\ Onward(r, r2, Snd(u)) /\ Got(r2, t.shutdown, d)
  <2> DEFINE shut == t.shutdown
             s == Snd(u)
  <2>1. s \in Sender /\ Arrives(s, r) /\ Got(r, shut, d) /\ Reached(s, r.nxt + n)
        /\ shut \in BOOLEAN /\ (shut \/ (r.nxt = 0 /\ n = 1))
    BY <1>0, <1>1
  <2> HIDE DEF shut, s, r2
  <2>2. LET y == SkipIn(r, n)
        IN  y \in Receiver /\ GoodReceiver(y) /\ Onward(r, y, s) /\ Got(y, shut, d)
    BY <1>0, <1>1, <2>1, SkipWorks
  <2> QED BY <2>2 DEF shut, s, r2
<1>3. /\ r2.rlist = t.rlist /\ r2.rbuf = t.rbuf /\ r2.ahead = t.ahead /\ r2.nxt = x
      /\ r2.wnd = t.rcv_wnd
  <2>1. r2 = [r EXCEPT !.nxt = x]
    BY <1>1 DEF SkipIn
  <2> HIDE DEF r2, x
  <2> QED BY <1>1, <2>1 DEF Receiver
<1> HIDE DEF r2
<1>4. IgnoreData(w, n) = WithEnd(w, [t EXCEPT !.rcv_nxt = x])
  BY <1>0 DEF IgnoreData, WithEnd, Handler, Tcb
<1>5. [t EXCEPT !.rcv_nxt = x] = RcvEnd(t, r2, re)
  <2> HIDE DEF x, t
  <2> QED BY <1>0, <1>3 DEF RcvEnd, Tcb, re
<1>6. r2.rbuf = w.t.rbuf
  BY <1>3
<1>7. GoesWell(w, WithEnd(w, RcvEnd(w.t, r2, w.t.read_enable)), u, N, B, wr, d, a)
  BY <1>2, <1>6, ReceiverHeard DEF r
<1> QED BY <1>4, <1>5, <1>7

\* What the peer has to be for a handler: as the other end of both streams.
GoodPeer(u) == GoodSender(Snd(u)) /\ GoodReceiver(Rcv(u))

\* The new units of a packet are ignored, readable or kept.
LEMMA StoreDataWorks ==
    ASSUME NEW w, NEW u, NEW N, NEW B, NEW wr, NEW d, Works(w, u, N, B, wr, d),
           GoodPeer(u), d \in Seq(Nat), NEW f, NEW ctrl \in BOOLEAN,
           IsNew(w.t, f, ctrl, Snd(u)), NEW a, HeardBy(w, a)
    PROVE  GoesWell(w, StoreData(w, f, ctrl \/ w.t.shutdown), u, N, B, wr, d, a)
<1> DEFINE ig == ctrl \/ w.t.shutdown
           n == Len(f.data)
           v == StoreData(w, f, ig)
<1>0. /\ w \in Handler /\ w.t \in Tcb /\ f.data \in Seq(Nat) /\ n \in Nat
      /\ w.t.rcv_nxt \in Nat /\ w.t.rcv_wnd \in Nat
  BY WorksFacts, EndTypes DEF IsNew
<1>s. GoesWell(w, w, u, N, B, wr, d, a)
  BY DEF GoesWell
<1>1. CASE f.data = <<>>
  <2>1. v = w
    BY <1>1 DEF StoreData
  <2> QED BY <1>s, <2>1
<1>2. CASE f.data # <<>>
  <2>0. n > 0
    BY <1>0, <1>2
  <2>1. /\ f.seq \in Nat /\ w.t.rcv_nxt <= f.seq
        /\ f.seq + n <= w.t.rcv_nxt + w.t.rcv_wnd
        /\ Reached(Snd(u), f.seq + n)
        /\ \A i \in 1 .. n : f.data[i] = f.seq + i - 1
        /\ ctrl => f.seq = 0 /\ n = 1
        /\ ~ctrl => f.seq > 0
    BY <2>0 DEF IsNew
  <2>2. InPlace(f)
    BY <1>0, <2>1 DEF InPlace
  <2>3. CASE ig /\ f.seq = w.t.rcv_nxt
    <3>1. v = IgnoreData(w, n)
      BY <1>2, <2>3 DEF StoreData, IgnoreData
    <3> HIDE DEF n, v
    <3>2. Reached(Snd(u), w.t.rcv_nxt + n) /\ (w.t.shutdown \/ (w.t.rcv_nxt = 0 /\ n = 1))
      BY <2>1, <2>3
    <3>3. GoesWell(w, IgnoreData(w, n), u, N, B, wr, d, a)
      BY <1>0, <3>2, IgnoreDataWorks
    <3> QED BY <3>1, <3>3 DEF v
  <2>4. CASE ig /\ f.seq # w.t.rcv_nxt
    <3>1. v = w
      BY <1>2, <2>4 DEF StoreData
    <3> QED BY <1>s, <3>1
  <2>5. CASE ~ig /\ f.seq = w.t.rcv_nxt
    <3>1. v = ReadData(w, f)
      BY <1>2, <2>5 DEF StoreData
    <3>2. IsNext(w, u, f, d)
      <4>1. n <= w.t.rcv_wnd
        BY <1>0, <2>1, <2>5
      <4> QED BY <2>1, <2>2, <2>5, <4>1 DEF IsNext, GoodPeer
    <3>3. GoesWell(w, ReadData(w, f), u, N, B, wr, d, a)
      BY <3>2, ReadDataWorks
    <3> QED BY <3>1, <3>3
  <2>6. CASE ~ig /\ f.seq # w.t.rcv_nxt
    <3>1. v = SaveData(w, f)
      BY <1>2, <2>6 DEF StoreData
    <3>2. GoesWell(w, SaveData(w, f), u, N, B, wr, d, a)
      BY <2>0, <2>1, <2>2, SaveDataWorks
    <3> QED BY <3>1, <3>2
  <2> QED BY <2>3, <2>4, <2>5, <2>6
<1> QED BY <1>1, <1>2

\* The last part of process.
LEMMA TakeDataWorks ==
    ASSUME NEW w, NEW u, NEW N, NEW B, NEW wr, NEW d, Works(w, u, N, B, wr, d),
           GoodPeer(u), d \in Seq(Nat), NEW m \in B, NEW io \in Conditions,
           NEW a, HeardBy(w, a)
    PROVE  LET v == TakeData(w, m, io)
           IN  GoesWell(w, v, u, N, B, wr, d, a) /\ Running(v.t)
<1> DEFINE f == Fitting(w.t, m)
           ctrl == m.ctrl
           x == StoreData(w, f, ctrl \/ w.t.shutdown)
           recovered == /\ f.data # <<>> /\ ~(ctrl \/ w.t.shutdown) /\ f.seq = w.t.rcv_nxt
                        /\ Recover(Consume(Written(w.t, f), Len(f.data))).found
           flags == IF recovered THEN "sfImmediateAck" ELSE AckFlags(w.t, m)
           v == AttemptSend(x, flags, io)
<1>1. TakeData(w, m, io) = v
  BY DEF TakeData
<1>2. IsNew(w.t, f, ctrl, Snd(u)) /\ ctrl \in BOOLEAN
  BY FittingIs, ArrivingIs
<1> HIDE DEF f, ctrl
<1>3. GoesWell(w, x, u, N, B, wr, d, a)
  BY <1>2, StoreDataWorks
<1> HIDE DEF x, flags
<1>4. Works(x, u, N, B, wr, d) /\ x.t.shutdown = w.t.shutdown /\ HeardBy(x, a)
  BY <1>3 DEF GoesWell
<1>5. Works(v, u, N, B, wr, d) /\ Sends(x, v) /\ Running(v.t)
  BY <1>4, AttemptSendFacts
<1> HIDE DEF v
<1>6. HeardBy(v, a) /\ v.t.shutdown = w.t.shutdown
  BY <1>4, <1>5, SendsHeard DEF Sends
<1> QED BY <1>1, <1>5, <1>6 DEF GoesWell

-----------------------------------------------------------------------------
(***************************************************************************)
(* The calls of an end, from its state between two calls.                  *)
(***************************************************************************)
\* An end t between two calls: its peer u, the packets, what was written and read,
\* and what its application was told.
Ready(t, u, N, B, wr, d, a) ==
    /\ Works(Start(t), u, N, B, wr, d) /\ GoodPeer(u) /\ d \in Seq(Nat)
    /\ Heard(t, a) /\ Running(t)

\* A call of it that has ended in order.
Done(t, v, u, N, B, wr, d, a) ==
    GoesWell(Start(t), v, u, N, B, wr, d, a) /\ Running(v.t)

\* A handler that has just begun.
LEMMA StartIs ==
    ASSUME NEW t
    PROVE  /\ Start(t).t = t /\ Start(t).out = {} /\ Start(t).told = {}
           /\ Told(Start(t)) = {}
           /\ \A a : HeardBy(Start(t), a) <=> Heard(t, a)
<1>1. Start(t).t = t /\ Start(t).out = {} /\ Start(t).told = {}
  BY DEF Start
<1>2. Told(Start(t)) = {}
  BY <1>1 DEF Told
<1>3. \A a : a \cup {} = a
  OBVIOUS
<1> QED BY <1>1, <1>2, <1>3 DEF HeardBy

\* What an end is between two calls.
LEMMA ReadyFacts ==
    ASSUME NEW t, NEW u, NEW N, NEW B, NEW wr, NEW d, NEW a, Ready(t, u, N, B, wr, d, a)
    PROVE  /\ Works(Start(t), u, N, B, wr, d) /\ Start(t) \in Handler /\ t \in Tcb
           /\ GoodPeer(u) /\ d \in Seq(Nat) /\ Heard(t, a) /\ Running(t)
           /\ HeardBy(Start(t), a) /\ HeardSoFar(Start(t), a)
           /\ Start(t).t = t /\ Local(t) /\ Life(t, wr)
<1>1. Start(t).t = t /\ HeardBy(Start(t), a)
  BY StartIs DEF Ready
<1>2. HeardSoFar(Start(t), a)
  BY <1>1 DEF HeardSoFar, HeardBy, Heard
<1>3. Start(t) \in Handler /\ Start(t).t \in Tcb /\ Local(Start(t).t) /\ Life(Start(t).t, wr)
  BY WorksFacts DEF Ready
<1> QED BY <1>1, <1>2, <1>3 DEF Ready

\* process.
LEMMA ProcessWorks ==
    ASSUME NEW t, NEW u, NEW N, NEW B, NEW wr, NEW d, NEW a, Ready(t, u, N, B, wr, d, a),
           NEW m \in B, NEW io \in Conditions
    PROVE  Done(t, Process(t, m, io), u, N, B, wr, d, a)
<1> DEFINE w == Start(t)
<1>0. /\ Works(w, u, N, B, wr, d) /\ GoodPeer(u) /\ d \in Seq(Nat) /\ Running(t)
      /\ HeardBy(w, a) /\ HeardSoFar(w, a) /\ w.t = t
  BY ReadyFacts
<1> HIDE DEF w
<1>1. CASE t.state = "TCP_CLOSED"
  <2>1. Process(t, m, io) = w
    BY <1>1 DEF Process, w
  <2> QED BY <1>0, <2>1 DEF Done, GoesWell, w
<1>2. CASE t.state # "TCP_CLOSED"
  <2> DEFINE c == TakeConnect(w, m)
             k == TakeAck(c, m, io)
             e == Establish(k, m)
             y == TellWriteable(e)
             v == TakeData(y, m, io)
  <2>1. Process(t, m, io) = IF k.t.state = "TCP_CLOSED" THEN k ELSE v
    BY <1>2 DEF Process, w
  <2>2. /\ Works(c, u, N, B, wr, d) /\ c.t.shutdown = w.t.shutdown /\ HeardSoFar(c, a)
        /\ c.t.state # "TCP_CLOSED"
    BY <1>0, <1>2, TakeConnectWorks DEF GoodPeer
  <2> HIDE DEF c
  <2>3. TookAck(c, k, u, N, B, wr, d)
    BY <2>2, TakeAckWorks
  <2> HIDE DEF k
  <2>4. /\ Works(k, u, N, B, wr, d) /\ Continues(c, k) /\ HeardSoFar(k, a)
        /\ k.t.shutdown = w.t.shutdown /\ (k.t.state = "TCP_CLOSED" => Running(k.t))
    BY <2>2, <2>3, ContinuesHeard DEF TookAck, Continues
  <2>5. CASE k.t.state = "TCP_CLOSED"
    <3>1. HeardBy(k, a)
      BY <2>5 DEF HeardBy, Heard
    <3> QED BY <2>1, <2>4, <2>5, <3>1 DEF Done, GoesWell, w
  <2>6. CASE k.t.state # "TCP_CLOSED"
    <3>1. Works(e, u, N, B, wr, d) /\ e.t.shutdown = k.t.shutdown /\ HeardSoFar(e, a)
      BY <2>4, EstablishWorks
    <3> HIDE DEF e
    <3>2. Works(y, u, N, B, wr, d) /\ y.t.shutdown = e.t.shutdown /\ HeardBy(y, a)
      BY <3>1, TellWriteableWorks
    <3> HIDE DEF y
    <3>3. GoesWell(y, v, u, N, B, wr, d, a) /\ Running(v.t)
      BY <1>0, <3>2, TakeDataWorks
    <3> HIDE DEF v
    <3> QED BY <2>1, <2>4, <2>6, <3>1, <3>2, <3>3 DEF Done, GoesWell, w
  <2> QED BY <2>5, <2>6
<1> QED BY <1>1, <1>2

\* Connect.
LEMMA ConnectCall ==
    ASSUME NEW t, NEW u, NEW N, NEW B, NEW wr, NEW d, NEW a, Ready(t, u, N, B, wr, d, a),
           t.state = "TCP_LISTEN", NEW io \in Conditions
    PROVE  Done(t, Connect(t, io), u, N, B, wr, d, a)
<1> DEFINE w == Start(t)
           st == "TCP_SYN_SENT"
           x == QueueConnectMessage([w EXCEPT !.t.state = st])
           flags == "sfNone"
           v == AttemptSend(x, flags, io)
<1>0. /\ Works(w, u, N, B, wr, d) /\ GoodPeer(u) /\ w.t = t
  BY ReadyFacts
<1>1. Connect(t, io) = v
  BY DEF Connect
<1>2. st \in {"TCP_SYN_SENT", "TCP_SYN_RECEIVED"} /\ st # "TCP_ESTABLISHED"
  OBVIOUS
<1> HIDE DEF w, st, flags
<1>3. Works(x, u, N, B, wr, d) /\ x.t.shutdown = w.t.shutdown /\ x.t.state = st
  <2>1. GoodReceiver(Rcv(u)) /\ w.t.state = "TCP_LISTEN"
    BY <1>0 DEF GoodPeer
  <2> QED BY <1>0, <1>2, <2>1, ConnectWorks, ZenonT(60)
<1> HIDE DEF x
<1>4. Works(v, u, N, B, wr, d) /\ Sends(x, v) /\ Running(v.t)
  BY <1>2, <1>3, AttemptSendFacts
<1> HIDE DEF v
<1>5. HeardBy(v, a)
  BY <1>2, <1>3, <1>4 DEF HeardBy, Heard, Sends
<1>6. v.t.shutdown = w.t.shutdown
  BY <1>3, <1>4 DEF Sends
<1> QED BY <1>1, <1>4, <1>5, <1>6 DEF Done, GoesWell, w

\* The timer of retransmissions.
LEMMA RetransmitCall ==
    ASSUME NEW t, NEW u, NEW N, NEW B, NEW wr, NEW d, NEW a, Ready(t, u, N, B, wr, d, a),
           t.rto_base, NEW io \in Conditions
    PROVE  Done(t, RetransmitTimeout(t, io), u, N, B, wr, d, a)
<1> DEFINE w == Start(t)
           r == Retransmit(w, io)
<1>0. /\ Works(w, u, N, B, wr, d) /\ t \in Tcb /\ Local(t) /\ HeardBy(w, a) /\ w.t = t
  BY ReadyFacts
<1>1. w.t.snd_una < w.t.snd_nxt
  BY <1>0, EndTypes DEF Local
<1>2. RetransmitTimeout(t, io) =
         IF r.t.state = "TCP_CLOSED" THEN r
         ELSE [r EXCEPT !.t.ssthresh = HalfInFlight(r.t), !.t.cwnd = r.t.mss]
  BY DEF RetransmitTimeout
<1> HIDE DEF w
<1>3. Works(r, u, N, B, wr, d) /\ Resent(w, r)
  BY <1>0, <1>1, RetransmitWorks
<1> HIDE DEF r
<1>4. HeardBy(r, a) /\ r.t.shutdown = w.t.shutdown /\ Running(r.t) /\ r.t.rto_base = TRUE
  BY <1>0, <1>3, ContinuesHeard DEF Resent, Continues, Running
<1>5. CASE r.t.state = "TCP_CLOSED"
  BY <1>2, <1>3, <1>4, <1>5 DEF Done, GoesWell, w
<1>6. CASE r.t.state # "TCP_CLOSED"
  <2> DEFINE cw == r.t.mss
             ss == HalfInFlight(r.t)
             dup == r.t.dup_acks
             rec == r.t.recover
             v == SetSame(r, cw, ss, dup, rec)
  <2>0. r \in Handler /\ r.t \in Tcb /\ Local(r.t) /\ r.t.snd_una <= r.t.snd_nxt
    <3>1. r \in Handler /\ r.t \in Tcb /\ Local(r.t)
      BY <1>3, WorksFacts
    <3> QED BY <1>3, <3>1, EndTypes DEF Resent
  <2>1. [r EXCEPT !.t.ssthresh = HalfInFlight(r.t), !.t.cwnd = r.t.mss] = v
    <3> HIDE DEF ss
    <3>1. [r EXCEPT !.t.ssthresh = ss, !.t.cwnd = r.t.mss] = v
      BY <2>0, ZenonT(60) DEF SetSame, WithEnd, Set, Handler, Tcb
    <3> QED BY <3>1 DEF ss
  <2>2. /\ cw \in Positive /\ dup \in 0 .. 4 /\ rec \in Nat /\ rec <= r.t.snd_nxt
    BY <2>0 DEF Tcb, Local
  <2>3. ss \in Positive
    <3> DEFINE z == 0
    <3>1. z \in Nat
      OBVIOUS
    <3> HIDE DEF z
    <3> QED BY <2>0, <3>1, WindowFacts
  <2> HIDE DEF cw, ss, dup, rec
  <2>4. /\ Works(v, u, N, B, wr, d) /\ Alike(r, v) /\ v.t.rto_base = r.t.rto_base
        /\ v.t.sbuf = r.t.sbuf
    BY <1>3, <2>2, <2>3, SetSameWorks
  <2> HIDE DEF v
  <2>5. Continues(r, v)
    BY <2>4 DEF Alike, Continues
  <2>6. HeardBy(v, a) /\ v.t.shutdown = w.t.shutdown /\ Running(v.t)
    BY <1>4, <2>4, <2>5, ContinuesHeard DEF Continues, Running
  <2> QED BY <1>2, <1>6, <2>1, <2>4, <2>6 DEF Done, GoesWell, w
<1> QED BY <1>5, <1>6

\* A packet with no data: a probe of the window or a delayed acknowledgement.
LEMMA EmptyCall ==
    ASSUME NEW t, NEW u, NEW N, NEW B, NEW wr, NEW d, NEW a, Ready(t, u, N, B, wr, d, a),
           NEW seq \in Int, seq <= t.snd_nxt
    PROVE  Done(t, Packet(Start(t), seq, FALSE, 0, 0), u, N, B, wr, d, a)
<1> DEFINE w == Start(t)
           v == Packet(w, seq, FALSE, 0, 0)
<1>0. /\ Works(w, u, N, B, wr, d) /\ t \in Tcb /\ HeardBy(w, a) /\ w.t = t /\ Running(t)
  BY ReadyFacts
<1>1. /\ w \in Handler /\ u \in Tcb /\ N \in SUBSET Message /\ B \in SUBSET Message
      /\ wr \in Nat /\ GoodHandler(w, u, N, B, wr, d)
  BY <1>0 DEF Works
<1> HIDE DEF w
<1>2. /\ v \in Handler /\ GoodHandler(v, u, N, B, wr, d) /\ Sends(w, v)
      /\ v.t = [w.t EXCEPT !.t_ack = FALSE]
  BY <1>0, <1>1, EmptyPacket
<1> HIDE DEF v
<1>3. Works(v, u, N, B, wr, d)
  BY <1>1, <1>2 DEF Works
<1>4. HeardBy(v, a) /\ v.t.shutdown = w.t.shutdown
  BY <1>0, <1>2, SendsHeard DEF Sends
<1>5. Running(v.t)
  <2>1. v.t.sbuf = t.sbuf /\ v.t.rto_base = t.rto_base /\ v.t.snd_wnd = t.snd_wnd
        /\ v.t.failed = t.failed
    BY <1>0, <1>2 DEF Tcb
  <2> QED BY <1>0, <2>1 DEF Running
<1> QED BY <1>3, <1>4, <1>5 DEF Done, GoesWell, v, w

\* The timers of probes and of delayed acknowledgements.
LEMMA ProbeAndAckCalls ==
    ASSUME NEW t, NEW u, NEW N, NEW B, NEW wr, NEW d, NEW a, Ready(t, u, N, B, wr, d, a)
    PROVE  /\ Done(t, ProbeWindow(t), u, N, B, wr, d, a)
           /\ Done(t, DelayedAck(t), u, N, B, wr, d, a)
           /\ Done(t, Closedown(Start(t)), u, N, B, wr, d, a)
<1>0. /\ Works(Start(t), u, N, B, wr, d) /\ t \in Tcb /\ Start(t).t = t /\ Running(t)
  BY ReadyFacts
<1> DEFINE p == t.snd_nxt - 1
           q == t.snd_nxt
<1>1. p \in Int /\ q \in Int /\ p <= t.snd_nxt /\ q <= t.snd_nxt
  BY <1>0, EndTypes
<1>2. ProbeWindow(t) = Packet(Start(t), p, FALSE, 0, 0)
  BY DEF ProbeWindow
<1>3. DelayedAck(t) = Packet(Start(t), q, FALSE, 0, 0)
  BY <1>0 DEF DelayedAck, Ack
<1> HIDE DEF p, q
<1>4. Done(t, Packet(Start(t), p, FALSE, 0, 0), u, N, B, wr, d, a)
  BY <1>1, EmptyCall
<1>5. Done(t, Packet(Start(t), q, FALSE, 0, 0), u, N, B, wr, d, a)
  BY <1>1, EmptyCall
<1> DEFINE v == Closedown(Start(t))
<1>6. /\ Works(v, u, N, B, wr, d) /\ v.t.state = "TCP_CLOSED"
      /\ v.t.shutdown = Start(t).t.shutdown /\ v.t.rto_base = t.rto_base
      /\ v.t.sbuf = t.sbuf /\ v.t.snd_wnd = t.snd_wnd
      /\ v.t.failed = t.failed
  BY <1>0, ClosedownWorks
<1> HIDE DEF v
<1>7. HeardBy(v, a) /\ Running(v.t)
  BY <1>0, <1>6 DEF HeardBy, Heard, Running
<1>8. Done(t, v, u, N, B, wr, d, a)
  BY <1>6, <1>7 DEF Done, GoesWell
<1> QED BY <1>2, <1>3, <1>4, <1>5, <1>8 DEF v

\* A handler that has just begun, with another end.
LEMMA StartWith ==
    ASSUME NEW t, NEW t2
    PROVE  WithEnd(Start(t), t2) = Start(t2)
BY DEF WithEnd, Start

\* NotifyMTU.
LEMMA NotifyCall ==
    ASSUME NEW t, NEW u, NEW N, NEW B, NEW wr, NEW d, NEW a, Ready(t, u, N, B, wr, d, a),
           NEW mtu \in Positive
    PROVE  Done(t, Start(NotifyMTU(t, mtu)), u, N, B, wr, d, a)
<1> DEFINE w == Start(t)
           t1 == [t EXCEPT !.mtu_advise = mtu]
           x == WithEnd(w, t1)
<1>0. /\ Works(w, u, N, B, wr, d) /\ w \in Handler /\ t \in Tcb /\ HeardBy(w, a) /\ w.t = t
      /\ Running(t)
  BY ReadyFacts
<1>g. GoodEnd(t, wr, d)
  <2>1. GoodEnd(w.t, wr, d)
    BY <1>0, WorksFacts
  <2> QED BY <1>0, <2>1
<1>1. /\ t1 \in Tcb /\ Snd(t1) = Snd(t) /\ Rcv(t1) = Rcv(t) /\ t1.state = t.state
      /\ t1.shutdown = t.shutdown /\ t1.rto_base = t.rto_base /\ t1.recover = t.recover
      /\ t1.mss = t.mss /\ t1.msslevel = t.msslevel /\ t1.sbuf = t.sbuf /\ t1.rbuf = t.rbuf
      /\ t1.snd_wnd = t.snd_wnd /\ t1.failed = t.failed
      /\ t1.read_enable = t.read_enable /\ t1.write_enable = t.write_enable
  BY <1>0 DEF Tcb, Snd, Rcv
<1>2. x = Start(t1)
  BY StartWith
<1>n. NotifyMTU(t, mtu) = IF t.state = "TCP_ESTABLISHED" THEN AdjustMTU(t1) ELSE t1
  BY DEF NotifyMTU
<1> HIDE DEF t1, w
<1>3. x \in Handler /\ x.t = t1 /\ x.out = w.out /\ x.told = w.told
  BY <1>0, <1>1, WithEndIs
<1> HIDE DEF x
<1>4. Tuned(w.t, x.t)
  BY <1>0, <1>g, <1>1, <1>3, ReTuned
<1>5. Works(x, u, N, B, wr, d)
  BY <1>0, <1>3, <1>4, TunedWorks
<1>6. Continues(w, x) /\ x.t.sbuf = w.t.sbuf
  BY <1>0, <1>1, <1>3 DEF Continues, Alike
<1>7. HeardBy(x, a) /\ Running(x.t) /\ x.t.shutdown = w.t.shutdown
  BY <1>0, <1>1, <1>3, <1>6, ContinuesHeard DEF Running
<1>8. CASE t.state # "TCP_ESTABLISHED"
  <2>1. Start(NotifyMTU(t, mtu)) = x
    BY <1>2, <1>8, <1>n
  <2> QED BY <1>5, <1>7, <2>1 DEF Done, GoesWell, w
<1>9. CASE t.state = "TCP_ESTABLISHED"
  <2> DEFINE st == x.t.state
             v == WithEnd(x, AdjustMTU([x.t EXCEPT !.state = st]))
  <2>1. st \in TcpState /\ st = x.t.state
    BY <1>1, <1>3 DEF Tcb
  <2>2. [x.t EXCEPT !.state = st] = t1
    <3>1. [t1 EXCEPT !.state = t1.state] = t1
      BY <1>1 DEF Tcb
    <3> QED BY <1>3, <3>1
  <2>3. v = Start(AdjustMTU(t1))
    <3> DEFINE t2 == AdjustMTU(t1)
    <3>1. v = WithEnd(Start(t1), t2)
      BY <1>2, <2>2
    <3> HIDE DEF t2, v
    <3>2. v = Start(t2)
      BY <3>1, StartWith
    <3> QED BY <3>2 DEF t2
  <2> HIDE DEF st
  <2>4. /\ Works(v, u, N, B, wr, d) /\ v.told = x.told
        /\ v.t.state = st /\ v.t.shutdown = x.t.shutdown
        /\ v.t.rto_base = x.t.rto_base /\ v.t.sbuf = x.t.sbuf
        /\ v.t.rbuf = x.t.rbuf /\ v.t.snd_wnd = x.t.snd_wnd
        /\ v.t.failed = x.t.failed
        /\ v.t.read_enable = x.t.read_enable /\ v.t.write_enable = x.t.write_enable
    BY <1>5, <2>1, AdjustWorks
  <2> HIDE DEF v
  <2>5. Continues(x, v)
    BY <2>1, <2>4 DEF Continues, Alike
  <2>6. HeardBy(v, a) /\ Running(v.t) /\ v.t.shutdown = w.t.shutdown
    BY <1>7, <2>4, <2>5, ContinuesHeard DEF Running
  <2>7. Start(NotifyMTU(t, mtu)) = v
    BY <1>n, <1>9, <2>3
  <2> QED BY <2>4, <2>6, <2>7 DEF Done, GoesWell, w
<1> QED BY <1>8, <1>9

\* Close: the application stops listening.
LEMMA CloseCall ==
    ASSUME NEW t, NEW u, NEW N, NEW B, NEW wr, NEW d, NEW a, Ready(t, u, N, B, wr, d, a)
    PROVE  LET v == Start([t EXCEPT !.shutdown = TRUE])
           IN  /\ Works(v, u, N, B, wr, d) /\ v.t.shutdown = TRUE /\ Running(v.t)
               /\ v.t.state = t.state /\ v.t.sbuf = t.sbuf
<1> DEFINE w == Start(t)
           t1 == [t EXCEPT !.shutdown = TRUE]
           v == WithEnd(w, t1)
<1>0. /\ Works(w, u, N, B, wr, d) /\ w \in Handler /\ t \in Tcb /\ w.t = t
      /\ Running(t)
  BY ReadyFacts
<1>1. /\ GoodHandler(w, u, N, B, wr, d) /\ u \in Tcb /\ N \in SUBSET Message
      /\ B \in SUBSET Message /\ wr \in Nat
  BY <1>0 DEF Works
<1>2. /\ t1 \in Tcb /\ Snd(t1) = Snd(t) /\ Rcv(t1) = Rcv(t) /\ t1.state = t.state
      /\ t1.shutdown = TRUE /\ t1.rto_base = t.rto_base /\ t1.recover = t.recover
      /\ t1.mss = t.mss /\ t1.msslevel = t.msslevel /\ t1.sbuf = t.sbuf
      /\ t1.failed = t.failed
      /\ t1.snd_wnd = t.snd_wnd /\ t1.snd_una = t.snd_una /\ t1.snd_nxt = t.snd_nxt
  BY <1>0 DEF Tcb, Snd, Rcv
<1>3. v = Start(t1)
  BY StartWith
<1> HIDE DEF t1, w
<1>4. v \in Handler /\ v.t = t1 /\ v.out = w.out /\ v.told = w.told
  BY <1>0, <1>2, WithEndIs
<1> HIDE DEF v
<1>5. GoodEnd(v.t, wr, d)
  <2>1. GoodEnd(t, wr, d)
    BY <1>0, <1>1 DEF GoodHandler
  <2>2. Local(t1)
    BY <1>2, <2>1 DEF GoodEnd, Local
  <2>3. Life(t1, wr)
    BY <1>2, <2>1 DEF GoodEnd, Life
  <2>4. Got(Rcv(t1), t1.shutdown, d)
    BY <1>2, <2>1 DEF GoodEnd, Got
  <2> QED BY <1>2, <1>4, <2>1, <2>2, <2>3, <2>4 DEF GoodEnd
<1>6. Forward(Snd(w.t), Snd(v.t), Rcv(u)) /\ Onward(Rcv(w.t), Rcv(v.t), Snd(u))
  BY <1>0, <1>1, <1>2, <1>4, StandingStill
<1>7. GoodHandler(v, u, N, B, wr, d)
  <2>1. \A m \in v.out : m \in w.out \/ (GoodPacket(Snd(v.t), m) /\ GoodAck(Snd(u), Rcv(v.t), m))
    BY <1>4
  <2> QED BY <1>0, <1>1, <1>4, <1>5, <1>6, <2>1, HandlerGoesOn
<1>8. Works(v, u, N, B, wr, d)
  BY <1>1, <1>4, <1>7 DEF Works
<1>9. Running(v.t)
  BY <1>0, <1>2, <1>4 DEF Running
<1> QED BY <1>2, <1>3, <1>4, <1>8, <1>9 DEF t1

\* The units that the application writes next.
Units(wr, k) == [i \in 1 .. k |-> wr + i]

\* The first n of them.
LEMMA FirstUnits ==
    ASSUME NEW wr \in Nat, NEW k \in Nat, NEW n \in Nat, n <= k
    PROVE  /\ Units(wr, k) \in Seq(Nat) /\ Len(Units(wr, k)) = k
           /\ SubSeq(Units(wr, k), 1, n) \in Seq(Nat) /\ Len(SubSeq(Units(wr, k), 1, n)) = n
           /\ DOMAIN SubSeq(Units(wr, k), 1, n) = 1 .. n
           /\ \A i \in 1 .. n : SubSeq(Units(wr, k), 1, n)[i] = wr + i
<1> DEFINE U == Units(wr, k)
           E == Nat
           one == 1
<1>1. U \in Seq(Nat) /\ Len(U) = k /\ \A i \in 1 .. k : U[i] = wr + i
  BY DEF Units
<1>2. U \in Seq(E) /\ one \in Nat /\ one > 0 /\ one <= n + 1 /\ n <= Len(U) /\ one = 1
  BY <1>1
<1> HIDE DEF U, E
<1>3. /\ SubSeq(U, one, n) \in Seq(E) /\ Len(SubSeq(U, one, n)) = n + 1 - one
      /\ DOMAIN SubSeq(U, one, n) = 1 .. n + 1 - one
      /\ \A i \in 1 .. n + 1 - one : SubSeq(U, one, n)[i] = U[one + i - 1]
  <2> HIDE DEF one
  <2> QED BY <1>2, SubSeqFacts
<1>4. n + 1 - one = n
  OBVIOUS
<1>5. \A i \in 1 .. n : SubSeq(U, 1, n)[i] = wr + i
  <2> TAKE i \in 1 .. n
  <2>1. one + i - 1 = i /\ i \in 1 .. k /\ i \in 1 .. n + 1 - one
    OBVIOUS
  <2>2. SubSeq(U, one, n)[i] = U[i]
    BY <1>3, <2>1
  <2> QED BY <1>1, <2>1, <2>2
<1> QED BY <1>1, <1>3, <1>4, <1>5 DEF U, E

\* Send when the buffer is full: the application asks to be told.
LEMMA SendBlocks ==
    ASSUME NEW t, NEW u, NEW N, NEW B, NEW wr, NEW d, NEW a, Ready(t, u, N, B, wr, d, a),
           SendSpace(t) = 0
    PROVE  Done(t, Start([t EXCEPT !.write_enable = TRUE]), u, N, B, wr, d, a \ {"writeable"})
<1> DEFINE w == Start(t)
           re == t.read_enable
           we == TRUE
           t2 == Promises(t, re, we)
           v == WithEnd(w, t2)
<1>0. /\ Works(w, u, N, B, wr, d) /\ t \in Tcb /\ w.t = t /\ Running(t) /\ Heard(t, a)
      /\ w.told = {}
  BY ReadyFacts, StartIs
<1>1. re \in BOOLEAN /\ we \in BOOLEAN /\ we = TRUE
  BY <1>0 DEF Tcb
<1>2. v = Start([t EXCEPT !.write_enable = TRUE])
  <2>1. t2 = [t EXCEPT !.write_enable = TRUE]
    BY <1>0 DEF Promises, Tcb
  <2> HIDE DEF t2
  <2> QED BY <2>1, StartWith
<1> HIDE DEF w, re, we
<1>3. /\ Works(v, u, N, B, wr, d) /\ v.told = w.told
      /\ v.t.state = t.state /\ v.t.shutdown = t.shutdown
      /\ v.t.read_enable = re /\ v.t.write_enable = we
      /\ v.t.rto_base = t.rto_base /\ v.t.snd_wnd = t.snd_wnd
      /\ v.t.sbuf = t.sbuf /\ v.t.rbuf = t.rbuf /\ v.t.failed = t.failed
  <2> DEFINE y == WithEnd(w, Promises(w.t, re, we))
  <2>1. /\ Works(y, u, N, B, wr, d) /\ y.told = w.told
        /\ y.t.state = w.t.state /\ y.t.shutdown = w.t.shutdown
        /\ y.t.read_enable = re /\ y.t.write_enable = we
        /\ y.t.rto_base = w.t.rto_base /\ y.t.snd_wnd = w.t.snd_wnd
        /\ y.t.sbuf = w.t.sbuf /\ y.t.rbuf = w.t.rbuf /\ y.t.failed = w.t.failed
    <3>1. Works(w, u, N, B, wr, d) /\ re \in BOOLEAN /\ we \in BOOLEAN
      BY <1>0, <1>1
    <3> QED BY ONLY <3>1, PromisesWork
  <2>2. y = v
    BY <1>0
  <2> HIDE DEF y, v
  <2> QED BY <1>0, <2>1, <2>2
<1> HIDE DEF v
<1>4. Len(t.sbuf) >= kIdealRefillSize
  <2> DEFINE L == Len(t.sbuf)
  <2>1. L \in Nat /\ SndBuf \in Nat /\ RcvBuf \in Nat /\ RcvBuf <= SndBuf
    BY <1>0, EndTypes, PseudoTcpAssumption
  <2>2. SndBuf - L = 0
    BY DEF SendSpace
  <2>3. kIdealRefillSize = (SndBuf + RcvBuf) \div 2
    BY DEF kIdealRefillSize
  <2> HIDE DEF L
  <2>4. L >= (SndBuf + RcvBuf) \div 2
    BY <2>1, <2>2
  <2> QED BY <2>3, <2>4 DEF L
<1>5. Told(v) = {}
  BY <1>0, <1>3 DEF Told
<1>6. HeardBy(v, a \ {"writeable"})
  <2>1. "readable" \in a => "readable" \in a \ {"writeable"}
    OBVIOUS
  <2> QED BY <1>0, <1>1, <1>3, <1>4, <1>5, <2>1 DEF HeardBy, Heard, re
<1>7. Running(v.t)
  BY <1>0, <1>3 DEF Running
<1>8. v.t.shutdown = w.t.shutdown
  BY <1>0, <1>3
<1> QED BY <1>2, <1>3, <1>6, <1>7, <1>8 DEF Done, GoesWell, w

\* Send of n units that there is room for.
LEMMA SendQueues ==
    ASSUME NEW t, NEW u, NEW N, NEW B, NEW wr, NEW d, NEW a, Ready(t, u, N, B, wr, d, a),
           t.state = "TCP_ESTABLISHED", "writeable" \in a, NEW n \in Nat, n > 0,
           Len(t.sbuf) + n <= SndBuf, NEW k \in Nat, n <= k, NEW io \in Conditions
    PROVE  Done(t, AttemptSend(Queue(Start(t), SubSeq(Units(wr, k), 1, n), FALSE), "sfNone", io),
                u, N, B, wr + n, d, a)
<1> DEFINE w == Start(t)
           units == SubSeq(Units(wr, k), 1, n)
           ctrl == FALSE
           st == w.t.state
           wnd == w.t.snd_wnd
           t2 == QueuedEnd(w.t, st, wnd, units, ctrl)
           x == WithEnd(w, t2)
           wr2 == wr + n
           flags == "sfNone"
           v == AttemptSend(x, flags, io)
<1>0. /\ Works(w, u, N, B, wr, d) /\ w \in Handler /\ t \in Tcb /\ w.t = t
      /\ Local(t) /\ Life(t, wr) /\ Heard(t, a) /\ wr \in Nat /\ u \in Tcb
      /\ GoodSender(Snd(w.t)) /\ w.told = {} /\ GoodHandler(w, u, N, B, wr, d)
  BY ReadyFacts, StartIs, WorksFacts DEF Works, Ready
<1>1. /\ units \in Seq(Nat) /\ Len(units) = n /\ DOMAIN units = 1 .. n
      /\ \A i \in 1 .. n : units[i] = wr + i
  BY <1>0, FirstUnits, SMTT(40)
<1>2. Queue(w, units, ctrl) = x
  BY <1>0, QueueIs
<1>3. st \in TcpState /\ wnd \in Nat /\ wr2 \in Nat /\ st = t.state /\ wnd = t.snd_wnd
      /\ ctrl \in BOOLEAN /\ ctrl = FALSE /\ wr2 = wr + n
  BY <1>0, EndTypes
<1>4. w.t.snd_una + Len(w.t.sbuf) = wr + 1 /\ w.t.snd_una \in Nat /\ Len(w.t.sbuf) \in Nat
  BY <1>0, EndTypes DEF Life
<1> HIDE DEF w, units, ctrl, st, wnd, wr2, flags
<1>5. Follow(Snd(w.t), units, ctrl)
  <2>1. Snd(w.t).una + Len(Snd(w.t).sbuf) = wr + 1
    BY <1>4 DEF Snd
  <2>2. \A i \in DOMAIN units : units[i] = wr + 1 + i - 1
    BY <1>0, <1>1
  <2>3. wr + 1 # 0
    BY <1>0
  <2> DEFINE y == Snd(w.t).una + Len(Snd(w.t).sbuf)
  <2> HIDE DEF y
  <2>4. y = wr + 1
    BY <2>1 DEF y
  <2>5. \A i \in DOMAIN units : units[i] = y + i - 1
    BY <2>2, <2>4
  <2> QED BY <1>1, <1>3, <2>3, <2>4, <2>5 DEF Follow, y
<1>6. /\ t2 \in Tcb /\ Unqueued(w.t, t2) /\ t2.state = st
      /\ t2.snd_una = w.t.snd_una /\ Len(t2.sbuf) = Len(w.t.sbuf) + Len(units)
  <2> DEFINE e == w.t
  <2>1. e \in Tcb /\ GoodSender(Snd(e)) /\ Follow(Snd(e), units, ctrl)
    BY <1>0, <1>5
  <2> HIDE DEF e
  <2>2. LET z == QueuedEnd(e, st, wnd, units, ctrl)
        IN  /\ z \in Tcb /\ Unqueued(e, z) /\ z.state = st
            /\ z.snd_una = e.snd_una /\ Len(z.sbuf) = Len(e.sbuf) + Len(units)
    <3>1. wnd \in Nat /\ st \in TcpState
      BY <1>3
    <3> QED BY ONLY <3>1, <2>1, QueuedEndIs
  <2> QED BY <2>2 DEF e
<1>7. w.t.snd_una + wnd <= u.rcv_nxt + u.rcv_wnd
  <2>1. Arrives(Snd(w.t), Rcv(u))
    BY <1>0 DEF GoodHandler, Flow
  <2>2. Snd(w.t).una = w.t.snd_una /\ Snd(w.t).wnd = t.snd_wnd /\ Rcv(u).nxt = u.rcv_nxt
        /\ Rcv(u).wnd = u.rcv_wnd
    BY <1>0 DEF Snd, Rcv
  <2> QED BY <1>3, <2>1, <2>2 DEF Arrives
<1>8. Len(w.t.sbuf) + Len(units) <= SndBuf
  BY <1>0, <1>1
<1>9. Life(t2, wr2)
  <2>1. t2.snd_una + Len(t2.sbuf) = wr2 + 1
    <3> DEFINE p == w.t.snd_una
               q == Len(w.t.sbuf)
               y == t2.snd_una + Len(t2.sbuf)
    <3>1. p \in Nat /\ q \in Nat /\ p + q = wr + 1 /\ y = p + (q + n) /\ wr \in Nat
      BY <1>0, <1>1, <1>4, <1>6
    <3> HIDE DEF p, q, y
    <3>2. y = wr2 + 1
      BY <1>3, <3>1
    <3> QED BY <3>2 DEF y
  <2>2. t2.state = "TCP_ESTABLISHED"
    BY <1>3, <1>6
  <2> HIDE DEF t2
  <2> QED BY <2>1, <2>2 DEF Life
<1>10. Works(x, u, N, B, wr2, d)
  BY <1>0, <1>3, <1>5, <1>7, <1>8, <1>9, QueuedWorks
<1> HIDE DEF t2
<1>11. x.t = t2 /\ x.told = w.told
  BY <1>0, <1>6, WithEndIs
<1> HIDE DEF x
<1>12. /\ x.t.read_enable = t.read_enable /\ x.t.rbuf = t.rbuf /\ x.t.state = t.state
       /\ x.t.shutdown = t.shutdown
  <2>1. Rcv(t2).rbuf = Rcv(t).rbuf
    BY <1>0, <1>6 DEF Unqueued
  <2> QED BY <1>0, <1>3, <1>6, <1>11, <2>1 DEF Unqueued, Rcv
<1>13. HeardBy(x, a)
  BY <1>0, <1>12 DEF HeardBy, Heard
<1>14. Works(v, u, N, B, wr2, d) /\ Sends(x, v) /\ Running(v.t)
  BY <1>10, AttemptSendFacts
<1>15. AttemptSend(Queue(w, units, ctrl), flags, io) = v
  BY <1>2
<1> HIDE DEF v
<1>16. HeardBy(v, a) /\ v.t.shutdown = w.t.shutdown
  BY <1>0, <1>12, <1>13, <1>14, SendsHeard DEF Sends
<1> QED BY <1>14, <1>15, <1>16 DEF Done, GoesWell, w, units, ctrl, flags, wr2

\* Send.
LEMMA SendCall ==
    ASSUME NEW t, NEW u, NEW N, NEW B, NEW wr, NEW d, NEW a, Ready(t, u, N, B, wr, d, a),
           t.state = "TCP_ESTABLISHED", "writeable" \in a, NEW k \in Nat, k > 0,
           NEW io \in Conditions
    PROVE  LET n == MinOf(k, SendSpace(t))
           IN  /\ n \in Nat
               /\ Done(t, Send(t, Units(wr, k), io), u, N, B, wr + n, d,
                       a \ (IF n = 0 THEN {"writeable"} ELSE {}))
<1> DEFINE n == MinOf(k, SendSpace(t))
           L == Len(t.sbuf)
           z == SendSpace(t)
           units == Units(wr, k)
<1>0. t \in Tcb /\ Local(t) /\ wr \in Nat
  BY ReadyFacts DEF Works
<1>1. L \in Nat /\ SndBuf \in Nat /\ L <= SndBuf
  BY <1>0, EndTypes, PseudoTcpAssumption DEF Local
<1>2. z = SndBuf - L
  BY DEF SendSpace
<1>3. Len(units) = k
  <2>1. k <= k
    OBVIOUS
  <2> QED BY <1>0, <2>1, FirstUnits
<1>4. Send(t, units, io) =
         IF z = 0 THEN Start([t EXCEPT !.write_enable = TRUE])
         ELSE AttemptSend(Queue(Start(t), SubSeq(units, 1, n), FALSE), "sfNone", io)
  BY <1>3 DEF Send
<1>5. z \in Nat /\ n = MinOf(k, z)
  BY <1>1, <1>2
<1> HIDE DEF L, z
<1>6. n \in Nat /\ n <= k /\ n <= z /\ (n = 0 <=> z = 0)
  BY <1>5 DEF MinOf
<1>7. CASE z = 0
  <2>1. Done(t, Start([t EXCEPT !.write_enable = TRUE]), u, N, B, wr, d, a \ {"writeable"})
    BY <1>7, SendBlocks DEF z
  <2>2. wr + n = wr
    BY <1>0, <1>6, <1>7
  <2> HIDE DEF n, units
  <2> QED BY <1>4, <1>6, <1>7, <2>1, <2>2 DEF n, units
<1>8. CASE z # 0
  <2>1. n > 0 /\ L + n <= SndBuf
    BY <1>1, <1>2, <1>5, <1>6, <1>8
  <2> HIDE DEF n
  <2>2. Done(t, AttemptSend(Queue(Start(t), SubSeq(Units(wr, k), 1, n), FALSE), "sfNone", io),
                u, N, B, wr + n, d, a)
    BY <1>6, <2>1, SendQueues DEF L
  <2>3. a \ (IF n = 0 THEN {"writeable"} ELSE {}) = a
    BY <2>1
  <2> HIDE DEF units
  <2> QED BY <1>4, <1>6, <1>8, <2>2, <2>3 DEF n, units
<1> QED BY <1>7, <1>8

\* Recv when nothing is readable: the application asks to be told.
LEMMA RecvBlocks ==
    ASSUME NEW t, NEW u, NEW N, NEW B, NEW wr, NEW d, NEW a, Ready(t, u, N, B, wr, d, a),
           t.rbuf = <<>>
    PROVE  Done(t, Start([t EXCEPT !.read_enable = TRUE]), u, N, B, wr, d, a \ {"readable"})
<1> DEFINE w == Start(t)
           re == TRUE
           we == t.write_enable
           t2 == Promises(t, re, we)
           v == WithEnd(w, t2)
<1>0. /\ Works(w, u, N, B, wr, d) /\ t \in Tcb /\ w.t = t /\ Running(t) /\ Heard(t, a)
      /\ w.told = {}
  BY ReadyFacts, StartIs
<1>1. re \in BOOLEAN /\ we \in BOOLEAN /\ re = TRUE
  BY <1>0 DEF Tcb
<1>2. v = Start([t EXCEPT !.read_enable = TRUE])
  <2>1. t2 = [t EXCEPT !.read_enable = TRUE]
    BY <1>0 DEF Promises, Tcb
  <2> HIDE DEF t2
  <2> QED BY <2>1, StartWith
<1> HIDE DEF w, re, we
<1>3. /\ Works(v, u, N, B, wr, d) /\ v.told = w.told
      /\ v.t.state = t.state /\ v.t.shutdown = t.shutdown
      /\ v.t.read_enable = re /\ v.t.write_enable = we
      /\ v.t.rto_base = t.rto_base /\ v.t.snd_wnd = t.snd_wnd
      /\ v.t.sbuf = t.sbuf /\ v.t.rbuf = t.rbuf /\ v.t.failed = t.failed
  <2> DEFINE y == WithEnd(w, Promises(w.t, re, we))
  <2>1. /\ Works(y, u, N, B, wr, d) /\ y.told = w.told
        /\ y.t.state = w.t.state /\ y.t.shutdown = w.t.shutdown
        /\ y.t.read_enable = re /\ y.t.write_enable = we
        /\ y.t.rto_base = w.t.rto_base /\ y.t.snd_wnd = w.t.snd_wnd
        /\ y.t.sbuf = w.t.sbuf /\ y.t.rbuf = w.t.rbuf /\ y.t.failed = w.t.failed
    <3>1. Works(w, u, N, B, wr, d) /\ re \in BOOLEAN /\ we \in BOOLEAN
      BY <1>0, <1>1
    <3> QED BY ONLY <3>1, PromisesWork
  <2>2. y = v
    BY <1>0
  <2> HIDE DEF y, v
  <2> QED BY <1>0, <2>1, <2>2
<1> HIDE DEF v
<1>4. Told(v) = {}
  BY <1>0, <1>3 DEF Told
<1>5. HeardBy(v, a \ {"readable"})
  <2>1. "writeable" \in a => "writeable" \in a \ {"readable"}
    OBVIOUS
  <2> QED BY <1>0, <1>1, <1>3, <1>4, <2>1 DEF HeardBy, Heard, we
<1>6. Running(v.t)
  BY <1>0, <1>3 DEF Running
<1>7. v.t.shutdown = w.t.shutdown
  BY <1>0, <1>3
<1> QED BY <1>2, <1>3, <1>5, <1>6, <1>7 DEF Done, GoesWell, w

\* The receiver after the first n readable units were read, with the window wnd.
ReadFrom(r, n, wnd) ==
    [r EXCEPT !.rbuf = SubSeq(r.rbuf, n + 1, Len(r.rbuf)), !.wnd = wnd]

\* They follow what was read before.
LEMMA ReadFromWorks ==
    ASSUME NEW s \in Sender, NEW r \in Receiver, GoodReceiver(r), Arrives(s, r),
           NEW n \in Nat, n <= Len(r.rbuf), NEW wnd \in Nat, r.wnd <= wnd,
           wnd + (Len(r.rbuf) - n) <= RcvBuf, NEW shut, NEW d \in Seq(Nat), Got(r, shut, d)
    PROVE  LET r2 == ReadFrom(r, n, wnd)
           IN  /\ r2 \in Receiver /\ GoodReceiver(r2) /\ Onward(r, r2, s)
               /\ Got(r2, shut, d \o SubSeq(r.rbuf, 1, n))
<1> DEFINE b == r.rbuf
           L == Len(b)
           E == Nat
           one == 1
           p == SubSeq(b, one, n)
           q == SubSeq(b, n + 1, L)
           d2 == d \o p
           r2 == ReadFrom(r, n, wnd)
           K == Len(d)
<1>0. /\ b \in Seq(Nat) /\ L \in Nat /\ r.nxt \in Nat /\ r.wnd \in Nat /\ RcvBuf \in Nat
      /\ K \in Nat /\ DOMAIN d = 1 .. K /\ DOMAIN b = 1 .. L
  BY ReceiverTypes, PseudoTcpAssumption, SMTT(40)
<1>1. /\ b \in Seq(E) /\ d \in Seq(E) /\ one \in Nat /\ one > 0 /\ one <= n + 1 /\ n <= Len(b)
      /\ one = 1
  BY <1>0
<1>r. r2 = [r EXCEPT !.rbuf = q, !.wnd = wnd]
  BY DEF ReadFrom
<1>d. d \o SubSeq(r.rbuf, 1, n) = d2
  OBVIOUS
<1>m. n <= L /\ wnd + (L - n) <= RcvBuf
  OBVIOUS
<1>t. /\ \A i \in 1 .. K : d[i] = i
      /\ \A i \in 1 .. L : b[i] = K + i
      /\ ~shut => K + L = IF r.nxt = 0 THEN 0 ELSE r.nxt - 1
  BY <1>0 DEF Got
<1> HIDE DEF b, E, K
<1>2. /\ p \in Seq(E) /\ Len(p) = n /\ \A i \in 1 .. n : p[i] = b[i]
  <2>1. /\ p \in Seq(E) /\ Len(p) = n + 1 - one
        /\ \A i \in 1 .. n + 1 - one : p[i] = b[one + i - 1]
    <3> HIDE DEF one
    <3> QED BY <1>1, SubSeqFacts
  <2>2. n + 1 - one = n /\ \A i \in 1 .. n : one + i - 1 = i
    OBVIOUS
  <2> HIDE DEF p, one
  <2> QED BY <2>1, <2>2
<1> HIDE DEF p, one
<1>3. q \in Seq(E) /\ Dropped(b, q, n)
  BY <1>1, DropFacts
<1> HIDE DEF q
<1>4. /\ Len(q) = L - n /\ DOMAIN q = 1 .. L - n /\ \A j \in 1 .. L - n : q[j] = b[n + j]
  BY <1>3 DEF Dropped
<1>5. /\ d2 \in Seq(E) /\ Len(d2) = K + n /\ DOMAIN d2 = 1 .. K + n
      /\ \A i \in 1 .. K : d2[i] = d[i]
      /\ \A i \in 1 .. n : d2[K + i] = p[i]
  <2>1. /\ d \o p \in Seq(E) /\ Len(d \o p) = Len(d) + Len(p)
        /\ DOMAIN (d \o p) = 1 .. Len(d) + Len(p)
        /\ \A i \in 1 .. Len(d) : (d \o p)[i] = d[i]
        /\ \A i \in 1 .. Len(p) : (d \o p)[Len(d) + i] = p[i]
    <3>1. d \in Seq(E) /\ p \in Seq(E)
      BY <1>1, <1>2
    <3> QED BY ONLY <3>1, ConcatFacts
  <2> QED BY <1>2, <2>1 DEF K
<1>n. K \in Nat /\ L \in Nat /\ n \in Nat /\ n <= L
  BY <1>0, <1>m
<1> HIDE DEF d2, L
<1>6. /\ r2 \in Receiver /\ r2.rbuf = q /\ r2.wnd = wnd /\ r2.nxt = r.nxt
      /\ r2.rlist = r.rlist /\ r2.ahead = r.ahead
  <2>1. q \in Seq(Nat)
    BY <1>3 DEF E
  <2> HIDE DEF r2
  <2> QED BY <1>r, <2>1 DEF Receiver
<1> HIDE DEF r2
<1>7. GoodReceiver(r2)
  <2>1. r2.wnd + Len(r2.rbuf) <= RcvBuf
    BY <1>m, <1>4, <1>6
  <2>2. RcvBuf <= r2.nxt + r2.wnd
    <3>1. RcvBuf <= r.nxt + r.wnd
      BY DEF GoodReceiver
    <3> QED BY <1>0, <1>6, <3>1
  <2> QED BY <1>6, <2>1, <2>2 DEF GoodReceiver
<1>8. Onward(r, r2, s)
  <2>1. r.nxt <= r2.nxt /\ r.nxt + r.wnd <= r2.nxt + r2.wnd
    BY <1>0, <1>6
  <2>2. Reached(s, r2.nxt) /\ \A i \in DOMAIN r2.rlist : Reached(s, End(r2.rlist[i]))
    BY <1>6 DEF Arrives
  <2> QED BY <1>6, <2>1, <2>2, GoesOnward
<1>9. Got(r2, shut, d2)
  <2>1. ASSUME NEW i \in DOMAIN d2 PROVE d2[i] = i
    <3>0. i \in 1 .. K + n
      BY <1>5
    <3>1. CASE i <= K
      <4>1. i \in 1 .. K
        BY <1>0, <3>0, <3>1
      <4> QED BY <1>t, <1>5, <4>1
    <3>2. CASE i > K
      <4> DEFINE j == i - K
      <4>1. j \in 1 .. n /\ K + j = i /\ j \in 1 .. L
        BY ONLY <1>n, <3>0, <3>2
      <4> HIDE DEF j
      <4>2. d2[K + j] = p[j] /\ p[j] = b[j] /\ b[j] = K + j
        BY <1>t, <1>2, <1>5, <4>1
      <4> QED BY <4>1, <4>2
    <3> QED BY <1>0, <3>0, <3>1, <3>2
  <2>2. ASSUME NEW i \in DOMAIN r2.rbuf PROVE r2.rbuf[i] = Len(d2) + i
    <3>0. i \in 1 .. L - n
      BY <1>4, <1>6
    <3>1. n + i \in 1 .. L /\ K + (n + i) = (K + n) + i
      BY ONLY <1>n, <3>0
    <3>2. r2.rbuf[i] = b[n + i] /\ b[n + i] = K + (n + i)
      BY <1>t, <1>4, <1>6, <3>0, <3>1
    <3> QED BY <1>5, <3>1, <3>2
  <2>3. ~shut => Len(d2) + Len(r2.rbuf) = IF r2.nxt = 0 THEN 0 ELSE r2.nxt - 1
    <3>1. Len(d2) + Len(r2.rbuf) = K + L
      <4>1. Len(d2) = K + n /\ Len(r2.rbuf) = L - n
        BY <1>4, <1>5, <1>6
      <4>2. (K + n) + (L - n) = K + L
        BY <1>0
      <4> QED BY <4>1, <4>2
    <3> QED BY <1>t, <1>6, <3>1
  <2> QED BY <2>1, <2>2, <2>3 DEF Got
<1> QED BY <1>6, <1>7, <1>8, <1>9, <1>d DEF r2

\* The end after Recv of n units, with the window wnd.
ReadOf(t, n, wnd) ==
    [t EXCEPT !.rbuf = SubSeq(t.rbuf, n + 1, Len(t.rbuf)), !.rcv_wnd = wnd]

\* Recv of n units that are readable.
LEMMA RecvTakes ==
    ASSUME NEW t, NEW u, NEW N, NEW B, NEW wr, NEW d, NEW a, Ready(t, u, N, B, wr, d, a),
           "readable" \in a, NEW n \in Nat, n <= Len(t.rbuf), NEW wnd \in Nat,
           t.rcv_wnd <= wnd, wnd + (Len(t.rbuf) - n) <= RcvBuf
    PROVE  Done(t, Start(ReadOf(t, n, wnd)), u, N, B, wr, d \o SubSeq(t.rbuf, 1, n), a)
<1> DEFINE w == Start(t)
           r == Rcv(t)
           re == t.read_enable
           r2 == ReadFrom(r, n, wnd)
           d2 == d \o SubSeq(t.rbuf, 1, n)
           t2 == RcvEnd(w.t, r2, re)
           v == WithEnd(w, t2)
<1>0. /\ Works(w, u, N, B, wr, d) /\ t \in Tcb /\ w.t = t /\ Running(t) /\ Heard(t, a)
      /\ w.told = {} /\ u \in Tcb /\ d \in Seq(Nat) /\ GoodHandler(w, u, N, B, wr, d)
      /\ re \in BOOLEAN
  <2>1. /\ Works(w, u, N, B, wr, d) /\ t \in Tcb /\ w.t = t /\ Running(t) /\ Heard(t, a)
        /\ w.told = {} /\ d \in Seq(Nat)
    BY ReadyFacts, StartIs
  <2>2. re \in BOOLEAN
    BY <2>1 DEF Tcb
  <2> HIDE DEF w, re
  <2> QED BY <2>1, <2>2 DEF Works
<1>1. GoodReceiver(r) /\ Got(r, t.shutdown, d) /\ Arrives(Snd(u), r)
  <2>1. GoodReceiver(Rcv(w.t)) /\ Got(Rcv(w.t), w.t.shutdown, d)
    BY <1>0, WorksFacts
  <2> QED BY <1>0, <2>1 DEF GoodHandler, Flow
<1>2. /\ r \in Receiver /\ Snd(u) \in Sender /\ r.rlist = t.rlist /\ r.rbuf = t.rbuf
      /\ r.nxt = t.rcv_nxt /\ r.wnd = t.rcv_wnd /\ r.ahead = t.ahead
  BY <1>0, Halves
<1> HIDE DEF r
<1>3. /\ r2 \in Receiver /\ GoodReceiver(r2) /\ Onward(r, r2, Snd(u)) /\ Got(r2, t.shutdown, d2)
  <2> DEFINE shut == t.shutdown
             s == Snd(u)
  <2>1. s \in Sender /\ Arrives(s, r) /\ Got(r, shut, d) /\ n <= Len(r.rbuf) /\ r.wnd <= wnd
        /\ wnd + (Len(r.rbuf) - n) <= RcvBuf
    BY <1>1, <1>2
  <2> HIDE DEF shut, s, r2
  <2>2. LET y == ReadFrom(r, n, wnd)
        IN  /\ y \in Receiver /\ GoodReceiver(y) /\ Onward(r, y, s)
            /\ Got(y, shut, d \o SubSeq(r.rbuf, 1, n))
    BY <1>0, <1>1, <1>2, <2>1, ReadFromWorks
  <2> QED BY <1>2, <2>2 DEF shut, s, r2
<1>4. v = Start(ReadOf(t, n, wnd))
  <2> DEFINE b == SubSeq(t.rbuf, n + 1, Len(t.rbuf))
  <2>1. r2 = [r EXCEPT !.rbuf = b, !.wnd = wnd]
    BY <1>2 DEF ReadFrom
  <2>2. ReadOf(t, n, wnd) = [t EXCEPT !.rbuf = b, !.rcv_wnd = wnd]
    BY DEF ReadOf
  <2> HIDE DEF b, r2
  <2>3. /\ r2.rbuf = b /\ r2.wnd = wnd /\ r2.nxt = r.nxt
        /\ r2.rlist = r.rlist /\ r2.ahead = r.ahead
    BY <1>2, <2>1 DEF Receiver
  <2>4. RcvEnd(t, r2, re) = [t EXCEPT !.rbuf = b, !.rcv_wnd = wnd]
    BY <1>0, <1>2, <2>3 DEF RcvEnd, Tcb
  <2>5. v = Start([t EXCEPT !.rbuf = b, !.rcv_wnd = wnd])
    <3> DEFINE e == [t EXCEPT !.rbuf = b, !.rcv_wnd = wnd]
    <3>1. v = WithEnd(Start(t), e)
      BY <1>0, <2>4
    <3> HIDE DEF e, v
    <3>2. v = Start(e)
      BY <3>1, StartWith
    <3> QED BY <3>2 DEF e
  <2> QED BY <2>2, <2>5
<1> HIDE DEF w, r2, re, d2
<1>5. /\ Works(v, u, N, B, wr, d2) /\ v.t = t2 /\ v.told = w.told
      /\ IsRcvEnd(w.t, t2, r2, re)
  <2>1. Onward(Rcv(w.t), r2, Snd(u)) /\ Got(r2, w.t.shutdown, d2)
    BY <1>0, <1>3 DEF r
  <2>2. Works(w, u, N, B, wr, d) /\ r2 \in Receiver /\ re \in BOOLEAN /\ GoodReceiver(r2)
    BY <1>0, <1>3
  <2> QED BY ONLY <2>1, <2>2, ReceiverWorks DEF v, t2
<1> HIDE DEF t2, v
<1>6. /\ v.t.state = t.state /\ v.t.shutdown = t.shutdown /\ v.t.sbuf = t.sbuf
      /\ v.t.write_enable = t.write_enable /\ v.t.rto_base = t.rto_base
      /\ v.t.snd_wnd = t.snd_wnd /\ v.t.failed = t.failed
  BY <1>0, <1>5 DEF IsRcvEnd
<1>7. Told(v) = {}
  BY <1>0, <1>5 DEF Told
<1>8. HeardBy(v, a)
  BY <1>0, <1>6, <1>7 DEF HeardBy, Heard
<1>9. Running(v.t)
  BY <1>0, <1>6 DEF Running
<1>10. v.t.shutdown = w.t.shutdown
  BY <1>0, <1>6
<1> QED BY <1>4, <1>5, <1>8, <1>9, <1>10 DEF Done, GoesWell, w, d2

\* Recv.
LEMMA RecvCall ==
    ASSUME NEW t, NEW u, NEW N, NEW B, NEW wr, NEW d, NEW a, Ready(t, u, N, B, wr, d, a),
           "readable" \in a, NEW k \in Nat, k > 0, NEW io \in Conditions
    PROVE  LET n == MinOf(k, Len(t.rbuf))
           IN  Done(t, Recv(t, k, io), u, N, B, wr, d \o SubSeq(t.rbuf, 1, n),
                    a \ (IF n = 0 THEN {"readable"} ELSE {}))
<1> DEFINE L == Len(t.rbuf)
           n == MinOf(k, L)
           d2 == d \o SubSeq(t.rbuf, 1, n)
           b == SubSeq(t.rbuf, n + 1, L)
           t1 == [t EXCEPT !.rbuf = b]
           wnd == ReceiveSpace(t1)
           t2 == [t1 EXCEPT !.rcv_wnd = wnd]
           v == Start(t2)
           wider == wnd - t.rcv_wnd >= MinOf(RcvBuf \div 2, t.mss)
           flags == "sfImmediateAck"
<1>0. /\ Works(Start(t), u, N, B, wr, d) /\ t \in Tcb /\ d \in Seq(Nat) /\ Start(t).t = t
  BY ReadyFacts
<1>1. /\ L \in Nat /\ t.rcv_wnd \in Nat /\ RcvBuf \in Nat /\ t.rbuf \in Seq(Nat)
      /\ t.rcv_wnd + L <= RcvBuf
  <2>1. GoodReceiver(Rcv(t))
    BY <1>0, WorksFacts
  <2>2. t.rcv_wnd + L <= RcvBuf
    BY <1>0, <2>1, Halves DEF GoodReceiver
  <2> QED BY <1>0, <2>2, EndTypes, PseudoTcpAssumption DEF Tcb
<1>2. Recv(t, k, io) =
         CASE t.rbuf = <<>> -> Start([t EXCEPT !.read_enable = TRUE])
           [] t.rbuf # <<>> /\ ~wider -> Start(t1)
           [] t.rbuf # <<>> /\ wider /\ t.rcv_wnd > 0 -> v
           [] OTHER -> AttemptSend(v, flags, io)
  BY DEF Recv
<1>3. n \in Nat /\ n <= L /\ (n = 0 <=> L = 0)
  BY <1>1 DEF MinOf
<1>4. CASE t.rbuf = <<>>
  <2>1. L = 0 /\ n = 0
    BY <1>3, <1>4
  <2>2. d2 = d
    <3>1. SubSeq(t.rbuf, 1, n) = <<>>
      BY <1>4, <2>1
    <3> QED BY <1>0, <3>1, ConcatEmptySeq
  <2>3. Done(t, Start([t EXCEPT !.read_enable = TRUE]), u, N, B, wr, d, a \ {"readable"})
    BY <1>4, RecvBlocks
  <2>4. Recv(t, k, io) = Start([t EXCEPT !.read_enable = TRUE])
    <3> HIDE DEF wider, t1, v, flags
    <3> QED BY <1>2, <1>4
  <2> HIDE DEF d2
  <2> QED BY <2>1, <2>2, <2>3, <2>4 DEF d2
<1>5. CASE t.rbuf # <<>>
  <2>0. L > 0 /\ n > 0
    BY <1>1, <1>3, <1>5
  <2>1. Len(b) = L - n
    <3> DEFINE q == t.rbuf
               E == Nat
    <3>1. q \in Seq(E) /\ n \in Nat /\ n <= Len(q)
      BY <1>1, <1>3
    <3> HIDE DEF q, E, n
    <3>2. Dropped(q, SubSeq(q, n + 1, Len(q)), n)
      BY ONLY <3>1, DropFacts
    <3> QED BY <3>2 DEF Dropped, q
  <2> DEFINE r1 == t.rcv_wnd
  <2>2. t1.rbuf = b
    BY <1>0 DEF Tcb
  <2>3. wnd = RcvBuf - (L - n)
    BY <2>1, <2>2 DEF ReceiveSpace
  <2>4. t1 = ReadOf(t, n, r1)
    BY <1>0 DEF ReadOf, Tcb
  <2>5. t2 = ReadOf(t, n, wnd)
    <3> HIDE DEF wnd
    <3> QED BY <1>0 DEF ReadOf, Tcb
  <2> HIDE DEF b, wnd, n, t1, t2, wider, flags
  <2>6. /\ wnd \in Nat /\ r1 <= wnd /\ wnd + (L - n) <= RcvBuf
        /\ r1 \in Nat /\ r1 <= r1 /\ r1 + (L - n) <= RcvBuf
    <3> HIDE DEF L, r1
    <3>1. L \in Nat /\ r1 \in Nat /\ RcvBuf \in Nat /\ r1 + L <= RcvBuf /\ n \in Nat /\ n <= L
      BY <1>1, <1>3 DEF L, r1
    <3> QED BY ONLY <3>1, <2>3
  <2>7. Done(t, Start(t1), u, N, B, wr, d2, a)
    <3>1. t.rcv_wnd <= r1 /\ n <= Len(t.rbuf) /\ r1 \in Nat /\ r1 + (Len(t.rbuf) - n) <= RcvBuf
      BY <1>3, <2>6
    <3> HIDE DEF r1
    <3> QED BY <1>3, <2>4, <3>1, RecvTakes
  <2>8. Done(t, v, u, N, B, wr, d2, a)
    <3>1. t.rcv_wnd <= wnd /\ n <= Len(t.rbuf) /\ wnd \in Nat /\ wnd + (Len(t.rbuf) - n) <= RcvBuf
      BY <1>3, <2>6
    <3> QED BY <1>3, <2>5, <3>1, RecvTakes
  <2>9. Done(t, AttemptSend(v, flags, io), u, N, B, wr, d2, a)
    <3> DEFINE x == AttemptSend(v, flags, io)
    <3> HIDE DEF v, d2
    <3>1. Works(v, u, N, B, wr, d2) /\ v.t.shutdown = Start(t).t.shutdown /\ HeardBy(v, a)
      BY <2>8 DEF Done, GoesWell
    <3>2. Works(x, u, N, B, wr, d2) /\ Sends(v, x) /\ Running(x.t)
      BY <3>1, AttemptSendFacts
    <3> HIDE DEF x
    <3>3. HeardBy(x, a) /\ x.t.shutdown = Start(t).t.shutdown
      BY <3>1, <3>2, SendsHeard DEF Sends
    <3> QED BY <3>2, <3>3 DEF Done, GoesWell, x
  <2>10. a \ (IF n = 0 THEN {"readable"} ELSE {}) = a
    BY <2>0
  <2>11. \/ Recv(t, k, io) = Start(t1)
         \/ Recv(t, k, io) = v
         \/ Recv(t, k, io) = AttemptSend(v, flags, io)
    <3> HIDE DEF v
    <3> QED BY <1>2, <1>5
  <2>12. Done(t, Recv(t, k, io), u, N, B, wr, d2, a)
    BY <2>7, <2>8, <2>9, <2>11
  <2> HIDE DEF d2
  <2>13. Done(t, Recv(t, k, io), u, N, B, wr, d2, a \ (IF n = 0 THEN {"readable"} ELSE {}))
    BY <2>10, <2>12
  <2> QED BY <2>13 DEF d2, n
<1> QED BY <1>4, <1>5

-----------------------------------------------------------------------------
(***************************************************************************)
(* The pair.                                                               *)
(***************************************************************************)
\* There are two ends.
LEMMA PeerFacts ==
    ASSUME NEW e \in Ends
    PROVE  /\ Peer(e) \in Ends /\ Peer(e) # e /\ Ends = {e, Peer(e)} /\ Peer(Peer(e)) = e
<1>1. PICK f \in Ends : Ends = {e, f} /\ e # f
  BY PairAssumption
<1>2. Peer(e) \in Ends /\ Peer(e) # e
  BY <1>1 DEF Peer
<1>3. Peer(e) = f
  BY <1>1, <1>2
<1>4. Peer(f) \in Ends /\ Peer(f) # f
  BY <1>1 DEF Peer
<1>5. Peer(f) = e
  BY <1>1, <1>4
<1> QED BY <1>1, <1>2, <1>3, <1>5

\* The flow stays good when packets are lost.
LEMMA FlowOfFewer ==
    ASSUME NEW s, NEW r, NEW A, NEW B, Flow(s, r, A, B), NEW A2 \in SUBSET A, NEW B2 \in SUBSET B
    PROVE  Flow(s, r, A2, B2)
BY DEF Flow

\* Between two steps each end is as its calls need it.
LEMMA EndsAreReady ==
    ASSUME IInv, NEW e \in Ends
    PROVE  Ready(tcp[e], tcp[Peer(e)], net[Peer(e)], net[e], written[e], delivered[e], app[e])
<1> DEFINE p == Peer(e)
           t == tcp[e]
           u == tcp[p]
           w == Start(t)
           N == net[p]
           B == net[e]
           wr == written[e]
           d == delivered[e]
<1>0. p \in Ends /\ Peer(p) = e
  BY PeerFacts
<1>1. EndInv(e) /\ EndInv(p) /\ TypeInv
  BY <1>0 DEF IInv
<1>2. /\ t \in Tcb /\ u \in Tcb /\ N \in SUBSET Message /\ B \in SUBSET Message /\ wr \in Nat
      /\ d \in Seq(Nat)
  BY <1>0, <1>1 DEF TypeInv
<1>3. /\ GoodEnd(t, wr, d) /\ Flow(Snd(t), Rcv(u), N, B) /\ Heard(t, app[e]) /\ Running(t)
  BY <1>1 DEF EndInv
<1>4. Flow(Snd(u), Rcv(t), B, N) /\ GoodPeer(u)
  BY <1>0, <1>1 DEF EndInv, GoodEnd, GoodPeer
<1> HIDE DEF t, u, N, B, wr, d
<1>5. w.t = t /\ w.out = {} /\ w.told = {}
  BY StartIs
<1>6. w \in Handler
  BY <1>2 DEF Start, Handler
<1> HIDE DEF w
<1>7. N \cup w.out = N
  BY <1>5
<1>8. GoodHandler(w, u, N, B, wr, d)
  BY <1>3, <1>4, <1>5, <1>6, <1>7 DEF GoodHandler
<1>9. Works(w, u, N, B, wr, d)
  BY <1>2, <1>6, <1>8 DEF Works
<1> QED BY <1>2, <1>3, <1>4, <1>9 DEF Ready, w, t, u, N, B, wr, d

\* The end of a handler.
LEMMA FinishKeeps ==
    ASSUME IInv, NEW e \in Ends, Alive(e), NEW v, NEW used, NEW arrived \in SUBSET net[e],
           Finish(e, v, used, arrived), NEW wr, NEW d \in Seq(Nat),
           Works(v, tcp[Peer(e)], net[Peer(e)], net[e], wr, d),
           HeardBy(v, app[e] \ used), Running(v.t),
           v.t.shutdown => app[e] \ used = {},
           written' = [written EXCEPT ![e] = wr],
           delivered' = [delivered EXCEPT ![e] = d]
    PROVE  IInv'
<1> DEFINE p == Peer(e)
           u == tcp[p]
           N == net[p]
           B == net[e]
<1>0. p \in Ends /\ Peer(p) = e /\ p # e /\ Ends = {e, p}
  BY PeerFacts
<1>1. EndInv(p) /\ TypeInv
  BY <1>0 DEF IInv
<1>2. /\ v \in Handler /\ u \in Tcb /\ N \in SUBSET Message /\ B \in SUBSET Message
      /\ wr \in Nat /\ GoodHandler(v, u, N, B, wr, d)
  BY DEF Works
<1>3. /\ v.t \in Tcb /\ v.out \in SUBSET Message
  BY <1>2 DEF Handler
<1>4. /\ tcp \in [Ends -> Tcb] /\ gone \subseteq Ends
      /\ app \in [Ends -> SUBSET {"readable", "writeable"}]
      /\ written \in [Ends -> Nat] /\ delivered \in [Ends -> Seq(Nat)]
      /\ net \in [Ends -> SUBSET Message]
  BY <1>1 DEF TypeInv
<1>5. /\ tcp' = [tcp EXCEPT ![e] = v.t]
      /\ gone' = IF ReadyToDestroy(v.t) THEN gone \cup {e} ELSE gone
      /\ app' = [app EXCEPT ![e] = (@ \ used) \cup Told(v)]
      /\ net' = [net EXCEPT ![e] = arrived, ![p] = @ \cup v.out]
  BY DEF Finish
<1>6. tcp'[e] = v.t /\ tcp'[p] = u /\ tcp' \in [Ends -> Tcb]
  BY <1>0, <1>3, <1>4, <1>5
<1>7. net'[e] = arrived /\ net'[p] = N \cup v.out /\ net' \in [Ends -> SUBSET Message]
  <2>1. net'[e] = arrived /\ net'[p] = N \cup v.out
    BY <1>0, <1>4, <1>5
  <2>2. arrived \in SUBSET Message /\ N \cup v.out \in SUBSET Message
    BY <1>2, <1>3
  <2> QED BY <1>0, <1>4, <1>5, <2>1, <2>2
<1>8. /\ app'[e] = (app[e] \ used) \cup Told(v) /\ app'[p] = app[p]
      /\ app' \in [Ends -> SUBSET {"readable", "writeable"}]
  <2>1. Told(v) \subseteq {"readable", "writeable"}
    BY DEF Told
  <2>2. (app[e] \ used) \cup Told(v) \in SUBSET {"readable", "writeable"}
    BY <1>4, <2>1
  <2> QED BY <1>0, <1>4, <1>5, <2>2
<1>9. /\ written'[e] = wr /\ written'[p] = written[p] /\ written' \in [Ends -> Nat]
      /\ delivered'[e] = d /\ delivered'[p] = delivered[p]
      /\ delivered' \in [Ends -> Seq(Nat)]
  BY <1>0, <1>2, <1>4
<1>10. gone' \subseteq Ends /\ (p \in gone' => p \in gone) /\ (e \in gone' => ReadyToDestroy(v.t))
  BY <1>0, <1>4, <1>5 DEF Alive
<1>11. TypeInv'
  BY <1>6, <1>7, <1>8, <1>9, <1>10 DEF TypeInv
<1>12. EndInv(e)'
  <2>1. GoodEnd(v.t, wr, d) /\ Flow(Snd(v.t), Rcv(u), N \cup v.out, B)
    BY <1>2 DEF GoodHandler
  <2>2. Flow(Snd(v.t), Rcv(u), N \cup v.out, arrived)
    BY <2>1, FlowOfFewer
  <2>3. Heard(v.t, app'[e])
    BY <1>8 DEF HeardBy
  <2>4. v.t.shutdown => app'[e] = {}
    BY <1>8 DEF Told
  <2>5. e \in gone' /\ v.t.state = "TCP_ESTABLISHED" => v.t.sbuf = <<>>
    BY <1>10 DEF ReadyToDestroy
  <2>6. Peer(e)' = p
    BY DEF Peer
  <2> QED BY <1>6, <1>7, <1>9, <2>1, <2>2, <2>3, <2>4, <2>5, <2>6 DEF EndInv
<1>13. EndInv(p)'
  <2>1. Flow(Snd(u), Rcv(v.t), B, N \cup v.out)
    BY <1>2 DEF GoodHandler
  <2>2. Flow(Snd(u), Rcv(v.t), arrived, N \cup v.out)
    BY <2>1, FlowOfFewer
  <2>3. /\ GoodEnd(u, written[p], delivered[p]) /\ Heard(u, app[p]) /\ Running(u)
        /\ u.shutdown => app[p] = {}
        /\ p \in gone /\ u.state = "TCP_ESTABLISHED" => u.sbuf = <<>>
    BY <1>1 DEF EndInv
  <2> QED BY <1>0, <1>6, <1>7, <1>8, <1>9, <1>10, <2>2, <2>3 DEF EndInv
<1> QED BY <1>0, <1>11, <1>12, <1>13 DEF IInv

\* A handler that reads and writes nothing for the application.
LEMMA DoneKeeps ==
    ASSUME IInv, NEW e \in Ends, Alive(e), NEW v, NEW arrived \in SUBSET net[e],
           Finish(e, v, {}, arrived), UNCHANGED <<written, delivered>>,
           Done(tcp[e], v, tcp[Peer(e)], net[Peer(e)], net[e], written[e], delivered[e], app[e])
    PROVE  IInv'
<1> DEFINE used == {}
           wr == written[e]
           d == delivered[e]
<1>1. TypeInv /\ EndInv(e)
  BY DEF IInv
<1>2. /\ d \in Seq(Nat) /\ written' = [written EXCEPT ![e] = wr]
      /\ delivered' = [delivered EXCEPT ![e] = d]
  BY <1>1 DEF TypeInv
<1>3. app[e] \ used = app[e]
  OBVIOUS
<1>4. /\ Works(v, tcp[Peer(e)], net[Peer(e)], net[e], wr, d) /\ HeardBy(v, app[e])
      /\ Running(v.t) /\ v.t.shutdown = tcp[e].shutdown
  <2>1. Start(tcp[e]).t = tcp[e]
    BY StartIs
  <2> QED BY <2>1 DEF Done, GoesWell
<1>5. v.t.shutdown => app[e] = {}
  BY <1>1, <1>4 DEF EndInv
<1>6. Finish(e, v, used, arrived)
  OBVIOUS
<1> HIDE DEF used, wr, d
<1>7. HeardBy(v, app[e] \ used) /\ (v.t.shutdown => app[e] \ used = {})
  BY <1>3, <1>4, <1>5
<1> QED BY <1>2, <1>4, <1>6, <1>7, FinishKeeps

-----------------------------------------------------------------------------
(***************************************************************************)
(* Each action keeps the invariant.                                        *)
(***************************************************************************)
\* OnChannelWritableState.
LEMMA ConnectKeeps ==
    ASSUME IInv, NEW e \in Ends, NEW io \in Conditions, ConnectEnd(e, io)
    PROVE  IInv'
<1> DEFINE v == Connect(tcp[e], io)
           B == net[e]
<1>1. /\ Alive(e) /\ tcp[e].state = "TCP_LISTEN" /\ Finish(e, v, {}, B)
      /\ UNCHANGED <<written, delivered>> /\ B \in SUBSET net[e]
  BY DEF ConnectEnd
<1>2. Done(tcp[e], v, tcp[Peer(e)], net[Peer(e)], net[e], written[e], delivered[e], app[e])
  BY <1>1, EndsAreReady, ConnectCall
<1> HIDE DEF v, B
<1> QED BY <1>1, <1>2, DoneKeeps

\* OnChannelRead.
LEMMA DeliverKeeps ==
    ASSUME IInv, NEW e \in Ends, NEW m \in net[e], NEW io \in Conditions,
           NEW copy \in SUBSET {m}, Deliver(e, m, io, copy)
    PROVE  IInv'
<1> DEFINE v == Process(tcp[e], m, io)
           B == (net[e] \ {m}) \cup copy
<1>1. /\ Alive(e) /\ Finish(e, v, {}, B)
      /\ UNCHANGED <<written, delivered>> /\ B \in SUBSET net[e]
  BY DEF Deliver
<1>2. Done(tcp[e], v, tcp[Peer(e)], net[Peer(e)], net[e], written[e], delivered[e], app[e])
  BY EndsAreReady, ProcessWorks
<1> HIDE DEF v, B
<1> QED BY <1>1, <1>2, DoneKeeps

\* The network loses a packet.
LEMMA LoseKeeps ==
    ASSUME IInv, NEW e \in Ends, NEW m \in net[e], Lose(e, m)
    PROVE  IInv'
<1>1. /\ net' = [net EXCEPT ![e] = @ \ {m}] /\ tcp' = tcp /\ gone' = gone /\ app' = app
      /\ written' = written /\ delivered' = delivered
  BY DEF Lose
<1>2. TypeInv /\ \A f \in Ends : EndInv(f)
  BY DEF IInv
<1>3. /\ net' \in [Ends -> SUBSET Message]
      /\ \A f \in Ends : net'[f] \in SUBSET net[f]
  BY <1>1, <1>2 DEF TypeInv
<1>4. TypeInv'
  BY <1>1, <1>2, <1>3 DEF TypeInv
<1>5. ASSUME NEW f \in Ends PROVE EndInv(f)'
  <2>1. Peer(f)' = Peer(f) /\ Peer(f) \in Ends
    BY PeerFacts DEF Peer
  <2>2. EndInv(f)
    BY <1>2
  <2>3. Flow(Snd(tcp[f]), Rcv(tcp[Peer(f)]), net'[Peer(f)], net'[f])
    <3>1. Flow(Snd(tcp[f]), Rcv(tcp[Peer(f)]), net[Peer(f)], net[f])
      BY <2>2 DEF EndInv
    <3>2. net'[Peer(f)] \in SUBSET net[Peer(f)] /\ net'[f] \in SUBSET net[f]
      BY <1>3, <2>1
    <3> QED BY <3>1, <3>2, FlowOfFewer
  <2> QED BY <1>1, <2>1, <2>2, <2>3 DEF EndInv
<1> QED BY <1>4, <1>5 DEF IInv

\* The timer of retransmissions.
LEMMA RetransmitKeeps ==
    ASSUME IInv, NEW e \in Ends, NEW io \in Conditions, RetransmitClock(e, io)
    PROVE  IInv'
<1> DEFINE v == RetransmitTimeout(tcp[e], io)
           B == net[e]
<1>1. /\ Alive(e) /\ tcp[e].rto_base /\ Finish(e, v, {}, B)
      /\ UNCHANGED <<written, delivered>> /\ B \in SUBSET net[e]
  BY DEF RetransmitClock
<1>2. Done(tcp[e], v, tcp[Peer(e)], net[Peer(e)], net[e], written[e], delivered[e], app[e])
  BY <1>1, EndsAreReady, RetransmitCall
<1> HIDE DEF v, B
<1> QED BY <1>1, <1>2, DoneKeeps

\* The timer of probes.
LEMMA ProbeKeeps ==
    ASSUME IInv, NEW e \in Ends, NEW silent \in BOOLEAN, ProbeClock(e, silent)
    PROVE  IInv'
<1> DEFINE v == IF silent THEN Closedown(Start(tcp[e])) ELSE ProbeWindow(tcp[e])
           B == net[e]
<1>1. /\ Alive(e) /\ Finish(e, v, {}, B)
      /\ UNCHANGED <<written, delivered>> /\ B \in SUBSET net[e]
  BY DEF ProbeClock
<1>2. Done(tcp[e], v, tcp[Peer(e)], net[Peer(e)], net[e], written[e], delivered[e], app[e])
  BY EndsAreReady, ProbeAndAckCalls
<1> HIDE DEF v, B
<1> QED BY <1>1, <1>2, DoneKeeps

\* The timer of delayed acknowledgements.
LEMMA AckKeeps ==
    ASSUME IInv, NEW e \in Ends, AckClock(e)
    PROVE  IInv'
<1> DEFINE v == DelayedAck(tcp[e])
           B == net[e]
<1>1. /\ Alive(e) /\ Finish(e, v, {}, B)
      /\ UNCHANGED <<written, delivered>> /\ B \in SUBSET net[e]
  BY DEF AckClock
<1>2. Done(tcp[e], v, tcp[Peer(e)], net[Peer(e)], net[e], written[e], delivered[e], app[e])
  BY EndsAreReady, ProbeAndAckCalls
<1> HIDE DEF v, B
<1> QED BY <1>1, <1>2, DoneKeeps

\* OnChannelConnectionChanged.
LEMMA ChangeMtuKeeps ==
    ASSUME IInv, NEW e \in Ends, NEW mtu \in Mtus, ChangeMtu(e, mtu)
    PROVE  IInv'
<1> DEFINE v == Start(NotifyMTU(tcp[e], mtu))
           B == net[e]
<1>1. /\ Alive(e) /\ Finish(e, v, {}, B)
      /\ UNCHANGED <<written, delivered>> /\ B \in SUBSET net[e]
  BY DEF ChangeMtu
<1>p. mtu \in Positive
  BY PairAssumption DEF Positive
<1>2. Done(tcp[e], v, tcp[Peer(e)], net[Peer(e)], net[e], written[e], delivered[e], app[e])
  BY <1>p, EndsAreReady, NotifyCall
<1> HIDE DEF v, B
<1> QED BY <1>1, <1>2, DoneKeeps

\* The application of a stream that is closed is told nothing any more.
LEMMA ListensWhileOpen ==
    ASSUME IInv, NEW e \in Ends, NEW x \in app[e]
    PROVE  ~tcp[e].shutdown
BY DEF IInv, EndInv

\* A call that is done, of an application that listens.
LEMMA DoneIs ==
    ASSUME NEW t, NEW v, NEW u, NEW N, NEW B, NEW wr, NEW d, NEW a,
           Done(t, v, u, N, B, wr, d, a)
    PROVE  /\ Works(v, u, N, B, wr, d) /\ HeardBy(v, a) /\ Running(v.t)
           /\ v.t.shutdown = t.shutdown
<1>1. Start(t).t = t
  BY StartIs
<1> QED BY <1>1 DEF Done, GoesWell

\* Write of the stream.
LEMMA WriteKeeps ==
    ASSUME IInv, NEW e \in Ends, NEW io \in Conditions, WriteStream(e, io)
    PROVE  IInv'
<1> DEFINE wr == written[e]
           d == delivered[e]
           k == Total[e] - wr
           units == Units(wr, k)
           n == MinOf(Len(units), SendSpace(tcp[e]))
           v == Send(tcp[e], units, io)
           used == IF n = 0 THEN {"writeable"} ELSE {}
           B == net[e]
           wr2 == wr + n
<1>1. units = [i \in 1 .. Total[e] - written[e] |-> written[e] + i]
  BY DEF Units
<1>2. /\ Alive(e) /\ tcp[e].state = "TCP_ESTABLISHED" /\ "writeable" \in app[e]
      /\ units # <<>> /\ written' = [written EXCEPT ![e] = wr2] /\ Finish(e, v, used, B)
      /\ delivered' = delivered
  BY <1>1 DEF WriteStream
<1>3. TypeInv
  BY DEF IInv
<1>4. /\ wr \in Nat /\ d \in Seq(Nat) /\ Total[e] \in Nat /\ B \in SUBSET net[e]
      /\ delivered' = [delivered EXCEPT ![e] = d]
  BY <1>2, <1>3, PairAssumption DEF TypeInv
<1>5. k \in Nat /\ k > 0
  <2>1. k \in Int
    BY <1>4
  <2>2. ASSUME k <= 0 PROVE FALSE
    <3>1. 1 .. k = {}
      BY <2>1, <2>2
    <3>2. units = <<>>
      BY <3>1 DEF Units
    <3> QED BY <1>2, <3>2
  <2> QED BY <2>1, <2>2
<1> HIDE DEF k
<1>6. Len(units) = k
  <2>1. k <= k
    BY <1>5
  <2> QED BY <1>4, <1>5, <2>1, FirstUnits
<1>7. n = MinOf(k, SendSpace(tcp[e]))
  BY <1>6
<1>8. n \in Nat /\ Done(tcp[e], v, tcp[Peer(e)], net[Peer(e)], net[e], wr2, d, app[e] \ used)
  BY <1>2, <1>5, <1>7, EndsAreReady, SendCall
<1> HIDE DEF v, used, B, n, units, d, wr
<1>9. /\ Works(v, tcp[Peer(e)], net[Peer(e)], net[e], wr2, d) /\ HeardBy(v, app[e] \ used)
      /\ Running(v.t) /\ v.t.shutdown = tcp[e].shutdown
  BY <1>8, DoneIs
<1>10. ~v.t.shutdown
  BY <1>2, <1>9, ListensWhileOpen
<1> HIDE DEF wr2
<1> QED BY <1>2, <1>4, <1>9, <1>10, FinishKeeps

\* Read of the stream.
LEMMA ReadKeeps ==
    ASSUME IInv, NEW e \in Ends, NEW k \in {1, RcvBuf}, NEW io \in Conditions,
           ReadStream(e, k, io)
    PROVE  IInv'
<1> DEFINE wr == written[e]
           n == MinOf(k, Len(tcp[e].rbuf))
           d == delivered[e] \o SubSeq(tcp[e].rbuf, 1, n)
           v == Recv(tcp[e], k, io)
           used == IF n = 0 THEN {"readable"} ELSE {}
           B == net[e]
<1>1. /\ Alive(e) /\ "readable" \in app[e]
      /\ delivered' = [delivered EXCEPT ![e] = d] /\ Finish(e, v, used, B)
      /\ written' = written
  BY DEF ReadStream
<1>2. TypeInv
  BY DEF IInv
<1>3. k \in Nat /\ k > 0
  BY PseudoTcpAssumption
<1>4. /\ B \in SUBSET net[e] /\ written' = [written EXCEPT ![e] = wr]
      /\ tcp[e] \in Tcb /\ delivered[e] \in Seq(Nat)
  BY <1>1, <1>2 DEF TypeInv
<1>5. d \in Seq(Nat)
  <2> DEFINE b == tcp[e].rbuf
             L == Len(b)
  <2>1. b \in Seq(Nat) /\ L \in Nat
    BY <1>4 DEF Tcb
  <2>2. n \in Nat /\ n <= L
    BY <1>3, <2>1 DEF MinOf
  <2> HIDE DEF n, b
  <2>3. SubSeq(b, 1, n) \in Seq(Nat)
    BY <2>1, <2>2
  <2> QED BY <1>4, <2>3 DEF b
<1>6. Done(tcp[e], v, tcp[Peer(e)], net[Peer(e)], net[e], wr, d, app[e] \ used)
  BY <1>1, <1>3, EndsAreReady, RecvCall
<1> HIDE DEF v, used, B, n, d, wr
<1>7. /\ Works(v, tcp[Peer(e)], net[Peer(e)], net[e], wr, d) /\ HeardBy(v, app[e] \ used)
      /\ Running(v.t) /\ v.t.shutdown = tcp[e].shutdown
  BY <1>6, DoneIs
<1>8. ~v.t.shutdown
  BY <1>1, <1>7, ListensWhileOpen
<1> QED BY <1>1, <1>4, <1>5, <1>7, <1>8, FinishKeeps

\* Close of the stream.
LEMMA CloseKeeps ==
    ASSUME IInv, NEW e \in Ends, CloseStream(e)
    PROVE  IInv'
<1> DEFINE wr == written[e]
           d == delivered[e]
           v == Start([tcp[e] EXCEPT !.shutdown = TRUE])
           used == app[e]
           B == net[e]
<1>1. /\ Alive(e) /\ Finish(e, v, used, B)
      /\ UNCHANGED <<written, delivered>> /\ app[e] \ used = {}
  BY DEF CloseStream
<1>2. TypeInv
  BY DEF IInv
<1>3. /\ B \in SUBSET net[e] /\ written' = [written EXCEPT ![e] = wr]
      /\ delivered' = [delivered EXCEPT ![e] = d] /\ d \in Seq(Nat)
  BY <1>1, <1>2 DEF TypeInv
<1>4. /\ Works(v, tcp[Peer(e)], net[Peer(e)], net[e], wr, d) /\ v.t.shutdown = TRUE
      /\ Running(v.t)
  BY EndsAreReady, CloseCall
<1> HIDE DEF v, used, B, d, wr
<1>5. HeardBy(v, app[e] \ used)
  BY <1>4 DEF HeardBy, Heard
<1> QED BY <1>1, <1>3, <1>4, <1>5, FinishKeeps

\* What a handler meets is among what it may meet.
LEMMA MetConditions ==
    \A e : Met(e) \subseteq Conditions
BY DEF Met, NoFailure

\* Every step keeps the invariant.
LEMMA NextKeeps ==
    ASSUME IInv, [Next]_vars
    PROVE  IInv'
<1>1. CASE Next
  <2>1. PICK e \in Ends :
            \/ \E io \in Conditions : ConnectEnd(e, io)
            \/ \E m \in net[e] :
                  \/ Lose(e, m)
                  \/ \E io \in Conditions, copy \in SUBSET {m} :
                        (copy # {} => e \in Copies) /\ Deliver(e, m, io, copy)
            \/ \E io \in Conditions : RetransmitClock(e, io)
            \/ \E silent \in BOOLEAN : ProbeClock(e, silent)
            \/ AckClock(e)
            \/ \E mtu \in Mtus : ChangeMtu(e, mtu)
            \/ \E io \in Conditions : WriteStream(e, io)
            \/ \E k \in {1, RcvBuf}, io \in Conditions : ReadStream(e, k, io)
            \/ CloseStream(e)
    BY <1>1, MetConditions DEF Next
  <2> QED BY <2>1, ConnectKeeps, DeliverKeeps, LoseKeeps, RetransmitKeeps, ProbeKeeps,
             AckKeeps, ChangeMtuKeeps, WriteKeeps, ReadKeeps, CloseKeeps
<1>2. CASE UNCHANGED vars
  <2>1. TypeInv'
    BY <1>2 DEF vars, IInv, TypeInv
  <2>2. ASSUME NEW e \in Ends PROVE EndInv(e)'
    BY <1>2 DEF vars, IInv, EndInv, Peer
  <2> QED BY <2>1, <2>2 DEF IInv
<1> QED BY <1>1, <1>2

-----------------------------------------------------------------------------
(***************************************************************************)
(* The invariant of the pair.                                              *)
(***************************************************************************)
\* A new PseudoTcp.
LEMMA NewTcpIs ==
    /\ NewTcp \in Tcb
    /\ GoodEnd(NewTcp, 0, <<>>)
    /\ Flow(Snd(NewTcp), Rcv(NewTcp), {}, {})
    /\ Running(NewTcp) /\ NewTcp.state = "TCP_LISTEN" /\ ~NewTcp.shutdown
<1> DEFINE t == NewTcp
           last == Last(MssLevels)
           first == MssLevels[1]
           empty == << >>
<1>1. last \in Positive /\ first \in Positive /\ 1 \in DOMAIN MssLevels
  <2>1. MssLevels \in Seq(Positive) /\ MssLevels # <<>>
    BY PseudoTcpAssumption DEF Positive
  <2>2. Len(MssLevels) \in DOMAIN MssLevels /\ 1 \in DOMAIN MssLevels
    BY <2>1
  <2> QED BY <2>1, <2>2 DEF Last
<1>2. RcvBuf \in Positive /\ SndBuf \in Nat
  BY PseudoTcpAssumption DEF Positive
<1>3. empty \in Seq(Segment) /\ empty \in Seq(Nat) /\ empty \in Seq(SavedSegment)
      /\ DOMAIN empty = {} /\ Len(empty) = 0
  OBVIOUS
<1>4. empty \in Placed
  <2>1. empty \in [{} -> Nat]
    BY <1>3
  <2>2. {} \in SUBSET Nat
    OBVIOUS
  <2> QED BY <2>1, <2>2 DEF Placed
<1>5. 2 * last \in Positive
  BY <1>1 DEF Positive
<1>6. t = [state |-> "TCP_LISTEN", shutdown |-> FALSE,
           slist |-> empty, sbuf |-> empty, snd_una |-> 0, snd_nxt |-> 0, snd_wnd |-> 1,
           rlist |-> empty, rbuf |-> empty, ahead |-> empty, rcv_nxt |-> 0,
           rcv_wnd |-> RcvBuf,
           mss |-> last, msslevel |-> 1, mtu_advise |-> first,
           cwnd |-> 2 * last, ssthresh |-> RcvBuf,
           dup_acks |-> 0, recover |-> 0, t_ack |-> FALSE, rto_base |-> FALSE,
           read_enable |-> TRUE, write_enable |-> FALSE, failed |-> FALSE]
  BY DEF NewTcp
<1> HIDE DEF t, last, first, empty
<1>7. /\ t.state = "TCP_LISTEN" /\ t.shutdown = FALSE /\ t.slist = empty /\ t.sbuf = empty
      /\ t.snd_una = 0 /\ t.snd_nxt = 0 /\ t.snd_wnd = 1 /\ t.rlist = empty /\ t.rbuf = empty
      /\ t.ahead = empty /\ t.rcv_nxt = 0 /\ t.rcv_wnd = RcvBuf /\ t.mss = last
      /\ t.rto_base = FALSE /\ t.recover = 0
  BY <1>6
<1>8. t \in Tcb
  <2> DEFINE cw == 2 * last
  <2>1. cw \in Positive
    BY <1>5
  <2> HIDE DEF cw
  <2>2. 0 \in 0 .. 4 /\ 0 \in Nat /\ 1 \in Nat /\ "TCP_LISTEN" \in TcpState /\ RcvBuf \in Nat
    BY <1>2 DEF TcpState, Positive
  <2> QED BY <1>1, <1>2, <1>3, <1>4, <1>6, <2>1, <2>2 DEF Tcb, cw
<1>9. /\ Snd(t) = [slist |-> empty, sbuf |-> empty, una |-> 0, nxt |-> 0, wnd |-> 1]
      /\ Rcv(t) = [rlist |-> empty, rbuf |-> empty, ahead |-> empty, nxt |-> 0, wnd |-> RcvBuf]
  BY <1>7 DEF Snd, Rcv
<1> DEFINE s == Snd(t)
           r == Rcv(t)
<1>10. /\ s.slist = empty /\ s.sbuf = empty /\ s.una = 0 /\ s.nxt = 0 /\ s.wnd = 1
       /\ r.rlist = empty /\ r.rbuf = empty /\ r.ahead = empty /\ r.nxt = 0 /\ r.wnd = RcvBuf
  BY <1>9
<1> HIDE DEF s, r
<1>11. GoodSender(s)
  <2>1. Segments(s)
    BY <1>3, <1>10 DEF Segments, empty
  <2> QED BY <1>3, <1>10, <2>1 DEF GoodSender
<1>12. GoodReceiver(r)
  BY <1>2, <1>3, <1>10 DEF GoodReceiver, Positive
<1>13. Arrives(s, r)
  BY <1>2, <1>3, <1>10 DEF Arrives, Reached, Positive
<1>14. Local(t)
  BY <1>2, <1>3, <1>7 DEF Local
<1>15. Life(t, 0)
  BY <1>7 DEF Life, empty
<1>16. Got(r, FALSE, empty)
  BY <1>3, <1>10 DEF Got
<1> QED BY <1>7, <1>8, <1>11, <1>12, <1>13, <1>14, <1>15, <1>16
        DEF GoodEnd, Flow, Running, t, s, r, empty

\* The pair begins in the invariant.
LEMMA InitIsGood ==
    ASSUME Init
    PROVE  IInv
<1>1. TypeInv
  <2>1. NewTcp \in Tcb /\ <<>> \in Seq(Nat)
    BY NewTcpIs
  <2> QED BY <2>1 DEF Init, TypeInv
<1>2. ASSUME NEW e \in Ends PROVE EndInv(e)
  <2>1. Peer(e) \in Ends
    BY PeerFacts
  <2>2. /\ tcp[e] = NewTcp /\ tcp[Peer(e)] = NewTcp /\ gone = {} /\ app[e] = {}
        /\ written[e] = 0 /\ delivered[e] = <<>> /\ net[e] = {} /\ net[Peer(e)] = {}
    BY <2>1 DEF Init
  <2> QED BY <2>2, NewTcpIs DEF EndInv, Heard
<1> QED BY <1>1, <1>2 DEF IInv

\* The inductive invariant: segments, buffers, packets, acknowledgements and
\* timers of the two ends agree after every handler, whatever the network does.
THEOREM Invariance ==
    Spec => []IInv
<1>1. Init => IInv
  BY InitIsGood
<1>2. IInv /\ [Next]_vars => IInv'
  BY NextKeeps
<1> QED BY <1>1, <1>2, PTL DEF Spec

-----------------------------------------------------------------------------
(***************************************************************************)
(* What the invariant says of the pair.                                    *)
(***************************************************************************)
\* What an end in the invariant is, with the numbers of its fields.
LEMMA EndFacts ==
    ASSUME IInv, NEW e \in Ends
    PROVE  /\ tcp[e] \in Tcb
           /\ GoodSender(Snd(tcp[e])) /\ GoodReceiver(Rcv(tcp[e])) /\ Local(tcp[e])
           /\ Life(tcp[e], written[e]) /\ Got(Rcv(tcp[e]), tcp[e].shutdown, delivered[e])
           /\ Flow(Snd(tcp[e]), Rcv(tcp[Peer(e)]), net[Peer(e)], net[e])
           /\ Heard(tcp[e], app[e]) /\ Running(tcp[e])
           /\ e \in gone /\ tcp[e].state = "TCP_ESTABLISHED" => tcp[e].sbuf = <<>>
           /\ written[e] \in Nat /\ delivered[e] \in Seq(Nat)
BY DEF IInv, TypeInv, EndInv, GoodEnd

\* What has arrived at the peer of e lies between what is acknowledged and what
\* is written.
LEMMA ArrivedFacts ==
    ASSUME IInv, NEW e \in Ends
    PROVE  /\ tcp[e].snd_una <= tcp[Peer(e)].rcv_nxt
           /\ tcp[Peer(e)].rcv_nxt <= tcp[e].snd_una + Len(tcp[e].sbuf)
<1> DEFINE t == tcp[e]
           s == Snd(t)
           u == tcp[Peer(e)]
           r == Rcv(u)
<1>1. Peer(e) \in Ends
  BY PeerFacts
<1>2. t \in Tcb /\ u \in Tcb /\ GoodSender(s) /\ Flow(s, r, net[Peer(e)], net[e])
  BY <1>1, EndFacts
<1> HIDE DEF t, u
<1>3. /\ s.una = t.snd_una /\ s.sbuf = t.sbuf /\ r.nxt = u.rcv_nxt /\ s \in Sender
      /\ t.snd_una \in Nat /\ Len(t.sbuf) \in Nat /\ u.rcv_nxt \in Nat
  BY <1>2, Halves, EndTypes
<1> HIDE DEF s, r
<1>4. s.una <= r.nxt /\ Reached(s, r.nxt)
  BY <1>2 DEF Flow, Arrives
<1>5. r.nxt <= s.una + Len(s.sbuf)
  <2>1. CASE r.nxt <= s.una
    BY <1>3, <2>1
  <2>2. ASSUME NEW i \in DOMAIN s.slist, r.nxt = End(s.slist[i])
        PROVE  r.nxt <= s.una + Len(s.sbuf)
    BY <1>2, <2>2 DEF GoodSender, Segments
  <2> QED BY <1>4, <2>1, <2>2 DEF Reached
<1> QED BY <1>3, <1>4, <1>5 DEF t, u

\* What an open end has read, and can, is what has arrived after the CONNECT.
LEMMA ReadFacts ==
    ASSUME IInv, NEW e \in Ends, ~tcp[e].shutdown, tcp[e].rcv_nxt > 0
    PROVE  Len(delivered[e]) + Len(tcp[e].rbuf) = tcp[e].rcv_nxt - 1
<1> DEFINE t == tcp[e]
           r == Rcv(t)
           d == delivered[e]
<1>1. t \in Tcb /\ Got(r, t.shutdown, d) /\ ~t.shutdown /\ t.rcv_nxt > 0
  BY EndFacts
<1> HIDE DEF t, d
<1>2. r.nxt = t.rcv_nxt /\ r.rbuf = t.rbuf /\ t.rcv_nxt \in Nat
  BY <1>1, Halves, EndTypes
<1> HIDE DEF r
<1>3. Len(d) + Len(r.rbuf) = IF r.nxt = 0 THEN 0 ELSE r.nxt - 1
  BY <1>1 DEF Got
<1>4. r.nxt # 0
  BY <1>1, <1>2
<1>5. Len(d) + Len(r.rbuf) = r.nxt - 1
  BY <1>3, <1>4
<1> QED BY <1>2, <1>5 DEF t, d

\* Types: states, buffers within m_sbuf_len and m_rbuf_len, a window that is
\* never wider than the room, a packet size that is not zero.
THEOREM TypeCorrect ==
    Spec => []TypeOK
<1>1. ASSUME IInv PROVE TypeOK
  <2>1. TypeInv
    BY <1>1 DEF IInv
  <2>2. ASSUME NEW e \in Ends
        PROVE  LET t == tcp[e]
               IN  /\ t.state \in TcpState /\ t.shutdown \in BOOLEAN
                   /\ Len(t.sbuf) \in 0 .. SndBuf /\ Len(t.rbuf) \in 0 .. RcvBuf
                   /\ t.snd_una \in 0 .. t.snd_nxt /\ t.rcv_wnd \in 0 .. ReceiveSpace(t)
                   /\ t.mss \in Nat \ {0} /\ t.cwnd \in Nat \ {0}
    <3> DEFINE t == tcp[e]
    <3>1. t \in Tcb /\ GoodSender(Snd(t)) /\ GoodReceiver(Rcv(t)) /\ Local(t)
      BY <1>1, EndFacts
    <3> HIDE DEF t
    <3>2. /\ t.state \in TcpState /\ t.shutdown \in BOOLEAN /\ t.snd_una \in Nat
          /\ t.snd_nxt \in Nat /\ t.rcv_wnd \in Nat /\ Len(t.sbuf) \in Nat
          /\ Len(t.rbuf) \in Nat /\ t.cwnd \in Nat /\ t.cwnd > 0
          /\ t.msslevel \in DOMAIN MssLevels
      BY <3>1, EndTypes
    <3>3. t.snd_una <= t.snd_nxt /\ t.rcv_wnd + Len(t.rbuf) <= RcvBuf /\ Len(t.sbuf) <= SndBuf
      BY <3>1, Halves DEF GoodSender, GoodReceiver, Local
    <3>4. t.mss \in Nat \ {0}
      BY <3>1 DEF Tcb, Positive
    <3>5. SndBuf \in Nat /\ RcvBuf \in Nat
      BY PseudoTcpAssumption
    <3>6. t.rcv_wnd \in 0 .. ReceiveSpace(t) /\ Len(t.rbuf) \in 0 .. RcvBuf
      BY <3>2, <3>3, <3>5, SMTT(40) DEF ReceiveSpace
    <3>7. Len(t.sbuf) \in 0 .. SndBuf /\ t.snd_una \in 0 .. t.snd_nxt
      BY <3>2, <3>3, <3>5
    <3> QED BY <3>2, <3>4, <3>6, <3>7 DEF t
  <2> QED BY <2>1, <2>2 DEF TypeOK, TypeInv
<1> QED BY <1>1, Invariance, PTL

\* The segments of m_slist cover m_sbuf without gap or overlap, and those sent
\* are the bytes in flight.
THEOREM SegmentsAreCorrect ==
    Spec => []SegmentsCover
<1>1. ASSUME IInv PROVE SegmentsCover
  <2> SUFFICES ASSUME NEW e \in Ends
               PROVE  LET t == tcp[e]
                          Start0(i) == IF i = 1 THEN t.snd_una
                                       ELSE t.slist[i - 1].seq + t.slist[i - 1].len
                          To == IF t.slist = <<>> THEN t.snd_una
                                ELSE Last(t.slist).seq + Last(t.slist).len
                      IN  /\ \A i \in DOMAIN t.slist :
                                /\ t.slist[i].len > 0
                                /\ t.slist[i].seq = Start0(i)
                                /\ t.slist[i].xmit > 0 <=> t.slist[i].seq < t.snd_nxt
                          /\ To = t.snd_una + Len(t.sbuf)
                          /\ t.snd_nxt <= To
    BY DEF SegmentsCover
  <2> DEFINE t == tcp[e]
             s == Snd(t)
             l == t.slist
  <2>1. t \in Tcb /\ GoodSender(s)
    BY <1>1, EndFacts
  <2> HIDE DEF t
  <2>2. /\ s.slist = l /\ s.sbuf = t.sbuf /\ s.una = t.snd_una /\ s.nxt = t.snd_nxt
        /\ l \in Seq(Segment) /\ t.snd_una \in Nat /\ t.snd_nxt \in Nat /\ Len(t.sbuf) \in Nat
    BY <2>1, Halves, EndTypes DEF Tcb
  <2> HIDE DEF s, l
  <2>3. /\ Segments(s) /\ s.nxt <= s.una + Len(s.sbuf)
    BY <2>1 DEF GoodSender
  <2>4. DOMAIN l = 1 .. Len(l) /\ Len(l) \in Nat
    BY <2>2
  <2>5. \A i \in DOMAIN l : l[i].seq \in Nat /\ l[i].len \in Nat /\ l[i].len > 0
                            /\ l[i].xmit \in Nat
    <3>1. \A i \in DOMAIN l : l[i] \in Segment
      BY <2>2
    <3> QED BY <3>1 DEF Segment, Positive
  <2>6. ASSUME NEW i \in DOMAIN l
        PROVE  /\ l[i].seq = IF i = 1 THEN t.snd_una ELSE l[i - 1].seq + l[i - 1].len
               /\ l[i].xmit > 0 <=> l[i].seq < t.snd_nxt
    <3>1. l[i].xmit > 0 <=> l[i].seq < t.snd_nxt
      <4> DEFINE q == l[i].seq
                 x == l[i].xmit
                 n == l[i].len
                 N == t.snd_nxt
      <4>1. /\ x = 0 => N <= q
            /\ x > 0 => q + n <= N
        BY <2>2, <2>3 DEF Segments, End
      <4>2. q \in Nat /\ x \in Nat /\ n \in Nat /\ n > 0 /\ N \in Nat
        BY <2>2, <2>5
      <4> HIDE DEF q, x, n, N
      <4>3. x > 0 <=> q < N
        BY <4>1, <4>2
      <4> QED BY <4>3 DEF q, x, N
    <3>2. CASE i = 1
      <4>1. l # <<>>
        BY <2>4
      <4>2. l[1].seq = t.snd_una
        BY <2>2, <2>3, <4>1 DEF Segments
      <4> QED BY <3>1, <3>2, <4>2
    <3>3. CASE i # 1
      <4> DEFINE j == i - 1
      <4>1. j \in DOMAIN l /\ i = j + 1
        BY <2>4, <3>3
      <4> HIDE DEF j
      <4>2. End(l[j]) = l[i].seq
        BY <2>2, <2>3, <4>1 DEF Segments
      <4>3. l[i].seq = l[j].seq + l[j].len
        BY <4>2 DEF End
      <4> QED BY <3>1, <3>3, <4>3 DEF j
    <3> QED BY <3>2, <3>3
  <2>7. CASE l = <<>>
    <3>1. Len(t.sbuf) = 0
      BY <2>2, <2>3, <2>7 DEF Segments
    <3> QED BY <2>2, <2>3, <2>5, <2>6, <2>7, <3>1 DEF t, l
  <2>8. CASE l # <<>>
    <3>1. Last(l).seq + Last(l).len = t.snd_una + Len(t.sbuf)
      BY <2>2, <2>3, <2>8 DEF Segments, End, Last
    <3> QED BY <2>2, <2>3, <2>5, <2>6, <2>8, <3>1 DEF t, l
  <2> QED BY <2>7, <2>8
<1> QED BY <1>1, Invariance, PTL

\* The retransmission timer runs exactly while something is in flight.
THEOREM TimerIsCorrect ==
    Spec => []TimerRunsInFlight
<1>1. ASSUME IInv PROVE TimerRunsInFlight
  <2>1. ASSUME NEW e \in Ends PROVE tcp[e].rto_base <=> InFlight(tcp[e]) > 0
    <3> DEFINE a == tcp[e].snd_una
               b == tcp[e].snd_nxt
    <3>1. /\ tcp[e].rto_base <=> b > a
          /\ tcp[e] \in Tcb
      BY <1>1, EndFacts DEF Local
    <3>2. a \in Nat /\ b \in Nat
      BY <3>1, EndTypes
    <3> HIDE DEF a, b
    <3>3. b > a <=> b - a > 0
      BY <3>2
    <3> QED BY <3>1, <3>3 DEF InFlight, a, b
  <2> QED BY <2>1 DEF TimerRunsInFlight
<1> QED BY <1>1, Invariance, PTL

\* A connection with something left to send never stalls without a timer, unless
\* a write of attemptSend has failed.
THEOREM StallingNever ==
    Spec => []NeverStalls
<1>1. ASSUME IInv PROVE NeverStalls
  BY <1>1, EndFacts DEF NeverStalls, Running
<1> QED BY <1>1, Invariance, PTL

\* No packet on the way ends beyond the room of its receiver.
THEOREM WindowsAreKept ==
    Spec => []WindowIsKept
<1>1. ASSUME IInv PROVE WindowIsKept
  <2> SUFFICES ASSUME NEW e \in Ends, NEW m \in net[e]
               PROVE  m.seq + Len(m.data) <= tcp[e].rcv_nxt + ReceiveSpace(tcp[e])
    BY DEF WindowIsKept
  <2> DEFINE p == Peer(e)
             t == tcp[e]
             u == tcp[p]
             s == Snd(u)
             r == Rcv(t)
  <2>1. p \in Ends /\ Peer(p) = e
    BY PeerFacts
  <2>2. /\ t \in Tcb /\ u \in Tcb /\ GoodReceiver(r) /\ Flow(s, r, net[e], net[p])
    <3>1. t \in Tcb /\ GoodReceiver(r)
      BY <1>1, EndFacts
    <3>2. u \in Tcb /\ Flow(s, Rcv(tcp[Peer(p)]), net[Peer(p)], net[p])
      BY <1>1, <2>1, EndFacts
    <3> QED BY <2>1, <3>1, <3>2
  <2>m. m \in Message
    BY <1>1 DEF IInv, TypeInv
  <2> HIDE DEF t, u
  <2>3. /\ s.nxt = u.snd_nxt /\ r.nxt = t.rcv_nxt /\ r.wnd = t.rcv_wnd /\ r.rbuf = t.rbuf
        /\ u.snd_nxt \in Nat /\ t.rcv_nxt \in Nat /\ t.rcv_wnd \in Nat /\ Len(t.rbuf) \in Nat
    BY <2>2, Halves, EndTypes
  <2> HIDE DEF s, r
  <2>4. m.seq + Len(m.data) <= s.nxt /\ s.nxt <= r.nxt + r.wnd
    BY <2>2 DEF Flow, GoodPacket, Arrives
  <2>5. r.wnd + Len(r.rbuf) <= RcvBuf
    BY <2>2 DEF GoodReceiver
  <2> DEFINE x == m.seq + Len(m.data)
             L == Len(t.rbuf)
             nx == t.rcv_nxt
             wd == t.rcv_wnd
             b == u.snd_nxt
  <2>6. x \in Int /\ RcvBuf \in Nat /\ L \in Nat /\ nx \in Nat /\ wd \in Nat /\ b \in Nat
    <3>1. m.data \in Seq(Nat) /\ m.seq \in Int
      BY <2>m DEF Message
    <3>2. Len(m.data) \in Nat
      BY <3>1
    <3> QED BY <2>3, <3>1, <3>2, PseudoTcpAssumption
  <2>7. x <= b /\ b <= nx + wd /\ wd + L <= RcvBuf
    BY <2>3, <2>4, <2>5
  <2> HIDE DEF x, L, nx, wd, b
  <2>8. x <= nx + (RcvBuf - L)
    BY ONLY <2>6, <2>7
  <2> QED BY <2>8 DEF ReceiveSpace, x, L, nx, t
<1> QED BY <1>1, Invariance, PTL

\* Only what has arrived without a gap is acknowledged, and it was read or waits
\* to be.
THEOREM AcksAreTrue ==
    Spec => []AckedHasArrived
<1>1. ASSUME IInv PROVE AckedHasArrived
  <2>1. ASSUME NEW e \in Ends
        PROVE  LET p == Peer(e)
               IN  /\ tcp[e].snd_una <= tcp[p].rcv_nxt
                   /\ ~tcp[p].shutdown /\ tcp[p].rcv_nxt > 0 =>
                         Len(delivered[p]) + Len(tcp[p].rbuf) = tcp[p].rcv_nxt - 1
    <3> DEFINE p == Peer(e)
               u == tcp[p]
    <3>1. p \in Ends
      BY PeerFacts
    <3>2. ~u.shutdown /\ u.rcv_nxt > 0 => Len(delivered[p]) + Len(u.rbuf) = u.rcv_nxt - 1
      BY <1>1, <3>1, ReadFacts
    <3> QED BY <1>1, <3>2, ArrivedFacts
  <2> QED BY <2>1 DEF AckedHasArrived
<1> QED BY <1>1, Invariance, PTL

\* An application that was told that a call would block is told when it need not
\* any more.
THEOREM EventsAreTold ==
    Spec => []NoLostEvent
<1>1. ASSUME IInv PROVE NoLostEvent
  <2>1. ASSUME NEW e \in Ends, tcp[e].state = "TCP_ESTABLISHED", ~tcp[e].shutdown
        PROVE  /\ tcp[e].rbuf # <<>> => "readable" \in app[e]
               /\ Len(tcp[e].sbuf) < kIdealRefillSize => "writeable" \in app[e]
    <3>1. Heard(tcp[e], app[e]) /\ tcp[e] \in Tcb
      BY <1>1, EndFacts
    <3>2. Len(tcp[e].sbuf) \in Nat /\ kIdealRefillSize \in Int
      BY <3>1, EndTypes, PseudoTcpAssumption, SMTT(40) DEF kIdealRefillSize
    <3> QED BY <2>1, <3>1, <3>2 DEF Heard
  <2> QED BY <2>1 DEF NoLostEvent
<1> QED BY <1>1, Invariance, PTL

\* An end that is deleted after a graceful close, while the connection stands,
\* has delivered all that was written, unless the other end had closed too.
THEOREM ClosingLosesNothing ==
    Spec => []CloseLosesNothing
<1>1. ASSUME IInv PROVE CloseLosesNothing
  <2> SUFFICES ASSUME NEW e \in gone, tcp[e].state = "TCP_ESTABLISHED",
                      ~tcp[Peer(e)].shutdown
               PROVE  Len(delivered[Peer(e)]) + Len(tcp[Peer(e)].rbuf) = written[e]
    BY DEF CloseLosesNothing
  <2> DEFINE p == Peer(e)
             u == tcp[p]
             t == tcp[e]
             L == Len(t.sbuf)
             wr == written[e]
  <2>1. e \in Ends
    BY <1>1 DEF IInv, TypeInv
  <2>2. p \in Ends
    BY <2>1, PeerFacts
  <2>3. /\ t \in Tcb /\ t.sbuf = <<>> /\ Life(t, wr) /\ wr \in Nat
    BY <1>1, <2>1, EndFacts
  <2>4. u \in Tcb /\ (u.rcv_nxt > 0 => Len(delivered[p]) + Len(u.rbuf) = u.rcv_nxt - 1)
    BY <1>1, <2>2, EndFacts, ReadFacts
  <2>5. t.snd_una <= u.rcv_nxt /\ u.rcv_nxt <= t.snd_una + L
    BY <1>1, <2>1, ArrivedFacts
  <2>6. t.state = "TCP_ESTABLISHED"
    OBVIOUS
  <2> HIDE DEF t, u, wr
  <2>7. L = 0 /\ t.snd_una + L = wr + 1
    BY <2>3, <2>6 DEF Life
  <2>8. u.rcv_nxt \in Nat /\ t.snd_una \in Nat
    BY <2>3, <2>4, EndTypes
  <2> HIDE DEF L
  <2>9. u.rcv_nxt = wr + 1
    BY <2>3, <2>5, <2>7, <2>8
  <2>10. Len(delivered[p]) + Len(u.rbuf) = u.rcv_nxt - 1
    <3>1. u.rcv_nxt > 0
      BY <2>3, <2>9
    <3> QED BY <2>4, <3>1
  <2>11. u.rcv_nxt - 1 = wr
    BY <2>3, <2>9
  <2> QED BY <2>10, <2>11 DEF u, wr
<1> QED BY <1>1, Invariance, PTL

-----------------------------------------------------------------------------
(***************************************************************************)
(* The pair implements ByteStream.                                         *)
(***************************************************************************)
\* The first n units of a stream.
Whole(n) == [i \in 1 .. n |-> i]

\* A stream of more units goes on from one of fewer, and what is numbered from 1
\* on is the beginning of a stream.
LEMMA WholePrefix ==
    ASSUME NEW d \in Seq(Nat), \A i \in DOMAIN d : d[i] = i, NEW n \in Nat, Len(d) <= n
    PROVE  Stream!IsPrefix(d, Whole(n)) /\ Whole(n) \in Seq(Nat) /\ Len(Whole(n)) = n
<1> DEFINE W == Whole(n)
           k == Len(d)
           one == 1
<1>1. W \in Seq(Nat) /\ Len(W) = n /\ \A i \in 1 .. n : W[i] = i
  BY DEF Whole
<1>2. k \in Nat /\ DOMAIN d = 1 .. k
  OBVIOUS
<1> HIDE DEF W
<1>3. SubSeq(d, 1, k) = [i \in 1 .. k |-> d[i]]
  BY <1>2
<1>4. SubSeq(W, 1, k) = [i \in 1 .. k |-> W[i]]
  BY <1>1, <1>2
<1>5. \A i \in 1 .. k : d[i] = W[i]
  BY <1>1, <1>2
<1>6. SubSeq(d, 1, k) = SubSeq(W, 1, k)
  BY <1>3, <1>4, <1>5
<1> QED BY <1>1, <1>6 DEF Stream!IsPrefix, W

\* What is appended leaves the beginning.
LEMMA AppendedPrefix ==
    ASSUME NEW d \in Seq(Nat), NEW x \in Seq(Nat)
    PROVE  Stream!IsPrefix(d, d \o x)
<1> DEFINE c == d \o x
           k == Len(d)
<1>1. k \in Nat /\ Len(x) \in Nat /\ c \in Seq(Nat) /\ Len(c) = k + Len(x)
  OBVIOUS
<1>2. \A i \in 1 .. k : c[i] = d[i]
  BY <1>1
<1> HIDE DEF c
<1>3. SubSeq(d, 1, k) = [i \in 1 .. k |-> d[i]]
  BY <1>1
<1>4. SubSeq(c, 1, k) = [i \in 1 .. k |-> c[i]]
  BY <1>1
<1>5. SubSeq(d, 1, k) = SubSeq(c, 1, k)
  BY <1>2, <1>3, <1>4
<1> QED BY <1>1, <1>5 DEF Stream!IsPrefix, c

\* What an open end has read, and can, was written.
LEMMA ReadIsWritten ==
    ASSUME IInv, NEW e \in Ends, ~tcp[e].shutdown
    PROVE  Len(delivered[e]) + Len(tcp[e].rbuf) <= written[Peer(e)]
<1> DEFINE p == Peer(e)
           t == tcp[e]
           u == tcp[p]
           a == u.snd_una
           b == Len(u.sbuf)
           wr == written[p]
           nx == t.rcv_nxt
           n == Len(delivered[e]) + Len(t.rbuf)
<1>1. p \in Ends /\ Peer(p) = e
  BY PeerFacts
<1>2. u \in Tcb /\ Life(u, wr) /\ wr \in Nat /\ nx <= a + b
  BY <1>1, EndFacts, ArrivedFacts
<1>3. t \in Tcb /\ Got(Rcv(t), t.shutdown, delivered[e]) /\ ~t.shutdown
  BY EndFacts
<1> HIDE DEF t, u, wr
<1>4. a \in Nat /\ b \in Nat /\ nx \in Nat /\ u.state \in TcpState
  BY <1>2, <1>3, EndTypes
<1>5. a + b <= wr + 1
  <2>1. CASE u.state = "TCP_LISTEN"
    <3>1. a = 0 /\ b = 0
      BY <1>2, <2>1 DEF Life
    <3> HIDE DEF a, b
    <3> QED BY <1>2, <3>1
  <2>2. CASE u.state # "TCP_LISTEN"
    <3>1. a + b = wr + 1 \/ a + b <= wr + 1
      BY <1>2, <1>4, <2>2 DEF Life, TcpState
    <3> HIDE DEF a, b
    <3> QED BY <1>2, <1>4, <3>1
  <2> QED BY <2>1, <2>2
<1>6. n = IF nx = 0 THEN 0 ELSE nx - 1
  <2> DEFINE r == Rcv(t)
             d == delivered[e]
             c == t.shutdown
  <2>1. r.nxt = nx /\ r.rbuf = t.rbuf /\ ~c /\ Got(r, c, d)
    BY <1>3, Halves
  <2> HIDE DEF r, d, c
  <2>2. Len(d) + Len(r.rbuf) = IF r.nxt = 0 THEN 0 ELSE r.nxt - 1
    BY <2>1 DEF Got
  <2> QED BY <2>1, <2>2 DEF d
<1> HIDE DEF a, b, nx, n
<1>7. n <= wr
  BY <1>2, <1>4, <1>5, <1>6
<1> QED BY <1>7 DEF n, t, wr

\* A write of an application goes on with its stream.
LEMMA WriteIsWrite ==
    ASSUME IInv, NEW e \in Ends, NEW io \in Conditions, WriteStream(e, io)
    PROVE  Stream!Write(e)
<1> DEFINE units == [i \in 1 .. Total[e] - written[e] |-> written[e] + i]
           n == MinOf(Len(units), SendSpace(tcp[e]))
           wr == written[e]
<1>1. /\ written' = [written EXCEPT ![e] = @ + n] /\ delivered' = delivered
      /\ units # <<>>
  BY DEF WriteStream
<1>2. /\ written \in [Ends -> Nat] /\ wr \in Nat /\ tcp[e] \in Tcb /\ Local(tcp[e])
  BY EndFacts DEF IInv, TypeInv
<1>3. n \in Nat
  <2> DEFINE k == Total[e] - wr
             z == SendSpace(tcp[e])
             U == Units(wr, k)
  <2>1. units = U
    BY DEF Units
  <2>2. k \in Int /\ Total[e] \in Nat
    BY <1>2, PairAssumption
  <2>3. k \in Nat
    <3>1. ASSUME k < 0 PROVE FALSE
      <4>1. 1 .. k = {}
        BY <2>2, <3>1
      <4>2. units = <<>>
        BY <4>1
      <4> QED BY <1>1, <4>2
    <3> QED BY <2>2, <3>1
  <2> HIDE DEF k, units
  <2>4. Len(U) = k
    <3>1. k <= k
      BY <2>3
    <3> QED BY <1>2, <2>3, <3>1, FirstUnits
  <2>5. z \in Nat
    BY <1>2, EndTypes, PseudoTcpAssumption DEF SendSpace, Local
  <2>6. n = MinOf(k, z)
    BY <2>1, <2>4
  <2> HIDE DEF z, n
  <2> QED BY <2>3, <2>5, <2>6 DEF MinOf
<1> HIDE DEF n
<1>4. /\ written' \in [Ends -> Nat] /\ written'[e] = wr + n
      /\ \A f \in Ends \ {e} : written'[f] = written[f]
  BY <1>1, <1>2, <1>3
<1>5. Stream!IsPrefix(Whole(wr), Whole(wr + n))
  <2> DEFINE d == Whole(wr)
             m == wr + n
  <2>1. d \in Seq(Nat) /\ Len(d) = wr /\ (\A i \in DOMAIN d : d[i] = i) /\ m \in Nat
        /\ Len(d) <= m
    BY <1>2, <1>3 DEF Whole
  <2> HIDE DEF d, m
  <2>2. Stream!IsPrefix(d, Whole(m))
    BY <2>1, WholePrefix
  <2> QED BY <2>2 DEF d, m
<1>6. Stream!IsPrefix([i \in 1 .. written[e] |-> i], [i \in 1 .. written'[e] |-> i])
  <2> HIDE DEF wr
  <2>1. Stream!IsPrefix(Whole(wr), Whole(written'[e]))
    BY <1>4, <1>5
  <2> QED BY <2>1 DEF Whole, wr
<1> QED BY <1>1, <1>4, <1>6 DEF Stream!Write

\* A read of an application goes on with what was written at the other end.
LEMMA ReadIsRead ==
    ASSUME IInv, NEW e \in Ends, NEW k \in {1, RcvBuf}, NEW io \in Conditions,
           ReadStream(e, k, io)
    PROVE  Stream!Read(e)
<1> DEFINE p == Peer(e)
           L == Len(tcp[e].rbuf)
           n == MinOf(k, L)
           x == SubSeq(tcp[e].rbuf, 1, n)
           d == delivered[e]
           wr == written[p]
<1>1. /\ delivered' = [delivered EXCEPT ![e] = d \o x] /\ written' = written
      /\ "readable" \in app[e]
  BY DEF ReadStream
<1>2. /\ delivered \in [Ends -> Seq(Nat)] /\ d \in Seq(Nat) /\ tcp[e] \in Tcb /\ p \in Ends
      /\ wr \in Nat
  BY EndFacts, PeerFacts DEF IInv, TypeInv
<1>3. k \in Nat /\ tcp[e].rbuf \in Seq(Nat) /\ L \in Nat
  <2>1. tcp[e].rbuf \in Seq(Nat)
    BY <1>2 DEF Tcb
  <2>2. k \in Nat
    BY PseudoTcpAssumption
  <2> QED BY <2>1, <2>2
<1>4. n \in Nat /\ n <= L
  BY <1>3 DEF MinOf
<1> HIDE DEF n
<1>5. /\ x \in Seq(Nat) /\ Len(x) = n /\ \A i \in 1 .. n : x[i] = tcp[e].rbuf[i]
  BY <1>3, <1>4
<1>6. Len(d) + L <= wr
  BY <1>1, ListensWhileOpen, ReadIsWritten
<1>7. (\A i \in DOMAIN d : d[i] = i) /\ (\A i \in 1 .. L : tcp[e].rbuf[i] = Len(d) + i)
  <2> DEFINE r == Rcv(tcp[e])
             c == tcp[e].shutdown
  <2>1. r.rbuf = tcp[e].rbuf /\ Got(r, c, d)
    BY <1>2, EndFacts, Halves
  <2> HIDE DEF r, c, d
  <2>2. (\A i \in DOMAIN d : d[i] = i) /\ (\A i \in DOMAIN r.rbuf : r.rbuf[i] = Len(d) + i)
    BY <2>1 DEF Got
  <2>3. DOMAIN r.rbuf = 1 .. L
    BY <1>3, <2>1
  <2> QED BY <2>1, <2>2, <2>3
<1> HIDE DEF x, L, d, wr
<1>8. /\ delivered'[e] = d \o x
      /\ \A f \in Ends \ {e} : delivered'[f] = delivered[f]
  BY <1>1, <1>2
<1>9. Stream!IsPrefix(d, d \o x)
  BY <1>2, <1>5, AppendedPrefix
<1>10. Stream!IsPrefix(d \o x, Whole(wr))
  <2> DEFINE c == d \o x
  <2>1. c \in Seq(Nat) /\ Len(c) = Len(d) + n /\ Len(d) \in Nat
    <3>1. c \in Seq(Nat) /\ Len(c) = Len(d) + Len(x) /\ Len(d) \in Nat
      BY <1>2, <1>5
    <3> QED BY <1>5, <3>1
  <2>2. \A i \in 1 .. Len(d) + n : c[i] = IF i <= Len(d) THEN d[i] ELSE x[i - Len(d)]
    BY <1>2, <1>4, <1>5
  <2>3. ASSUME NEW i \in 1 .. Len(d) + n PROVE c[i] = i
    <3>1. CASE i <= Len(d)
      <4>1. i \in DOMAIN d
        BY <1>2, <3>1, <2>1
      <4> QED BY <1>7, <2>2, <3>1, <4>1
    <3>2. CASE ~(i <= Len(d))
      <4> DEFINE j == i - Len(d)
      <4>1. j \in 1 .. n /\ j \in 1 .. L /\ Len(d) + j = i
        BY <1>3, <1>4, <2>1, <3>2 DEF L
      <4>2. c[i] = x[j]
        BY <2>2, <3>2
      <4> HIDE DEF j
      <4> QED BY <1>5, <1>7, <4>1, <4>2
    <3> QED BY <3>1, <3>2
  <2> HIDE DEF c
  <2>4. DOMAIN c = 1 .. Len(d) + n /\ Len(c) <= wr
    BY <1>2, <1>3, <1>4, <1>6, <2>1 DEF L
  <2>5. \A i \in DOMAIN c : c[i] = i
    BY <2>3, <2>4
  <2>6. Stream!IsPrefix(c, Whole(wr))
    BY <1>2, <2>1, <2>4, <2>5, WholePrefix
  <2> QED BY <2>6 DEF c
<1>11. Stream!Other(e) = p
  BY DEF Stream!Other, Peer
<1>12. [f \in Ends |-> [i \in 1 .. written[f] |-> i]][Stream!Other(e)] = Whole(wr)
  BY <1>2, <1>11 DEF Whole, wr
<1> QED BY <1>1, <1>8, <1>9, <1>10, <1>12 DEF Stream!Read, d

\* Every step of the pair is a step of the streams, or changes neither.
LEMMA StreamStep ==
    ASSUME IInv, [Next]_vars
    PROVE  [Stream!Next]_<<[e \in Ends |-> [i \in 1 .. written[e] |-> i]], delivered>>
<1>1. CASE UNCHANGED <<written, delivered>>
  BY <1>1
<1>2. ASSUME NEW e \in Ends, NEW io \in Conditions, WriteStream(e, io) PROVE Stream!Next
  BY <1>2, WriteIsWrite DEF Stream!Next
<1>3. ASSUME NEW e \in Ends, NEW k \in {1, RcvBuf}, NEW io \in Conditions,
             ReadStream(e, k, io)
      PROVE  Stream!Next
  BY <1>3, ReadIsRead DEF Stream!Next
<1>4. \/ UNCHANGED <<written, delivered>>
      \/ \E e \in Ends, io \in Conditions : WriteStream(e, io)
      \/ \E e \in Ends, k \in {1, RcvBuf}, io \in Conditions : ReadStream(e, k, io)
  BY MetConditions DEF Next, vars, ConnectEnd, Lose, Deliver, RetransmitClock, ProbeClock, AckClock,
         ChangeMtu, CloseStream
<1> QED BY <1>1, <1>2, <1>3, <1>4

\* What one end reads is what the other wrote, in order, once and without gaps,
\* whatever the network loses, repeats and reorders.
THEOREM ImplementsByteStream ==
    Spec => StreamSpec
<1>1. Init => Stream!Init
  <2> SUFFICES ASSUME Init PROVE Stream!Init
    OBVIOUS
  <2>1. ASSUME NEW e \in Ends PROVE [i \in 1 .. written[e] |-> i] = <<>>
    <3>1. 1 .. 0 = {}
      OBVIOUS
    <3>2. written[e] = 0
      BY DEF Init
    <3> QED BY <3>1, <3>2
  <2> QED BY <2>1 DEF Init, Stream!Init
<1>2. IInv /\ [Next]_vars
        => [Stream!Next]_<<[e \in Ends |-> [i \in 1 .. written[e] |-> i]], delivered>>
  BY StreamStep
<1> QED BY <1>1, <1>2, Invariance, PTL DEF Spec, StreamSpec, Stream!Spec
=============================================================================
