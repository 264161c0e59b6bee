--------------------------- MODULE PseudoTcpPair ---------------------------
(***************************************************************************)
(* Two PseudoTcpChannels that talk to each other over a network that       *)
(* loses, delays, repeats and reorders packets.  Each handler of a channel *)
(* holds cs_ and ends with AdjustClock, which deletes the PseudoTcp that   *)
(* is ready for it.  The application reads and writes when it was told to  *)
(* and goes on until the call would block.                                 *)
(***************************************************************************)
EXTENDS PseudoTcp

CONSTANTS Ends, Initiator,
          Total,           \* units that each end wants to write
          MayClose,        \* ends whose application may close the stream
          NetworkSize,     \* bound on the packets on the way to one end
          Copies,          \* ends on the way to which packets may be repeated
          MaxSaved,        \* bound on m_rlist, to which each copy is added
          MtuChanges,      \* ends whose channel may report another MTU
          Mtus,            \* the MTUs it reports, without the overhead
          Fails            \* ends whose channel may fail to write

ASSUME PairAssumption ==
    /\ Initiator \in Ends
    /\ \A e \in Ends : \E f \in Ends : Ends = {e, f} /\ e # f
    /\ Total \in [Ends -> Nat]
    /\ MayClose \subseteq Ends
    /\ NetworkSize \in Nat /\ MaxSaved \in Nat
    /\ Copies \subseteq Ends /\ MtuChanges \subseteq Ends /\ Fails \subseteq Ends
    /\ Mtus \subseteq Nat \ {0}

VARIABLES tcp,         \* the PseudoTcp of each end
          gone,        \* ends whose PseudoTcp was deleted
          app,         \* what each application has been told and not yet used up
          written,     \* units each end has written
          delivered,   \* what each end has read
          net          \* packets on the way to each end

vars == <<tcp, gone, app, written, delivered, net>>

Peer(e) == CHOOSE f \in Ends : f # e

Init ==
    /\ tcp = [e \in Ends |-> NewTcp]
    /\ gone = {}
    /\ app = [e \in Ends |-> {}]
    /\ written = [e \in Ends |-> 0]
    /\ delivered = [e \in Ends |-> <<>>]
    /\ net = [e \in Ends |-> {}]

\* The notifications of a handler: OnTcpOpen posts SE_OPEN, SE_READ and
\* SE_WRITE; nobody listens when the stream is closed.
Told(w) ==
    IF w.t.shutdown THEN {}
    ELSE (w.told \cap {"readable", "writeable"}) \cup
         (IF "open" \in w.told THEN {"readable", "writeable"} ELSE {})

\* The end of a handler of e, with the packets arrived left on the network.
Finish(e, w, used, arrived) ==
    /\ Cardinality(net[Peer(e)] \cup w.out) <= NetworkSize
    /\ Len(w.t.rlist) <= MaxSaved
    /\ tcp' = [tcp EXCEPT ![e] = w.t]
    /\ gone' = IF ReadyToDestroy(w.t) THEN gone \cup {e} ELSE gone
    /\ app' = [app EXCEPT ![e] = (@ \ used) \cup Told(w)]
    /\ net' = [net EXCEPT ![e] = arrived, ![Peer(e)] = @ \cup w.out]

Alive(e) == e \notin gone

Met(e) == IF e \in Fails THEN Conditions ELSE NoFailure

-----------------------------------------------------------------------------
\* OnChannelWritableState at the initiator.
ConnectEnd(e, io) ==
    /\ e = Initiator /\ Alive(e)
    /\ tcp[e].state = "TCP_LISTEN"
    /\ Finish(e, Connect(tcp[e], io), {}, net[e])
    /\ UNCHANGED <<written, delivered>>

\* OnChannelRead.  The network may keep a copy of the packet.
Deliver(e, m, io, copy) ==
    /\ Alive(e)
    /\ Finish(e, Process(tcp[e], m, io), {}, (net[e] \ {m}) \cup copy)
    /\ UNCHANGED <<written, delivered>>

\* The network loses a packet, or there is nobody to take it.
Lose(e, m) ==
    /\ net' = [net EXCEPT ![e] = @ \ {m}]
    /\ UNCHANGED <<tcp, gone, app, written, delivered>>

\* MSG_WK_CLOCK: the timer that expires first.
RetransmitClock(e, io) ==
    /\ Alive(e) /\ tcp[e].state # "TCP_CLOSED"
    /\ tcp[e].rto_base
    /\ Finish(e, RetransmitTimeout(tcp[e], io), {}, net[e])
    /\ UNCHANGED <<written, delivered>>
ProbeClock(e, silent) ==
    /\ Alive(e) /\ tcp[e].state # "TCP_CLOSED"
    /\ tcp[e].snd_wnd = 0
    /\ Finish(e, IF silent THEN Closedown(Start(tcp[e])) ELSE ProbeWindow(tcp[e]),
              {}, net[e])
    /\ UNCHANGED <<written, delivered>>
AckClock(e) ==
    /\ Alive(e) /\ tcp[e].state # "TCP_CLOSED"
    /\ tcp[e].t_ack
    /\ Finish(e, DelayedAck(tcp[e]), {}, net[e])
    /\ UNCHANGED <<written, delivered>>

\* OnChannelConnectionChanged.
ChangeMtu(e, mtu) ==
    /\ e \in MtuChanges /\ Alive(e)
    /\ Finish(e, Start(NotifyMTU(tcp[e], mtu)), {}, net[e])
    /\ UNCHANGED <<written, delivered>>

-----------------------------------------------------------------------------
\* Write of the stream.
WriteStream(e, io) ==
    LET units == [i \in 1 .. Total[e] - written[e] |-> written[e] + i]
        n == MinOf(Len(units), SendSpace(tcp[e]))
    IN  /\ Alive(e) /\ tcp[e].state = "TCP_ESTABLISHED"
        /\ "writeable" \in app[e] /\ units # <<>>
        /\ written' = [written EXCEPT ![e] = @ + n]
        /\ Finish(e, Send(tcp[e], units, io), IF n = 0 THEN {"writeable"} ELSE {},
                  net[e])
        /\ UNCHANGED delivered

\* Read of the stream, k units at most.
ReadStream(e, k, io) ==
    LET n == MinOf(k, Len(tcp[e].rbuf))
    IN  /\ Alive(e) /\ tcp[e].state = "TCP_ESTABLISHED"
        /\ "readable" \in app[e]
        /\ delivered' = [delivered EXCEPT ![e] = @ \o SubSeq(tcp[e].rbuf, 1, n)]
        /\ Finish(e, Recv(tcp[e], k, io), IF n = 0 THEN {"readable"} ELSE {},
                  net[e])
        /\ UNCHANGED written

\* Close of the stream.
CloseStream(e) ==
    /\ Alive(e) /\ e \in MayClose
    /\ ~tcp[e].shutdown
    /\ Finish(e, Start([tcp[e] EXCEPT !.shutdown = TRUE]), app[e], net[e])
    /\ UNCHANGED <<written, delivered>>

Next ==
    \E e \in Ends :
        \/ \E io \in Met(e) : ConnectEnd(e, io)
        \/ \E m \in net[e] :
              \/ Lose(e, m)
              \/ \E io \in Met(e), copy \in SUBSET {m} :
                    (copy # {} => e \in Copies) /\ Deliver(e, m, io, copy)
        \/ \E io \in Met(e) : RetransmitClock(e, io)
        \/ \E silent \in BOOLEAN : ProbeClock(e, silent)
        \/ AckClock(e)
        \/ \E mtu \in Mtus : ChangeMtu(e, mtu)
        \/ \E io \in Met(e) : WriteStream(e, io)
        \/ \E k \in {1, RcvBuf}, io \in Met(e) : ReadStream(e, k, io)
        \/ CloseStream(e)

Spec == Init /\ [][Next]_vars

-----------------------------------------------------------------------------
\* Types.
TypeOK ==
    /\ gone \subseteq Ends
    /\ app \in [Ends -> SUBSET {"readable", "writeable"}]
    /\ \A e \in Ends :
          LET t == tcp[e]
          IN  /\ t.state \in TcpState
              /\ t.shutdown \in BOOLEAN
              /\ Len(t.sbuf) \in 0 .. SndBuf
              /\ Len(t.rbuf) \in 0 .. RcvBuf
              /\ t.snd_una \in 0 .. t.snd_nxt
              /\ t.rcv_wnd \in 0 .. ReceiveSpace(t)
              /\ t.mss \in Nat \ {0}
              /\ t.cwnd \in Nat \ {0}

\* The segments cover the send buffer without gap or overlap, and those that
\* were sent are the bytes in flight: "Find the next segment to transmit"
\* finds one, and the offset of a retransmission is inside the buffer.
SegmentsCover ==
    \A e \in Ends :
        LET t == tcp[e]
            Start0(i) == IF i = 1 THEN t.snd_una
                         ELSE t.slist[i - 1].seq + t.slist[i - 1].len
            End == IF t.slist = <<>> THEN t.snd_una
                   ELSE Last(t.slist).seq + Last(t.slist).len
        IN  /\ \A i \in DOMAIN t.slist :
                  /\ t.slist[i].len > 0
                  /\ t.slist[i].seq = Start0(i)
                  /\ t.slist[i].xmit > 0 <=> t.slist[i].seq < t.snd_nxt
            /\ End = t.snd_una + Len(t.sbuf)
            /\ t.snd_nxt <= End

\* The retransmission timer runs exactly while something is in flight: it never
\* expires with nothing to send again, and nothing waits for ever for its
\* acknowledgement.
TimerRunsInFlight ==
    \A e \in Ends : tcp[e].rto_base <=> InFlight(tcp[e]) > 0

\* A connection with something left to send never stalls of itself: a timer runs
\* that will send it, or ask for the window it needs.  Only a write that failed in
\* attemptSend ("TODO: consider closing socket") leaves it without.
NeverStalls ==
    \A e \in Ends :
        tcp[e].sbuf # <<>> =>
            tcp[e].rto_base \/ tcp[e].snd_wnd = 0 \/ tcp[e].failed

\* The receiver has room for all that was sent: no segment is cut to the
\* size of the receive buffer, after which its front would be acknowledged
\* alone.
WindowIsKept ==
    \A e \in Ends : \A m \in net[e] :
        m.seq + Len(m.data) <= tcp[e].rcv_nxt + ReceiveSpace(tcp[e])

\* Only what has arrived without a gap is acknowledged, and it waits to be read
\* or was: the sender may forget it.
AckedHasArrived ==
    \A e \in Ends :
        LET p == Peer(e)
        IN  /\ tcp[e].snd_una <= tcp[p].rcv_nxt
            /\ ~tcp[p].shutdown /\ tcp[p].rcv_nxt > 0 =>
                  Len(delivered[p]) + Len(tcp[p].rbuf) = tcp[p].rcv_nxt - 1

\* An end that is deleted after a graceful close, while the connection stands,
\* has delivered all that was written, unless the other end had closed too.
CloseLosesNothing ==
    \A e \in gone :
        tcp[e].state = "TCP_ESTABLISHED" /\ ~tcp[Peer(e)].shutdown =>
            Len(delivered[Peer(e)]) + Len(tcp[Peer(e)].rbuf) = written[e]

\* An application that was told that a call would block is told when it need
\* not any more.
NoLostEvent ==
    \A e \in Ends :
        tcp[e].state = "TCP_ESTABLISHED" /\ ~tcp[e].shutdown =>
            /\ tcp[e].rbuf # <<>> => "readable" \in app[e]
            /\ Len(tcp[e].sbuf) < kIdealRefillSize => "writeable" \in app[e]

\* The ends read what was written, in order, once and without gaps.
Stream == INSTANCE ByteStream
            WITH sent <- [e \in Ends |-> [i \in 1 .. written[e] |-> i]],
                 received <- delivered

StreamSpec == Stream!Spec
=============================================================================
