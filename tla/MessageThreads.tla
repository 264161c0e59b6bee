--------------------------- MODULE MessageThreads ---------------------------
(***************************************************************************)
(* rtc::Thread and the rtc::MessageQueue under it.  Each worker runs       *)
(* ProcessMessages(kForever); Main is a thread of the application that     *)
(* runs no message loop, calls the workers and destroys some of them.      *)
(*                                                                         *)
(* A thread is a stack of calls in progress.  A handler that runs, or      *)
(* Main, may post, send and clear as it likes, MaxCalls calls in all.  A   *)
(* section under crit_ is one step, and every wait is one.  A Thread is    *)
(* destroyed only when nobody is about to put a message into it.           *)
(***************************************************************************)
EXTENDS Lists

CONSTANTS Workers, Main, NoThread,
          Handlers,        \* MessageHandlers that messages are for
          Stoppable,       \* workers that Main may destroy
          Kinds,           \* kinds of calls that are made
          MaxCalls         \* bound on the calls made altogether

ASSUME ThreadsAssumption ==
    /\ Main \notin Workers /\ NoThread \notin Workers \cup {Main}
    /\ Stoppable \subseteq Workers
    /\ Kinds \subseteq {"post", "postdelayed", "send", "clear"}
    /\ MaxCalls \in Nat

Threads == Workers \cup {Main}

\* Messages: those posted before the workers were started, and one for each call.
Ids == Workers \cup 1 .. MaxCalls

VARIABLES stack,       \* calls in progress of each thread, the innermost last
          fStop,       \* workers that were told to quit
          exited,      \* workers whose ProcessMessages has returned
          gone,        \* workers that were destroyed
          msgq, dmsgq, sendlist,
          ready,       \* Sends whose ready flag is set
          signaled,    \* threads whose socket server has a WakeUp pending
          calls        \* number of calls made so far

vars == <<stack, fStop, exited, gone, msgq, dmsgq, sendlist, ready, signaled,
          calls>>

queues == <<msgq, dmsgq, sendlist>>
lives == <<fStop, exited, gone>>

\* A call in progress: what it is and where it stands, the thread it is about
\* (the sender for a handler, the target otherwise), and its message.  timed is
\* the timeout of Get's Wait and the flag waited of Send.
Frame(kind, pc, who, msg) ==
    [kind |-> kind, pc |-> pc, who |-> who, msg |-> msg, timed |-> FALSE]

Message(n, h) == [id |-> n, phandler |-> h]
NoMessage == Message(NoThread, NoThread)

Loop(pc, timed) ==
    [Frame("loop", pc, NoThread, NoMessage) EXCEPT !.timed = timed]

\* A message was posted to each worker before it was started.
Init ==
    /\ stack = [t \in Threads |->
                   IF t = Main THEN <<>> ELSE <<Loop("receive", FALSE)>>]
    /\ fStop = {} /\ exited = {} /\ gone = {}
    /\ \E h \in Handlers : msgq = [t \in Workers |-> <<Message(t, h)>>]
    /\ dmsgq = [t \in Workers |-> <<>>]
    /\ sendlist = [t \in Threads |-> <<>>]
    /\ ready = {} /\ signaled = {} /\ calls = 0

Top(t) == Last(stack[t])
At(t, kind, pc) == stack[t] # <<>> /\ Top(t).kind = kind /\ Top(t).pc = pc

\* The stack of t with its innermost call replaced, ended, or calling f.
Become(t, f) == [stack EXCEPT ![t] = Append(Front(@), f)]
GoTo(t, pc) == Become(t, [Top(t) EXCEPT !.pc = pc])
Return(t) == [stack EXCEPT ![t] = Front(@)]
CallFrom(s, t, f) == [s EXCEPT ![t] = Append(@, f)]

-----------------------------------------------------------------------------
(***************************************************************************)
(* MessageQueue::Get, called again and again by ProcessMessages.           *)
(***************************************************************************)
\* PopSendMessageFromThread: the first message sent by one of the sources.
Poppable(t, sources) ==
    {i \in DOMAIN sendlist[t] :
        /\ sendlist[t][i].sender \in sources
        /\ \A j \in 1 .. i - 1 : sendlist[t][j].sender \notin sources}

\* Mutant: a thread that waits takes messages from everybody.
SourcesAny(f) == Threads

\* ReceiveSends takes from everybody; in Send it is limited to the target.
Sources(f) == IF f.kind = "loop" THEN Threads ELSE {f.who}

\* One round of ReceiveSendsFromThread: the handler is called ...
ReceiveSend(t) ==
    /\ stack[t] # <<>> /\ Top(t).pc = "receive"
    /\ \E i \in Poppable(t, Sources(Top(t))) :
          LET s == sendlist[t][i]
          IN  /\ sendlist' = [sendlist EXCEPT ![t] = RemoveAt(@, i)]
              /\ stack' = CallFrom(stack, t, Frame("sent", "run", s.sender, s.msg))
    /\ UNCHANGED <<lives, msgq, dmsgq, ready, signaled, calls>>

\* ... and when it is done the sender is told.
Reply(t) ==
    /\ At(t, "sent", "run")
    /\ stack' = Return(t)
    /\ ready' = ready \cup {Top(t).msg.id}
    /\ signaled' = signaled \cup {Top(t).who}
    /\ UNCHANGED <<lives, queues, calls>>

\* No more messages sent: on to the posted ones, or to the wait of Send.
NoMoreSends(t) ==
    /\ stack[t] # <<>> /\ Top(t).pc = "receive"
    /\ Poppable(t, Sources(Top(t))) = {}
    /\ stack' = GoTo(t, IF Top(t).kind = "loop" THEN "scan" ELSE "wait")
    /\ UNCHANGED <<lives, queues, ready, signaled, calls>>

\* Delayed messages that are due are posted; the first message is taken.
TakePosted(t) ==
    /\ At(t, "loop", "scan")
    /\ \E due \in 0 .. Len(dmsgq[t]) :
          LET q == msgq[t] \o SubSeq(dmsgq[t], 1, due)
              rest == SubSeq(dmsgq[t], due + 1, Len(dmsgq[t]))
          IN  /\ dmsgq' = [dmsgq EXCEPT ![t] = rest]
              /\ msgq' = [msgq EXCEPT ![t] = IF q = <<>> THEN q ELSE Tail(q)]
              /\ stack' = IF q = <<>> THEN Become(t, Loop("quitting", rest # <<>>))
                          ELSE CallFrom(Become(t, Loop("receive", FALSE)), t,
                                        Frame("posted", "run", NoThread, q[1]))
    /\ UNCHANGED <<lives, sendlist, ready, signaled, calls>>

\* fStop_ ends Get and ProcessMessages, and with them the thread.
QuitLoop(t) ==
    /\ At(t, "loop", "quitting")
    /\ t \in fStop
    /\ stack' = [stack EXCEPT ![t] = <<>>]
    /\ exited' = exited \cup {t}
    /\ UNCHANGED <<fStop, gone, queues, ready, signaled, calls>>

GoToWait(t) ==
    /\ At(t, "loop", "quitting")
    /\ t \notin fStop
    /\ stack' = GoTo(t, "wait")
    /\ UNCHANGED <<lives, queues, ready, signaled, calls>>

\* Wait of the socket server: it ends with a WakeUp, which it uses up, or when
\* the next delayed message is due.
Awake(t) ==
    /\ At(t, "loop", "wait") \/ At(t, "send", "wait")
    /\ t \in signaled
    /\ signaled' = signaled \ {t}
    /\ stack' = IF Top(t).kind = "loop" THEN Become(t, Loop("receive", FALSE))
                ELSE Become(t, [Top(t) EXCEPT !.pc = "test", !.timed = TRUE])
    /\ UNCHANGED <<lives, queues, ready, calls>>
WaitTimesOut(t) ==
    /\ At(t, "loop", "wait")
    /\ Top(t).timed
    /\ stack' = Become(t, Loop("receive", FALSE))
    /\ UNCHANGED <<lives, queues, ready, signaled, calls>>

\* A handler of a posted message, or one called directly, returns.
HandlerReturns(t) ==
    /\ At(t, "posted", "run")
    /\ stack' = Return(t)
    /\ UNCHANGED <<lives, queues, ready, signaled, calls>>

-----------------------------------------------------------------------------
(***************************************************************************)
(* Calls that a handler or Main makes.  Post, PostDelayed and Send do      *)
(* nothing when fStop_ is set, and look at it before they take crit_.      *)
(***************************************************************************)
MayCall(t) ==
    /\ calls < MaxCalls
    /\ IF t = Main THEN stack[t] = <<>>
       ELSE At(t, "sent", "run") \/ At(t, "posted", "run")

BeginCall(t, u, kind, h) ==
    /\ MayCall(t) /\ u \in Workers \ fStop
    /\ calls' = calls + 1
    /\ stack' = CallFrom(stack, t, Frame(kind, "push", u, Message(calls + 1, h)))
    /\ UNCHANGED <<lives, queues, ready, signaled>>

\* Mutant: the thread is not woken up.
PostQuietly(t) ==
    /\ At(t, "post", "push")
    /\ msgq' = [msgq EXCEPT ![Top(t).who] = Append(@, Top(t).msg)]
    /\ stack' = Return(t)
    /\ UNCHANGED <<lives, dmsgq, sendlist, ready, signaled, calls>>

\* Post.
Post(t) ==
    /\ At(t, "post", "push")
    /\ LET u == Top(t).who
       IN  /\ msgq' = [msgq EXCEPT ![u] =
                          Append(@, Top(t).msg)]
           /\ signaled' = signaled \cup {u}
    /\ stack' = Return(t)
    /\ UNCHANGED <<lives, dmsgq, sendlist, ready, calls>>

\* DoDelayPost: the message is due before or after any other.
DoDelayPost(t) ==
    /\ At(t, "postdelayed", "push")
    /\ LET u == Top(t).who
       IN  /\ \E i \in 1 .. Len(dmsgq[u]) + 1 :
                 dmsgq' = [dmsgq EXCEPT ![u] =
                     InsertAt(@, i, Top(t).msg)]
           /\ signaled' = signaled \cup {u}
    /\ stack' = Return(t)
    /\ UNCHANGED <<lives, msgq, sendlist, ready, calls>>

\* Send to oneself calls the handler.
SendDirectly(t) ==
    /\ At(t, "send", "push") /\ Top(t).who = t
    /\ stack' = Become(t, Frame("posted", "run", NoThread, Top(t).msg))
    /\ UNCHANGED <<lives, queues, ready, signaled, calls>>

\* Send to another thread: the message is pushed, then the thread is woken up.
SendPush(t) ==
    /\ At(t, "send", "push") /\ Top(t).who # t
    /\ sendlist' = [sendlist EXCEPT ![Top(t).who] =
                       Append(@, [sender |-> t, msg |-> Top(t).msg])]
    /\ stack' = GoTo(t, "wake")
    /\ UNCHANGED <<lives, msgq, dmsgq, ready, signaled, calls>>
SendWakeUp(t) ==
    /\ At(t, "send", "wake")
    /\ signaled' = signaled \cup {Top(t).who}
    /\ stack' = GoTo(t, "test")
    /\ UNCHANGED <<lives, queues, ready, calls>>

SendNotReady(t) ==
    /\ At(t, "send", "test")
    /\ Top(t).msg.id \notin ready
    /\ stack' = GoTo(t, "receive")
    /\ UNCHANGED <<lives, queues, ready, signaled, calls>>

\* Mutant: the WakeUps that the wait has used up are not given back.
SendReturnsQuietly(t) ==
    /\ At(t, "send", "test")
    /\ Top(t).msg.id \in ready
    /\ stack' = Return(t)
    /\ UNCHANGED <<lives, queues, ready, signaled, calls>>

\* Send returns, and gives a WakeUp back if it has waited.
SendReturns(t) ==
    /\ At(t, "send", "test")
    /\ Top(t).msg.id \in ready
    /\ stack' = Return(t)
    /\ signaled' = IF Top(t).timed THEN signaled \cup {t} ELSE signaled
    /\ UNCHANGED <<lives, queues, ready, calls>>

\* The messages of u for the handlers hs, as they were sent and posted.
SentFor(u, hs) == {s \in ToSet(sendlist[u]) : s.msg.phandler \in hs}
PostedFor(q, hs) == {m \in ToSet(q) : m.phandler \in hs}

\* They are erased from the three lists.
Erase(u, hs) ==
    /\ sendlist' = [sendlist EXCEPT ![u] = Without(@, SentFor(u, hs))]
    /\ msgq' = [msgq EXCEPT ![u] = Without(@, PostedFor(@, hs))]
    /\ dmsgq' = [dmsgq EXCEPT ![u] = Without(@, PostedFor(@, hs))]

\* Mutant: the senders of the messages that are thrown away are not told.
ClearPosted(u, hs) ==
    /\ Erase(u, hs)
    /\ UNCHANGED <<ready, signaled>>

\* Thread::Clear of the messages of u for the handlers hs.
Clear(u, hs) ==
    /\ Erase(u, hs)
    /\ ready' = ready \cup {s.msg.id : s \in SentFor(u, hs)}
    /\ signaled' = signaled \cup {s.sender : s \in SentFor(u, hs)}

\* A handler that goes away clears its messages.
ClearHandler(t, u, h) ==
    /\ MayCall(t) /\ u \in Workers \ gone
    /\ calls' = calls + 1
    /\ Clear(u, {h})
    /\ UNCHANGED <<stack, lives>>

-----------------------------------------------------------------------------
(***************************************************************************)
(* Thread::~Thread, called by Main: Stop, that is Quit and Join, and Clear.*)
(***************************************************************************)
BeginDestroy(u) ==
    /\ stack[Main] = <<>>
    /\ u \in Stoppable \ gone
    /\ stack' = CallFrom(stack, Main, Frame("destroy", "quit", u, NoMessage))
    /\ UNCHANGED <<lives, queues, ready, signaled, calls>>
Quit ==
    /\ At(Main, "destroy", "quit")
    /\ fStop' = fStop \cup {Top(Main).who}
    /\ stack' = GoTo(Main, "wake")
    /\ UNCHANGED <<exited, gone, queues, ready, signaled, calls>>
\* Mutant: the thread is not woken up to quit.
QuitSilently ==
    /\ At(Main, "destroy", "wake")
    /\ stack' = GoTo(Main, "join")
    /\ UNCHANGED <<lives, queues, ready, signaled, calls>>

QuitWakeUp ==
    /\ At(Main, "destroy", "wake")
    /\ signaled' = signaled \cup {Top(Main).who}
    /\ stack' = GoTo(Main, "join")
    /\ UNCHANGED <<lives, queues, ready, calls>>

\* Join returns when the thread has exited; what is left is cleared.
AboutToPush(u) ==
    \E t \in Threads : \E i \in DOMAIN stack[t] :
        stack[t][i].pc = "push" /\ stack[t][i].who = u
JoinAndClear ==
    /\ At(Main, "destroy", "join")
    /\ Top(Main).who \in exited
    /\ ~AboutToPush(Top(Main).who)
    /\ gone' = gone \cup {Top(Main).who}
    /\ Clear(Top(Main).who, Handlers)
    /\ stack' = Return(Main)
    /\ UNCHANGED <<fStop, exited, calls>>

-----------------------------------------------------------------------------
\* What a thread does by itself, and the calls that it may make.
Step(t) ==
    \/ ReceiveSend(t) \/ Reply(t) \/ NoMoreSends(t)
    \/ TakePosted(t) \/ QuitLoop(t) \/ GoToWait(t) \/ Awake(t) \/ WaitTimesOut(t)
    \/ HandlerReturns(t)
    \/ Post(t) \/ DoDelayPost(t)
    \/ SendDirectly(t) \/ SendPush(t) \/ SendWakeUp(t)
    \/ SendNotReady(t) \/ SendReturns(t)
    \/ t = Main /\ (Quit \/ QuitWakeUp \/ JoinAndClear)

Call(t) ==
    \/ \E u \in Workers, h \in Handlers :
          \/ \E kind \in Kinds \ {"clear"} : BeginCall(t, u, kind, h)
          \/ "clear" \in Kinds /\ ClearHandler(t, u, h)
    \/ t = Main /\ \E u \in Workers : BeginDestroy(u)

Next == \E t \in Threads : Step(t) \/ Call(t)

Spec == Init /\ [][Next]_vars

\* Threads run, handlers return and time-outs expire.  Nobody has to call.
FairSpec == Spec /\ \A t \in Threads : WF_vars(Step(t))

-----------------------------------------------------------------------------
Messages == [id : Ids, phandler : Handlers]
Sends == [sender : Threads, msg : Messages]
Calls ==
    [kind : {"loop", "sent", "posted", "post", "postdelayed", "send", "destroy"},
     pc : {"receive", "scan", "quitting", "wait", "run", "push", "wake", "test",
           "quit", "join"},
     who : Threads \cup {NoThread}, msg : Messages \cup {NoMessage}, timed : BOOLEAN]

\* Types.
TypeOK ==
    /\ stack \in [Threads -> Seq(Calls)]
    /\ exited \subseteq fStop /\ gone \subseteq exited /\ fStop \subseteq Stoppable
    /\ msgq \in [Workers -> Seq(Messages)] /\ dmsgq \in [Workers -> Seq(Messages)]
    /\ sendlist \in [Threads -> Seq(Sends)] /\ sendlist[Main] = <<>>
    /\ \A t \in Threads : \A s \in ToSet(sendlist[t]) : s.sender # t
    /\ signaled \subseteq Threads /\ calls \in 0 .. MaxCalls
    /\ ready \subseteq Ids

\* A thread t that is about to wake u up.
WillWake(u) == \E t \in Threads : stack[t] # <<>> /\ Top(t).pc = "wake" /\ Top(t).who = u

\* A thread that sleeps in Get has nothing to do, and one that sleeps in Send has
\* neither its answer nor a message of the thread that it waits for: no WakeUp
\* was used up by the wait of a nested Send and lost.
NoLostWakeup ==
    \A t \in Threads :
        t \notin signaled /\ ~WillWake(t) =>
            /\ At(t, "loop", "wait") =>
                  /\ msgq[t] = <<>> /\ sendlist[t] = <<>> /\ t \notin fStop
                  /\ dmsgq[t] # <<>> => Top(t).timed
            /\ At(t, "send", "wait") =>
                  /\ Top(t).msg.id \notin ready
                  /\ Poppable(t, {Top(t).who}) = {}

\* While a thread waits in Send it only runs messages of the thread that it
\* waits for (thread_unittest: "thread A does not handle C's invoke while
\* invoking B").
OnlyFromTarget ==
    \A t \in Threads : \A i \in DOMAIN stack[t] \ {1} :
        stack[t][i].kind = "sent" /\ stack[t][i - 1].kind = "send" =>
            stack[t][i].who = stack[t][i - 1].who

Sending(t) == \E i \in DOMAIN stack[t] : stack[t][i].kind = "send"

\* Every Send returns: its message is handled or cleared, also when two threads
\* send to each other at the same time or the target is destroyed.
EverySendReturns ==
    \A t \in Threads : Sending(t) ~> ~Sending(t)

\* Messages that were posted are dispatched or cleared.
PostedRuns ==
    \A t \in Workers : msgq[t] # <<>> ~> msgq[t] = <<>>

\* The destructor of a thread returns.
DestroyReturns ==
    At(Main, "destroy", "quit") ~> stack[Main] = <<>>
=============================================================================
