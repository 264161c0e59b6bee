------------------------ MODULE MessageThreadsProofs ------------------------
(***************************************************************************)
(* Proofs about MessageThreads, for any number of threads, handlers and    *)
(* calls: the types, that a thread that waits in Send only runs messages   *)
(* of the thread it waits for, and that no WakeUp is lost.                 *)
(***************************************************************************)
EXTENDS MessageThreads, ListFacts, TLAPS

-----------------------------------------------------------------------------
(***************************************************************************)
(* The inductive invariant.                                                *)
(***************************************************************************)
\* The calls of each kind, and where they stand.
FrameInv(f) ==
    /\ f.kind = "loop" => f.pc \in {"receive", "scan", "quitting", "wait"}
    /\ f.kind = "sent" => f.pc = "run" /\ f.who \in Threads
    /\ f.kind = "posted" => f.pc = "run"
    /\ f.kind \in {"post", "postdelayed"} => f.pc = "push" /\ f.who \in Workers
    /\ f.kind = "send" =>
          f.pc \in {"push", "wake", "test", "receive", "wait"} /\ f.who \in Workers
    /\ f.kind = "destroy" => f.pc \in {"quit", "wake", "join"} /\ f.who \in Stoppable
    /\ f.pc = "push" => ~f.timed
    /\ f.kind \notin {"loop", "destroy"} => f.msg \in Messages

\* The message loop is the outermost call of a worker, and a call that waits for
\* another one runs a handler or receives.
StackInv ==
    \A t \in Threads : \A i \in DOMAIN stack[t] :
        /\ FrameInv(stack[t][i])
        /\ stack[t][i].kind = "loop" <=> i = 1 /\ t # Main
        /\ stack[t][i].kind = "destroy" => t = Main
        /\ i < Len(stack[t]) => stack[t][i].pc \in {"receive", "run"}

\* Thread s is the one that hears of the end of the Send with message n.
SendOf(n, s) ==
    \E i \in DOMAIN stack[s] : stack[s][i].kind = "send" /\ stack[s][i].msg.id = n
HandlerOf(n, s, t) ==
    \E i \in DOMAIN stack[t] :
        stack[t][i].kind = "sent" /\ stack[t][i].msg.id = n /\ stack[t][i].who = s
EntryOf(n, s, t) ==
    \E e \in ToSet(sendlist[t]) : e.msg.id = n /\ e.sender = s
Owns(n, s) ==
    SendOf(n, s) \/ \E t \in Threads : HandlerOf(n, s, t) \/ EntryOf(n, s, t)

\* A Send is known by its message.
OwnerInv ==
    \A n \in Ids, s \in Threads : Owns(n, s) =>
        n \in 1 .. calls /\ \A r \in Threads : Owns(n, r) => r = s

\* A call of Send below the innermost one gave up its WakeUp only to a call that
\* will give it back.
GivesBack(t, i) ==
    \E j \in DOMAIN stack[t] :
        j > i /\ stack[t][j].kind = "send" /\ stack[t][j].timed
ReadyInv ==
    \A t \in Threads : \A i \in DOMAIN stack[t] :
        /\ stack[t][i].kind = "send" /\ stack[t][i].pc \in {"receive", "wait"}
        /\ stack[t][i].msg.id \in ready
        => t \in signaled \/ GivesBack(t, i)

\* A thread on its way to sleep has seen everything or will be woken up.
Settled(t, f) ==
    /\ f.kind = "loop" /\ f.pc # "receive" => sendlist[t] = <<>>
    /\ f.kind = "loop" /\ f.pc \in {"quitting", "wait"} =>
          msgq[t] = <<>> /\ (dmsgq[t] # <<>> => f.timed)
    /\ f.kind = "loop" /\ f.pc = "wait" => t \notin fStop
    /\ f.kind = "send" /\ f.pc = "wait" =>
          \A e \in ToSet(sendlist[t]) : e.sender # f.who
SleepInv ==
    \A t \in Threads :
        stack[t] # <<>> /\ t \notin signaled /\ ~WillWake(t) => Settled(t, Top(t))

IInv == TypeOK /\ StackInv /\ OwnerInv /\ ReadyInv /\ SleepInv /\ OnlyFromTarget
-----------------------------------------------------------------------------
(***************************************************************************)
(* Stacks.                                                                 *)
(***************************************************************************)
\* The innermost call and the others.
LEMMA FrontFacts ==
    ASSUME NEW E, NEW s \in Seq(E), s # <<>>
    PROVE  /\ Len(s) \in Nat \ {0} /\ Last(s) = s[Len(s)] /\ Last(s) \in E
           /\ Front(s) \in Seq(E) /\ Len(Front(s)) = Len(s) - 1
           /\ \A i \in 1 .. Len(s) - 1 : Front(s)[i] = s[i]
<1>1. Len(s) \in Nat \ {0} /\ s[Len(s)] \in E
  OBVIOUS
<1>2. Last(s) = s[Len(s)]
  BY DEF Last
<1>3. Front(s) = [i \in 1 .. Len(s) - 1 |-> s[i]]
  <2>1. Front(s) = SubSeq(s, 1, Len(s) - 1)
    BY DEF Front
  <2>2. SubSeq(s, 1, Len(s) - 1) = [i \in 1 .. Len(s) - 1 |-> s[i]]
    BY <1>1
  <2> QED BY <2>1, <2>2
<1>4. \A i \in 1 .. Len(s) - 1 : s[i] \in E
  BY <1>1
<1>5. Front(s) \in Seq(E) /\ Len(Front(s)) = Len(s) - 1
  BY <1>1, <1>3, <1>4
<1> QED BY <1>1, <1>2, <1>3, <1>5

\* An element that is appended is the last one.
LEMMA PushFacts ==
    ASSUME NEW E, NEW s \in Seq(E), NEW e \in E
    PROVE  /\ Append(s, e) \in Seq(E) /\ Len(Append(s, e)) = Len(s) + 1
           /\ \A i \in 1 .. Len(s) : Append(s, e)[i] = s[i]
           /\ Append(s, e)[Len(s) + 1] = e
  OBVIOUS

\* A step of t keeps its k outermost calls, and F are the calls above them.
Effect(t, k, F) ==
    /\ stack' \in [Threads -> Seq(Calls)]
    /\ \A u \in Threads \ {t} : stack'[u] = stack[u]
    /\ k \in 0 .. Len(stack[t]) /\ F \in Seq(Calls)
    /\ Len(stack'[t]) = k + Len(F)
    /\ \A i \in 1 .. k : stack'[t][i] = stack[t][i]
    /\ \A i \in 1 .. Len(F) : stack'[t][k + i] = F[i]

Stacks == stack \in [Threads -> Seq(Calls)]

\* The innermost call returns.
LEMMA ReturnEffect ==
    ASSUME Stacks, NEW t \in Threads, stack[t] # <<>>, stack' = Return(t)
    PROVE  Effect(t, Len(stack[t]) - 1, <<>>)
<1>1. stack[t] \in Seq(Calls)
  BY DEF Stacks
<1>2. stack' \in [Threads -> Seq(Calls)] /\ stack'[t] = Front(stack[t])
      /\ \A u \in Threads \ {t} : stack'[u] = stack[u]
  BY <1>1, FrontFacts DEF Stacks, Return
<1>3. /\ Len(stack[t]) \in Nat \ {0} /\ Len(stack'[t]) = Len(stack[t]) - 1
      /\ \A i \in 1 .. Len(stack[t]) - 1 : stack'[t][i] = stack[t][i]
  <2>1. /\ Len(stack[t]) \in Nat \ {0} /\ Len(Front(stack[t])) = Len(stack[t]) - 1
        /\ \A i \in 1 .. Len(stack[t]) - 1 : Front(stack[t])[i] = stack[t][i]
    BY <1>1, FrontFacts
  <2> QED BY <1>2, <2>1
<1> QED BY <1>2, <1>3 DEF Effect

\* The innermost call goes on as f.
LEMMA BecomeEffect ==
    ASSUME Stacks, NEW t \in Threads, stack[t] # <<>>, NEW f \in Calls,
           stack' = Become(t, f)
    PROVE  Effect(t, Len(stack[t]) - 1, <<f>>)
<1>1. stack[t] \in Seq(Calls)
  BY DEF Stacks
<1>2. Front(stack[t]) \in Seq(Calls) /\ Len(stack[t]) \in Nat \ {0}
      /\ Len(Front(stack[t])) = Len(stack[t]) - 1
      /\ \A i \in 1 .. Len(stack[t]) - 1 : Front(stack[t])[i] = stack[t][i]
  BY <1>1, FrontFacts
<1>3. stack' \in [Threads -> Seq(Calls)] /\ stack'[t] = Append(Front(stack[t]), f)
      /\ \A u \in Threads \ {t} : stack'[u] = stack[u]
  BY <1>2, PushFacts DEF Stacks, Become
<1>4. /\ Len(stack'[t]) = Len(stack[t])
      /\ \A i \in 1 .. Len(stack[t]) - 1 : stack'[t][i] = stack[t][i]
      /\ stack'[t][Len(stack[t])] = f
  BY <1>2, <1>3, PushFacts
<1> QED BY <1>2, <1>3, <1>4 DEF Effect

\* The innermost call makes the call f.
LEMMA CallEffect ==
    ASSUME Stacks, NEW t \in Threads, NEW f \in Calls, stack' = CallFrom(stack, t, f)
    PROVE  Effect(t, Len(stack[t]), <<f>>)
<1>1. stack[t] \in Seq(Calls) /\ Len(stack[t]) \in Nat
  BY DEF Stacks
<1>2. stack' \in [Threads -> Seq(Calls)] /\ stack'[t] = Append(stack[t], f)
      /\ \A u \in Threads \ {t} : stack'[u] = stack[u]
  BY <1>1, PushFacts DEF Stacks, CallFrom
<1>3. /\ Len(stack'[t]) = Len(stack[t]) + 1
      /\ \A i \in 1 .. Len(stack[t]) : stack'[t][i] = stack[t][i]
      /\ stack'[t][Len(stack[t]) + 1] = f
  BY <1>1, <1>2, PushFacts
<1> QED BY <1>1, <1>2, <1>3 DEF Effect

\* The innermost call goes on as g and makes the call f.
LEMMA BecomeAndCallEffect ==
    ASSUME Stacks, NEW t \in Threads, stack[t] # <<>>, NEW f \in Calls, NEW g \in Calls,
           stack' = CallFrom(Become(t, g), t, f)
    PROVE  Effect(t, Len(stack[t]) - 1, <<g, f>>)
<1> DEFINE n == Len(stack[t])
           b == Append(Front(stack[t]), g)
<1>1. stack[t] \in Seq(Calls)
  BY DEF Stacks
<1>2. Front(stack[t]) \in Seq(Calls) /\ n \in Nat \ {0}
      /\ Len(Front(stack[t])) = n - 1
      /\ \A i \in 1 .. n - 1 : Front(stack[t])[i] = stack[t][i]
  BY <1>1, FrontFacts
<1>3. b \in Seq(Calls) /\ Len(b) = n /\ b[n] = g
      /\ \A i \in 1 .. n - 1 : b[i] = stack[t][i]
  BY <1>2, PushFacts
<1>4. stack' \in [Threads -> Seq(Calls)] /\ stack'[t] = Append(b, f)
      /\ \A u \in Threads \ {t} : stack'[u] = stack[u]
  <2> HIDE DEF b
  <2>1. Become(t, g) = [stack EXCEPT ![t] = b]
    BY DEF Stacks, Become, b
  <2>2. stack' = [stack EXCEPT ![t] = Append(b, f)]
    BY <2>1 DEF CallFrom, Stacks
  <2> QED BY <1>3, <2>2, PushFacts DEF Stacks
<1>5. /\ Len(stack'[t]) = n + 1
      /\ \A i \in 1 .. n - 1 : stack'[t][i] = stack[t][i]
      /\ stack'[t][n] = g /\ stack'[t][n + 1] = f
  <2> HIDE DEF b
  <2>1. /\ Len(stack'[t]) = n + 1 /\ stack'[t][n + 1] = f
        /\ \A i \in 1 .. n : stack'[t][i] = b[i]
    BY <1>2, <1>3, <1>4, PushFacts
  <2> QED BY <1>2, <1>3, <2>1
<1>6. <<g, f>> \in Seq(Calls) /\ Len(<<g, f>>) = 2 /\ <<g, f>>[1] = g /\ <<g, f>>[2] = f
  OBVIOUS
<1>7. \A i \in 1 .. 2 : stack'[t][n - 1 + i] = <<g, f>>[i]
  BY <1>2, <1>5, <1>6
<1> QED BY <1>2, <1>4, <1>5, <1>6, <1>7 DEF Effect

\* The thread has ended.
LEMMA ExitEffect ==
    ASSUME Stacks, NEW t \in Threads, stack' = [stack EXCEPT ![t] = <<>>]
    PROVE  Effect(t, 0, <<>>)
  BY DEF Stacks, Effect

\* Nothing happened to the stacks.
LEMMA NoEffect ==
    ASSUME Stacks, NEW t \in Threads, stack' = stack
    PROVE  Effect(t, Len(stack[t]), <<>>)
  BY DEF Stacks, Effect

\* The calls that are made are calls.
LEMMA FrameTypes ==
    /\ \A pc \in {"receive", "scan", "quitting", "wait"}, b \in BOOLEAN :
          /\ Loop(pc, b) \in Calls
          /\ Loop(pc, b) = [kind |-> "loop", pc |-> pc, who |-> NoThread,
                            msg |-> NoMessage, timed |-> b]
    /\ \A m \in Messages, u \in Threads \cup {NoThread} :
          /\ Frame("sent", "run", u, m) \in Calls
          /\ Frame("posted", "run", u, m) \in Calls
          /\ \A kind \in {"post", "postdelayed", "send"} :
                Frame(kind, "push", u, m) \in Calls
    /\ \A u \in Threads : Frame("destroy", "quit", u, NoMessage) \in Calls
<1> HIDE DEF NoMessage, Messages
<1> QED BY DEF Loop, Frame, Calls

\* The innermost call.
LEMMA TopFacts ==
    ASSUME Stacks, NEW t \in Threads, stack[t] # <<>>
    PROVE  /\ Len(stack[t]) \in Nat \ {0} /\ Top(t) \in Calls
           /\ Top(t) = stack[t][Len(stack[t])] /\ Len(stack[t]) \in DOMAIN stack[t]
           /\ DOMAIN stack[t] = 1 .. Len(stack[t])
<1>1. stack[t] \in Seq(Calls)
  BY DEF Stacks
<1> QED BY <1>1, FrontFacts DEF Top

-----------------------------------------------------------------------------
(***************************************************************************)
(* What a step has to respect for each part of the invariant.              *)
(***************************************************************************)
\* The calls of t after a step are k old ones and the new ones.
LEMMA EffectFrames ==
    ASSUME Stacks, NEW t \in Threads, NEW k, NEW F, Effect(t, k, F)
    PROVE  /\ Stacks' /\ k \in 0 .. Len(stack[t]) /\ F \in Seq(Calls) /\ Len(F) \in Nat
           /\ DOMAIN F = 1 .. Len(F) /\ Len(stack[t]) \in Nat
           /\ \A u \in Threads : DOMAIN stack[u] = 1 .. Len(stack[u])
           /\ \A u \in Threads : DOMAIN stack'[u] = 1 .. Len(stack'[u])
           /\ Len(stack'[t]) = k + Len(F)
           /\ \A u \in Threads \ {t} : stack'[u] = stack[u]
           /\ \A i \in DOMAIN stack'[t] :
                 \/ i <= k /\ i \in DOMAIN stack[t] /\ stack'[t][i] = stack[t][i]
                 \/ i > k /\ i - k \in DOMAIN F /\ stack'[t][i] = F[i - k]
<1>1. /\ stack[t] \in Seq(Calls) /\ stack'[t] \in Seq(Calls) /\ F \in Seq(Calls)
      /\ \A u \in Threads : stack[u] \in Seq(Calls) /\ stack'[u] \in Seq(Calls)
      /\ stack' \in [Threads -> Seq(Calls)]
  BY DEF Effect, Stacks
<1>2. Len(stack[t]) \in Nat /\ Len(F) \in Nat /\ DOMAIN F = 1 .. Len(F)
      /\ DOMAIN stack[t] = 1 .. Len(stack[t]) /\ DOMAIN stack'[t] = 1 .. Len(stack'[t])
  BY <1>1
<1>3. k \in 0 .. Len(stack[t]) /\ Len(stack'[t]) = k + Len(F)
      /\ \A u \in Threads \ {t} : stack'[u] = stack[u]
  BY DEF Effect
<1>4. ASSUME NEW i \in DOMAIN stack'[t]
      PROVE  \/ i <= k /\ i \in DOMAIN stack[t] /\ stack'[t][i] = stack[t][i]
             \/ i > k /\ i - k \in DOMAIN F /\ stack'[t][i] = F[i - k]
  <2>1. CASE i <= k
    BY <1>2, <1>3, <2>1 DEF Effect
  <2>2. CASE i > k
    <3>1. i - k \in 1 .. Len(F) /\ k + (i - k) = i
      BY <1>2, <1>3, <2>2
    <3>2. stack'[t][k + (i - k)] = F[i - k]
      BY <3>1 DEF Effect
    <3> QED BY <1>2, <2>2, <3>1, <3>2
  <2> QED BY <1>2, <1>3, <2>1, <2>2
<1>5. \A u \in Threads : DOMAIN stack[u] = 1 .. Len(stack[u])
                         /\ DOMAIN stack'[u] = 1 .. Len(stack'[u])
  BY <1>1
<1>6. Stacks'
  BY <1>1 DEF Stacks
<1> QED BY <1>1, <1>2, <1>3, <1>4, <1>5, <1>6

\* New calls of thread t above k old ones.
NewFrames(t, k, F) ==
    /\ \A i \in DOMAIN F :
          /\ FrameInv(F[i])
          /\ F[i].kind = "loop" <=> k + i = 1 /\ t # Main
          /\ F[i].kind = "destroy" => t = Main
          /\ i < Len(F) => F[i].pc \in {"receive", "run"}
    /\ F # <<>> /\ k = Len(stack[t]) /\ k > 0 => stack[t][k].pc \in {"receive", "run"}

\* A step of t that replaces the top of its stack keeps the stacks well formed.
LEMMA StackStep ==
    ASSUME Stacks, StackInv, NEW t \in Threads, NEW k, NEW F,
           Effect(t, k, F), NewFrames(t, k, F)
    PROVE  StackInv'
<1> DEFINE P(u, i, s, n) ==
               /\ FrameInv(s[i])
               /\ s[i].kind = "loop" <=> i = 1 /\ u # Main
               /\ s[i].kind = "destroy" => u = Main
               /\ i < n => s[i].pc \in {"receive", "run"}
<1>1. ASSUME NEW u \in Threads \ {t}, NEW i \in DOMAIN stack'[u]
      PROVE  P(u, i, stack'[u], Len(stack'[u]))
  BY <1>1, EffectFrames DEF StackInv
<1>2. ASSUME NEW i \in DOMAIN stack'[t]
      PROVE  P(t, i, stack'[t], Len(stack'[t]))
  <2>1. CASE i <= k /\ i \in DOMAIN stack[t] /\ stack'[t][i] = stack[t][i]
    <3>1. P(t, i, stack[t], Len(stack[t]))
      BY <2>1 DEF StackInv
    <3>2. i < Len(stack'[t]) => stack[t][i].pc \in {"receive", "run"}
      <4>0. /\ k \in 0 .. Len(stack[t]) /\ F \in Seq(Calls) /\ Len(F) \in Nat
            /\ Len(stack[t]) \in Nat /\ DOMAIN stack[t] = 1 .. Len(stack[t])
            /\ Len(stack'[t]) = k + Len(F)
        BY EffectFrames
      <4>1. CASE i < Len(stack[t])
        BY <3>1, <4>1
      <4>2. CASE i >= Len(stack[t]) /\ i < Len(stack'[t])
        <5>1. i = k /\ k = Len(stack[t]) /\ k > 0 /\ Len(F) > 0
          BY <2>1, <4>0, <4>2
        <5> QED BY <4>0, <5>1 DEF NewFrames
      <4> QED BY <2>1, <4>0, <4>1, <4>2
    <3> QED BY <2>1, <3>1, <3>2
  <2>2. CASE i > k /\ i - k \in DOMAIN F /\ stack'[t][i] = F[i - k]
    <3>1. /\ k \in 0 .. Len(stack[t]) /\ Len(F) \in Nat /\ DOMAIN F = 1 .. Len(F)
          /\ Len(stack[t]) \in Nat /\ Len(stack'[t]) = k + Len(F)
          /\ DOMAIN stack'[t] = 1 .. Len(stack'[t])
      BY EffectFrames
    <3>2. /\ FrameInv(F[i - k])
          /\ F[i - k].kind = "loop" <=> k + (i - k) = 1 /\ t # Main
          /\ F[i - k].kind = "destroy" => t = Main
          /\ i - k < Len(F) => F[i - k].pc \in {"receive", "run"}
      BY <2>2 DEF NewFrames
    <3>3. k + (i - k) = i /\ (i < Len(stack'[t]) => i - k < Len(F))
      BY <3>1
    <3> QED BY <2>2, <3>2, <3>3
  <2> QED BY <2>1, <2>2, EffectFrames
<1> HIDE DEF P
<1>3. \A u \in Threads : \A i \in DOMAIN stack'[u] : P(u, i, stack'[u], Len(stack'[u]))
  BY <1>1, <1>2
<1> QED BY <1>3 DEF P, StackInv, FrameInv

\* A handler that t starts is for a message of the thread it waits for.
LEMMA TargetStep ==
    ASSUME Stacks, OnlyFromTarget, NEW t \in Threads, NEW k, NEW F, Effect(t, k, F),
           \A i \in DOMAIN F : F[i].kind = "sent" =>
               i = 1 /\ (k > 0 /\ stack[t][k].kind = "send" => F[1].who = stack[t][k].who)
    PROVE  OnlyFromTarget'
<1> SUFFICES ASSUME NEW u \in Threads, NEW i \in DOMAIN stack'[u] \ {1},
                    stack'[u][i].kind = "sent", stack'[u][i - 1].kind = "send"
             PROVE  stack'[u][i].who = stack'[u][i - 1].who
  BY DEF OnlyFromTarget
<1>1. CASE u # t
  BY <1>1, EffectFrames DEF OnlyFromTarget
<1>2. CASE u = t
  <2>0. /\ k \in 0 .. Len(stack[t]) /\ Len(stack[t]) \in Nat /\ Len(F) \in Nat
        /\ DOMAIN stack'[t] = 1 .. Len(stack'[t]) /\ i \in DOMAIN stack'[t]
        /\ DOMAIN stack[t] = 1 .. Len(stack[t]) /\ Len(stack'[t]) = k + Len(F)
        /\ DOMAIN F = 1 .. Len(F)
    BY <1>2, EffectFrames
  <2>1. i - 1 \in DOMAIN stack'[t] /\ i \in Nat
    BY <2>0
  <2>2. \/ i <= k /\ i \in DOMAIN stack[t] /\ stack'[t][i] = stack[t][i]
        \/ i > k /\ i - k \in DOMAIN F /\ stack'[t][i] = F[i - k]
    <3>1. \A n \in DOMAIN stack'[t] :
            \/ n <= k /\ n \in DOMAIN stack[t] /\ stack'[t][n] = stack[t][n]
            \/ n > k /\ n - k \in DOMAIN F /\ stack'[t][n] = F[n - k]
      BY EffectFrames
    <3> QED BY <2>0, <3>1
  <2>3. \/ i - 1 <= k /\ i - 1 \in DOMAIN stack[t] /\ stack'[t][i - 1] = stack[t][i - 1]
        \/ i - 1 > k /\ (i - 1) - k \in DOMAIN F
    <3> DEFINE j == i - 1
    <3>1. j \in DOMAIN stack'[t]
      BY <2>1
    <3> HIDE DEF j
    <3>2. \/ j <= k /\ j \in DOMAIN stack[t] /\ stack'[t][j] = stack[t][j]
          \/ j > k /\ j - k \in DOMAIN F /\ stack'[t][j] = F[j - k]
      BY <3>1, EffectFrames
    <3> QED BY <3>2 DEF j
  <2>4. CASE i <= k
    <3>1. stack'[t][i] = stack[t][i] /\ stack'[t][i - 1] = stack[t][i - 1]
          /\ i \in DOMAIN stack[t] \ {1}
      BY <2>0, <2>1, <2>2, <2>3, <2>4
    <3> QED BY <1>2, <3>1 DEF OnlyFromTarget
  <2>5. CASE i > k
    <3>1. i - k \in DOMAIN F /\ stack'[t][i] = F[i - k]
      BY <2>0, <2>1, <2>2, <2>5
    <3>2. i - k = 1 /\ (k > 0 /\ stack[t][k].kind = "send" => F[1].who = stack[t][k].who)
      BY <1>2, <3>1
    <3>3. i - 1 = k /\ k > 0
      BY <2>0, <2>1, <3>2
    <3>4. stack'[t][k] = stack[t][k]
      BY <2>0, <2>3, <3>3
    <3> QED BY <1>2, <3>1, <3>2, <3>3, <3>4
  <2> QED BY <2>0, <2>1, <2>4, <2>5
<1> QED BY <1>1, <1>2

\* Who hears of a message is known, or a call by t has just been given its message.
Known(n, s, t) == Owns(n, s) \/ (n = calls + 1 /\ s = t /\ calls' = calls + 1)

NewOwners(t, F) ==
    /\ calls' \in {calls, calls + 1}
    /\ \A i \in DOMAIN F :
          /\ F[i].kind = "send" => Known(F[i].msg.id, t, t)
          /\ F[i].kind = "sent" => Known(F[i].msg.id, F[i].who, t)
    /\ \A u \in Threads : \A e \in ToSet(sendlist'[u]) : Known(e.msg.id, e.sender, t)

\* Such a step leaves every pending Send with the one call that waits for it.
LEMMA OwnerStep ==
    ASSUME Stacks, OwnerInv, calls \in Nat, NEW t \in Threads, NEW k, NEW F,
           Effect(t, k, F), NewOwners(t, F)
    PROVE  OwnerInv'
<1>1. ASSUME NEW n \in Ids, NEW s \in Threads, Owns(n, s)'
      PROVE  Known(n, s, t)
  <2>1. CASE SendOf(n, s)'
    <3>1. PICK i \in DOMAIN stack'[s] :
              stack'[s][i].kind = "send" /\ stack'[s][i].msg.id = n
      BY <2>1 DEF SendOf
    <3>2. CASE s # t
      BY <3>1, <3>2, EffectFrames DEF Known, Owns, SendOf
    <3>3. CASE s = t
      <4>1. CASE i \in DOMAIN stack[t] /\ stack'[t][i] = stack[t][i]
        BY <3>1, <3>3, <4>1 DEF Known, Owns, SendOf
      <4>2. CASE i - k \in DOMAIN F /\ stack'[t][i] = F[i - k]
        BY <3>1, <3>3, <4>2 DEF NewOwners
      <4> QED BY <3>3, <4>1, <4>2, EffectFrames
    <3> QED BY <3>2, <3>3
  <2>2. ASSUME NEW u \in Threads, HandlerOf(n, s, u)'
        PROVE  Known(n, s, t)
    <3>1. PICK i \in DOMAIN stack'[u] : stack'[u][i].kind = "sent"
              /\ stack'[u][i].msg.id = n /\ stack'[u][i].who = s
      BY <2>2 DEF HandlerOf
    <3>2. CASE u # t
      BY <3>1, <3>2, EffectFrames DEF Known, Owns, HandlerOf
    <3>3. CASE u = t
      <4>1. CASE i \in DOMAIN stack[t] /\ stack'[t][i] = stack[t][i]
        BY <3>1, <3>3, <4>1 DEF Known, Owns, HandlerOf
      <4>2. CASE i - k \in DOMAIN F /\ stack'[t][i] = F[i - k]
        BY <3>1, <3>3, <4>2 DEF NewOwners
      <4> QED BY <3>3, <4>1, <4>2, EffectFrames
    <3> QED BY <3>2, <3>3
  <2>3. ASSUME NEW u \in Threads, EntryOf(n, s, u)'
        PROVE  Known(n, s, t)
    BY <2>3 DEF EntryOf, NewOwners
  <2> QED BY <1>1, <2>1, <2>2, <2>3 DEF Owns
<1> SUFFICES ASSUME NEW n \in Ids, NEW s \in Threads, Owns(n, s)'
             PROVE  n \in 1 .. calls' /\ \A r \in Threads : Owns(n, r)' => r = s
  BY DEF OwnerInv
<1>2. Known(n, s, t) /\ \A r \in Threads : Owns(n, r)' => Known(n, r, t)
  BY <1>1
<1>3. /\ Owns(n, s) => n \in 1 .. calls /\ \A r \in Threads : Owns(n, r) => r = s
      /\ \A r \in Threads : Owns(n, r) => n \in 1 .. calls
  BY DEF OwnerInv
<1>4. calls' \in {calls, calls + 1}
  BY DEF NewOwners
<1>5. n \in 1 .. calls => n # calls + 1 /\ n \in 1 .. calls'
  BY <1>4
<1>6. n = calls + 1 /\ calls' = calls + 1 => n \in 1 .. calls'
  OBVIOUS
<1> QED BY <1>2, <1>3, <1>5, <1>6 DEF Known

\* What a step of t may do to the WakeUps and the answers.
TimedIn(F) == \E i \in DOMAIN F : F[i].kind = "send" /\ F[i].timed
NewAnswers(t, k, F) ==
    /\ \A u \in Threads \ {t} : u \in signaled => u \in signaled'
    /\ \A n \in ready' \ ready : \E s \in Threads : Owns(n, s) /\ s \in signaled'
    /\ t \in signaled => t \in signaled' \/ TimedIn(F) \/ k = 0
    /\ \A j \in DOMAIN stack[t] : j > k /\ stack[t][j].kind = "send" /\ stack[t][j].timed
          => t \in signaled' \/ TimedIn(F)
    /\ \A i \in DOMAIN F :
          /\ F[i].kind = "send" /\ F[i].pc \in {"receive", "wait"}
          /\ F[i].msg.id \in ready'
          => t \in signaled'

\* Such a step leaves no answered Send without a signal on its way.
LEMMA ReadyStep ==
    ASSUME Stacks, StackInv, OwnerInv, ReadyInv, NEW t \in Threads, NEW k, NEW F,
           Effect(t, k, F), NewAnswers(t, k, F)
    PROVE  ReadyInv'
<1> SUFFICES ASSUME NEW u \in Threads, NEW i \in DOMAIN stack'[u],
                    stack'[u][i].kind = "send", stack'[u][i].pc \in {"receive", "wait"},
                    stack'[u][i].msg.id \in ready'
             PROVE  u \in signaled' \/ GivesBack(u, i)'
  BY DEF ReadyInv
<1> DEFINE n == stack'[u][i].msg.id
<1>0. /\ k \in 0 .. Len(stack[t]) /\ Len(stack[t]) \in Nat /\ Len(F) \in Nat
      /\ DOMAIN stack'[t] = 1 .. Len(stack'[t]) /\ DOMAIN stack[t] = 1 .. Len(stack[t])
      /\ Len(stack'[t]) = k + Len(F) /\ DOMAIN F = 1 .. Len(F)
  BY EffectFrames
<1>1. ASSUME i \in DOMAIN stack[u], stack'[u][i] = stack[u][i], n \notin ready
      PROVE  u \in signaled'
  <2>1. n \in Ids
    BY <1>1 DEF StackInv, FrameInv, Messages
  <2>2. Owns(n, u)
    BY <1>1 DEF Owns, SendOf
  <2>3. PICK s \in Threads : Owns(n, s) /\ s \in signaled'
    BY <1>1 DEF NewAnswers
  <2>4. s = u
    BY <2>1, <2>2, <2>3 DEF OwnerInv
  <2> QED BY <2>3, <2>4
<1>2. CASE u # t
  <2>1. stack'[u] = stack[u]
    BY <1>2, EffectFrames
  <2>2. CASE n \notin ready
    BY <1>1, <2>1, <2>2
  <2>3. CASE n \in ready
    <3>1. u \in signaled \/ GivesBack(u, i)
      BY <2>1, <2>3 DEF ReadyInv
    <3>2. GivesBack(u, i) => GivesBack(u, i)'
      BY <2>1 DEF GivesBack
    <3> QED BY <1>2, <3>1, <3>2 DEF NewAnswers
  <2> QED BY <2>2, <2>3
<1>3. CASE u = t
  <2>0. TimedIn(F) /\ i <= k => GivesBack(t, i)'
    <3> SUFFICES ASSUME TimedIn(F), i <= k PROVE GivesBack(t, i)'
      OBVIOUS
    <3>1. PICK m \in DOMAIN F : F[m].kind = "send" /\ F[m].timed
      BY DEF TimedIn
    <3>2. k + m \in DOMAIN stack'[t] /\ k + m > i /\ stack'[t][k + m] = F[m]
      BY <1>0, <1>3, <3>1 DEF Effect
    <3> QED BY <3>1, <3>2 DEF GivesBack
  <2>1. CASE i <= k /\ i \in DOMAIN stack[t] /\ stack'[t][i] = stack[t][i]
    <3>1. CASE n \notin ready
      BY <1>1, <1>3, <2>1, <3>1
    <3>2. CASE n \in ready
      <4>1. t \in signaled \/ GivesBack(t, i)
        BY <1>3, <2>1, <3>2 DEF ReadyInv
      <4>2. CASE t \in signaled
        <5>1. k # 0
          BY <1>0, <2>1
        <5> QED BY <1>3, <2>0, <2>1, <4>2, <5>1 DEF NewAnswers
      <4>3. CASE GivesBack(t, i)
        <5>1. PICK j \in DOMAIN stack[t] :
                  j > i /\ stack[t][j].kind = "send" /\ stack[t][j].timed
          BY <4>3 DEF GivesBack
        <5>2. CASE j > k
          BY <1>3, <2>0, <2>1, <5>1, <5>2 DEF NewAnswers
        <5>3. CASE j <= k
          <6>1. j \in DOMAIN stack'[t] /\ stack'[t][j] = stack[t][j]
            BY <1>0, <5>3 DEF Effect
          <6> QED BY <1>3, <5>1, <6>1 DEF GivesBack
        <5> QED BY <1>0, <5>2, <5>3
      <4> QED BY <4>1, <4>2, <4>3
    <3> QED BY <3>1, <3>2
  <2>2. CASE i > k /\ i - k \in DOMAIN F /\ stack'[t][i] = F[i - k]
    BY <1>3, <2>2 DEF NewAnswers
  <2> QED BY <1>3, <2>1, <2>2, EffectFrames
<1> QED BY <1>2, <1>3

\* The queues of u give it no more to do than before.
Quieter(u) ==
    /\ ToSet(sendlist'[u]) \subseteq ToSet(sendlist[u])
    /\ sendlist[u] = <<>> => sendlist'[u] = <<>>
    /\ u # Main /\ msgq[u] = <<>> => msgq'[u] = <<>>
    /\ u # Main /\ dmsgq[u] = <<>> => dmsgq'[u] = <<>>
    /\ u \notin fStop => u \notin fStop'

\* Settled, after a step.
SettledNext(t, f) ==
    /\ f.kind = "loop" /\ f.pc # "receive" => sendlist'[t] = <<>>
    /\ f.kind = "loop" /\ f.pc \in {"quitting", "wait"} =>
          msgq'[t] = <<>> /\ (dmsgq'[t] # <<>> => f.timed)
    /\ f.kind = "loop" /\ f.pc = "wait" => t \notin fStop'
    /\ f.kind = "send" /\ f.pc = "wait" =>
          \A e \in ToSet(sendlist'[t]) : e.sender # f.who

\* What a step of t may do to the work of the others, and to its own.
NewWork(t, k, F) ==
    /\ \A u \in Threads \ {t} : u \in signaled => u \in signaled'
    /\ stack[t] # <<>> /\ Top(t).pc = "wake" => Top(t).who \in signaled'
    /\ \A u \in Threads \ {t} : u \in signaled' \/ WillWake(u)' \/ Quieter(u)
    /\ F = <<>> /\ k = Len(stack[t]) => stack[t] = <<>> \/ Top(t).pc = "run"
    /\ F # <<>> => t \in signaled' \/ WillWake(t)' \/ SettledNext(t, F[Len(F)])

\* Such a step leaves no thread asleep with work it has not seen.
LEMMA SleepStep ==
    ASSUME Stacks, StackInv, StackInv', SleepInv, NEW t \in Threads, NEW k, NEW F,
           Effect(t, k, F), NewWork(t, k, F)
    PROVE  SleepInv'
<1>0. /\ k \in 0 .. Len(stack[t]) /\ Len(stack[t]) \in Nat /\ Len(F) \in Nat
      /\ DOMAIN stack'[t] = 1 .. Len(stack'[t]) /\ DOMAIN stack[t] = 1 .. Len(stack[t])
      /\ Len(stack'[t]) = k + Len(F) /\ DOMAIN F = 1 .. Len(F) /\ F \in Seq(Calls)
      /\ Stacks'
  BY EffectFrames
<1> SUFFICES ASSUME NEW u \in Threads, stack'[u] # <<>>, u \notin signaled',
                    ~WillWake(u)'
             PROVE  SettledNext(u, Top(u)')
  BY DEF SleepInv, Settled, SettledNext
<1>1. CASE u # t
  <2>1. stack'[u] = stack[u] /\ Top(u)' = Top(u) /\ stack[u] # <<>>
    BY <1>1, EffectFrames DEF Top
  <2>2. u \notin signaled /\ Quieter(u)
    BY <1>1 DEF NewWork
  <2>3. ~WillWake(u)
    <3> SUFFICES ASSUME NEW v \in Threads, stack[v] # <<>>, Top(v).pc = "wake",
                        Top(v).who = u
                 PROVE  FALSE
      BY DEF WillWake
    <3>1. CASE v = t
      BY <3>1 DEF NewWork
    <3>2. CASE v # t
      <4>1. stack'[v] = stack[v] /\ Top(v)' = Top(v)
        BY <3>2, EffectFrames DEF Top
      <4> QED BY <4>1 DEF WillWake
    <3> QED BY <3>1, <3>2
  <2>4. Settled(u, Top(u))
    BY <2>1, <2>2, <2>3 DEF SleepInv
  <2>5. Top(u).kind = "loop" => u # Main
    <3>1. Len(stack[u]) \in DOMAIN stack[u] /\ Top(u) = stack[u][Len(stack[u])]
      BY <2>1, TopFacts
    <3> QED BY <3>1 DEF StackInv
  <2> QED BY <2>1, <2>2, <2>4, <2>5 DEF Settled, SettledNext, Quieter
<1>2. CASE u = t
  <2>1. Top(t)' = stack'[t][k + Len(F)] /\ k + Len(F) \in DOMAIN stack'[t]
    <3>1. Top(t)' = stack'[t][Len(stack'[t])] /\ Len(stack'[t]) \in DOMAIN stack'[t]
      <4>1. stack'[t] \in Seq(Calls) /\ stack'[t] # <<>>
        BY <1>0, <1>2 DEF Stacks
      <4>2. Last(stack'[t]) = stack'[t][Len(stack'[t])]
        BY <4>1, FrontFacts
      <4>3. Len(stack'[t]) \in Nat \ {0}
        BY <4>1, FrontFacts
      <4> QED BY <1>0, <4>2, <4>3 DEF Top
    <3> QED BY <1>0, <3>1
  <2>2. CASE F # <<>>
    <3>1. Len(F) \in 1 .. Len(F)
      BY <1>0, <2>2
    <3>2. Top(t)' = F[Len(F)]
      BY <2>1, <3>1 DEF Effect
    <3> QED BY <1>2, <2>2, <3>2 DEF NewWork
  <2>3. CASE F = <<>>
    <3>1. Len(F) = 0 /\ k \in 1 .. Len(stack[t]) /\ Top(t)' = stack[t][k]
      <4>1. Len(F) = 0
        BY <2>3
      <4>2. k \in 1 .. k /\ k \in 1 .. Len(stack[t])
        BY <1>0, <2>1, <4>1
      <4>3. stack'[t][k] = stack[t][k]
        BY <4>2 DEF Effect
      <4> QED BY <1>0, <2>1, <4>1, <4>2, <4>3
    <3>2. stack[t][k].pc \in {"receive", "run"}
      <4>1. CASE k < Len(stack[t])
        BY <1>0, <3>1, <4>1 DEF StackInv
      <4>2. CASE k = Len(stack[t])
        <5>1. stack[t] # <<>>
          BY <1>0, <3>1, <4>2
        <5>2. Top(t) = stack[t][k]
          BY <4>2, <5>1, TopFacts
        <5> QED BY <2>3, <4>2, <5>1, <5>2 DEF NewWork
      <4> QED BY <1>0, <3>1, <4>1, <4>2
    <3>3. stack[t][k].kind # "loop" \/ stack[t][k].pc = "receive"
      BY <1>0, <3>1, <3>2 DEF StackInv, FrameInv
    <3> QED BY <1>2, <3>1, <3>2, <3>3 DEF SettledNext
  <2> QED BY <2>2, <2>3
<1> QED BY <1>1, <1>2

-----------------------------------------------------------------------------
(***************************************************************************)
(* The actions.                                                            *)
(***************************************************************************)
\* The types of everything but the stacks.
RestOK ==
    /\ exited \subseteq fStop /\ gone \subseteq exited /\ fStop \subseteq Stoppable
    /\ msgq \in [Workers -> Seq(Messages)] /\ dmsgq \in [Workers -> Seq(Messages)]
    /\ sendlist \in [Threads -> Seq(Sends)] /\ sendlist[Main] = <<>>
    /\ \A t \in Threads : \A s \in ToSet(sendlist[t]) : s.sender # t
    /\ signaled \subseteq Threads /\ calls \in 0 .. MaxCalls
    /\ ready \subseteq Ids

\* A step that respects all parts of the invariant.
LEMMA StepInv ==
    ASSUME IInv, RestOK', NEW t \in Threads, NEW k, NEW F, Effect(t, k, F),
           NewFrames(t, k, F), NewOwners(t, F), NewAnswers(t, k, F), NewWork(t, k, F),
           \A i \in DOMAIN F : F[i].kind = "sent" =>
               i = 1 /\ (k > 0 /\ stack[t][k].kind = "send" => F[1].who = stack[t][k].who)
    PROVE  IInv'
<1>1. Stacks /\ StackInv /\ OwnerInv /\ ReadyInv /\ SleepInv /\ OnlyFromTarget
      /\ calls \in Nat
  BY ThreadsAssumption DEF IInv, TypeOK, Stacks
<1>2. StackInv'
  BY <1>1, StackStep
<1>3. OnlyFromTarget'
  BY <1>1, TargetStep
<1>4. OwnerInv'
  BY <1>1, OwnerStep
<1>5. ReadyInv'
  BY <1>1, ReadyStep
<1>6. SleepInv'
  BY <1>1, <1>2, SleepStep
<1>7. TypeOK'
  BY EffectFrames, <1>1 DEF TypeOK, RestOK, Stacks
<1> QED BY <1>2, <1>3, <1>4, <1>5, <1>6, <1>7 DEF IInv

\* The innermost call, seen with the invariant.
TopInv(t) ==
    /\ Len(stack[t]) \in Nat \ {0} /\ Top(t) \in Calls /\ FrameInv(Top(t))
    /\ Top(t) = stack[t][Len(stack[t])] /\ DOMAIN stack[t] = 1 .. Len(stack[t])
    /\ Top(t).kind = "loop" <=> Len(stack[t]) = 1 /\ t # Main
    /\ Top(t).kind = "destroy" => t = Main
    /\ Top(t).kind = "send" => Owns(Top(t).msg.id, t)
    /\ Top(t).kind = "sent" => Owns(Top(t).msg.id, Top(t).who)
    /\ /\ Top(t).kind = "send" /\ Top(t).pc \in {"receive", "wait"}
       /\ Top(t).msg.id \in ready
       => t \in signaled

\* What the invariant says of the innermost call of a thread.
LEMMA TopInvFacts ==
    ASSUME IInv, NEW t \in Threads, stack[t] # <<>>
    PROVE  Stacks /\ TopInv(t)
<1> DEFINE n == Len(stack[t])
<1>1. Stacks
  BY DEF IInv, TypeOK, Stacks
<1>2. /\ n \in Nat \ {0} /\ Top(t) \in Calls /\ Top(t) = stack[t][n] /\ n \in DOMAIN stack[t]
      /\ DOMAIN stack[t] = 1 .. n
  BY <1>1, TopFacts
<1>3. /\ FrameInv(Top(t))
      /\ Top(t).kind = "loop" <=> n = 1 /\ t # Main
      /\ Top(t).kind = "destroy" => t = Main
  BY <1>2 DEF IInv, StackInv
<1>4. /\ Top(t).kind = "send" => Owns(Top(t).msg.id, t)
      /\ Top(t).kind = "sent" => Owns(Top(t).msg.id, Top(t).who)
  BY <1>2 DEF Owns, SendOf, HandlerOf
<1>5. ~GivesBack(t, n)
  BY <1>2 DEF GivesBack
<1>6. /\ Top(t).kind = "send" /\ Top(t).pc \in {"receive", "wait"}
      /\ Top(t).msg.id \in ready
      => t \in signaled
  BY <1>2, <1>5 DEF IInv, ReadyInv
<1> QED BY <1>1, <1>2, <1>3, <1>4, <1>6 DEF TopInv

\* The senders in the lists hear of their messages.
EntriesKnown(t) ==
    \A u \in Threads : \A e \in ToSet(sendlist'[u]) : Known(e.msg.id, e.sender, t)
\* Messages that only leave the lists leave no new entry behind.
LEMMA EntriesStay ==
    ASSUME NEW t \in Threads,
           \A u \in Threads : ToSet(sendlist'[u]) \subseteq ToSet(sendlist[u])
    PROVE  EntriesKnown(t)
  BY DEF EntriesKnown, Known, Owns, EntryOf

\* A step of the innermost call of t.
LEMMA BecomeStep ==
    ASSUME IInv, RestOK', NEW t \in Threads, stack[t] # <<>>, NEW f \in Calls,
           stack' = Become(t, f), FrameInv(f),
           \/ f.kind = Top(t).kind /\ (f.kind = "send" => f.msg = Top(t).msg)
           \/ f.kind = "posted" /\ Top(t).kind = "send",
           f.kind # "sent", calls' = calls, ready' = ready, EntriesKnown(t),
           \A u \in Threads \ {t} : u \in signaled => u \in signaled',
           t \in signaled => t \in signaled' \/ (f.kind = "send" /\ f.timed)
                                             \/ f.kind = "loop",
           Top(t).kind = "send" /\ Top(t).timed
               => t \in signaled' \/ (f.kind = "send" /\ f.timed),
           f.kind = "send" /\ f.pc \in {"receive", "wait"} /\ f.msg.id \in ready
               => t \in signaled',
           Top(t).pc = "wake" => Top(t).who \in signaled',
           \A u \in Threads \ {t} : u \in signaled' \/ WillWake(u)' \/ Quieter(u),
           t \in signaled' \/ WillWake(t)' \/ SettledNext(t, f)
    PROVE  IInv'
<1> DEFINE n == Len(stack[t])
           F == <<f>>
<1>0. Stacks /\ TopInv(t)
  BY TopInvFacts
<1>1. Effect(t, n - 1, F)
  BY <1>0, BecomeEffect
<1>2. /\ n \in Nat \ {0} /\ n - 1 \in Nat /\ (n - 1) + 1 = n /\ n - 1 # n
      /\ F \in Seq(Calls) /\ DOMAIN F = {1} /\ F[1] = f /\ Len(F) = 1 /\ F # <<>>
  <2>1. n \in Nat \ {0}
    BY <1>0 DEF TopInv
  <2> QED BY <2>1
<1> HIDE DEF F
<1>3. NewFrames(t, n - 1, F)
  BY <1>0, <1>2 DEF TopInv, NewFrames
<1>4. NewOwners(t, F)
  BY <1>0, <1>2 DEF NewOwners, EntriesKnown, Known, TopInv
<1>5. NewAnswers(t, n - 1, F)
  <2>1. TimedIn(F) <=> f.kind = "send" /\ f.timed
    BY <1>2 DEF TimedIn
  <2>2. f.kind = "loop" => n - 1 = 0
    BY <1>0, <1>2 DEF TopInv
  <2>3. \A j \in DOMAIN stack[t] : j > n - 1 => stack[t][j] = Top(t)
    BY <1>0 DEF TopInv
  <2> QED BY <1>2, <2>1, <2>2, <2>3 DEF NewAnswers
<1>6. NewWork(t, n - 1, F)
  BY <1>2 DEF NewWork
<1>7. \A i \in DOMAIN F : F[i].kind # "sent"
  BY <1>2
<1> HIDE DEF n
<1> QED BY <1>1, <1>3, <1>4, <1>5, <1>6, <1>7, StepInv

\* The innermost call of t makes the call f.
LEMMA CallStep ==
    ASSUME IInv, RestOK', NEW t \in Threads, NEW f \in Calls,
           stack' = CallFrom(stack, t, f), FrameInv(f), f.kind # "loop",
           f.kind = "destroy" => t = Main,
           IF stack[t] = <<>> THEN t = Main ELSE Top(t).pc \in {"receive", "run"},
           f.kind = "sent" => /\ Owns(f.msg.id, f.who) /\ stack[t] # <<>>
                              /\ Top(t).kind = "send" => f.who = Top(t).who,
           f.kind = "send" => Known(f.msg.id, t, t) /\ f.pc = "push",
           calls' \in {calls, calls + 1}, ready' = ready, signaled' = signaled,
           EntriesKnown(t),
           \A u \in Threads \ {t} : Quieter(u)
    PROVE  IInv'
<1> DEFINE n == Len(stack[t])
           F == <<f>>
<1>0. Stacks
  BY DEF IInv, TypeOK, Stacks
<1>1. Effect(t, n, F)
  BY <1>0, CallEffect
<1>2. /\ n \in Nat /\ DOMAIN stack[t] = 1 .. n /\ (stack[t] # <<>> => n > 0)
      /\ n = 0 => stack[t] = <<>>
      /\ F \in Seq(Calls) /\ DOMAIN F = {1} /\ F[1] = f /\ Len(F) = 1 /\ F # <<>>
  <2>1. stack[t] \in Seq(Calls)
    BY <1>0 DEF Stacks
  <2> QED BY <2>1
<1>3. n > 0 => Top(t) = stack[t][n] /\ stack[t] # <<>>
  BY <1>0, <1>2, TopFacts
<1> HIDE DEF F
<1>4. NewFrames(t, n, F)
  BY <1>2, <1>3 DEF NewFrames
<1>5. NewOwners(t, F)
  BY <1>2 DEF NewOwners, EntriesKnown, Known
<1>6. NewAnswers(t, n, F)
  BY <1>2 DEF NewAnswers
<1>7. NewWork(t, n, F)
  <2>1. SettledNext(t, f)
    <3>1. f.kind # "loop" /\ (f.kind = "send" => f.pc # "wait")
      OBVIOUS
    <3> QED BY <3>1 DEF SettledNext
  <2>2. stack[t] # <<>> => Top(t).pc # "wake"
    OBVIOUS
  <2> QED BY <1>2, <2>1, <2>2 DEF NewWork
<1>8. \A i \in DOMAIN F : F[i].kind = "sent" =>
          i = 1 /\ (n > 0 /\ stack[t][n].kind = "send" => F[1].who = stack[t][n].who)
  BY <1>2, <1>3
<1> HIDE DEF n
<1> QED BY <1>1, <1>4, <1>5, <1>6, <1>7, <1>8, StepInv

\* The innermost call of t returns.
LEMMA ReturnStep ==
    ASSUME IInv, RestOK', NEW t \in Threads, stack[t] # <<>>, stack' = Return(t),
           calls' = calls, EntriesKnown(t),
           \A u \in Threads : u \in signaled => u \in signaled',
           \A m \in ready' \ ready : \E s \in Threads : Owns(m, s) /\ s \in signaled',
           Top(t).kind = "send" /\ Top(t).timed => t \in signaled',
           Top(t).pc = "wake" => Top(t).who \in signaled',
           \A u \in Threads \ {t} : u \in signaled' \/ WillWake(u)' \/ Quieter(u)
    PROVE  IInv'
<1> DEFINE n == Len(stack[t])
<1>0. Stacks /\ TopInv(t)
  BY TopInvFacts
<1>1. Effect(t, n - 1, <<>>)
  BY <1>0, ReturnEffect
<1>2. n \in Nat \ {0} /\ n - 1 # n /\ DOMAIN <<>> = {}
  <2>1. n \in Nat \ {0}
    BY <1>0 DEF TopInv
  <2> QED BY <2>1
<1>3. NewFrames(t, n - 1, <<>>)
  BY <1>2 DEF NewFrames
<1>4. NewOwners(t, <<>>)
  BY <1>2 DEF NewOwners, EntriesKnown, Known
<1>5. NewAnswers(t, n - 1, <<>>)
  <2>1. \A j \in DOMAIN stack[t] : j > n - 1 => stack[t][j] = Top(t)
    BY <1>0 DEF TopInv
  <2> QED BY <1>2, <2>1 DEF NewAnswers
<1>6. NewWork(t, n - 1, <<>>)
  BY <1>2 DEF NewWork
<1>7. \A i \in DOMAIN <<>> : FALSE
  BY <1>2
<1> HIDE DEF n
<1> QED BY <1>1, <1>3, <1>4, <1>5, <1>6, <1>7, StepInv

\* Nothing else changes for the threads.
QueuesStay == UNCHANGED <<msgq, dmsgq, sendlist>>
\* A step that leaves the queues alone gives nobody new work.
LEMMA StayFacts ==
    ASSUME QueuesStay, fStop' = fStop, NEW t \in Threads
    PROVE  EntriesKnown(t) /\ \A u \in Threads : Quieter(u)
<1>1. EntriesKnown(t)
  BY EntriesStay DEF QueuesStay
<1> QED BY <1>1 DEF QueuesStay, Quieter

\* The parts of the invariant that such a step does not concern.
LEMMA RestStays ==
    ASSUME IInv, QueuesStay, fStop' = fStop, exited' = exited, gone' = gone,
           signaled' \subseteq Threads, calls' \in 0 .. MaxCalls, ready' \subseteq Ids
    PROVE  RestOK'
  BY DEF IInv, TypeOK, RestOK, QueuesStay

\* The call goes on at pc.
Places == {"receive", "scan", "quitting", "wait", "run", "push", "wake", "test", "quit",
           "join"}

\* Moving on inside a call changes its place only.
LEMMA GoToFacts ==
    ASSUME NEW f \in Calls, NEW pc \in Places, NEW g, g = [f EXCEPT !.pc = pc]
    PROVE  /\ g \in Calls /\ g.pc = pc /\ g.kind = f.kind /\ g.who = f.who
           /\ g.msg = f.msg /\ g.timed = f.timed
<1> HIDE DEF Messages, NoMessage, Threads
<1> QED BY DEF Calls, Places

\* A call of Send has waited.
LEMMA TestFacts ==
    ASSUME NEW f \in Calls, NEW g, g = [f EXCEPT !.pc = "test", !.timed = TRUE]
    PROVE  /\ g \in Calls /\ g.pc = "test" /\ g.kind = f.kind /\ g.who = f.who
           /\ g.msg = f.msg /\ g.timed = TRUE
<1> HIDE DEF Messages, NoMessage, Threads
<1> QED BY DEF Calls

\* The message loop.
LEMMA LoopFacts ==
    ASSUME NEW pc \in {"receive", "scan", "quitting", "wait"}, NEW b \in BOOLEAN
    PROVE  /\ Loop(pc, b) \in Calls /\ Loop(pc, b).kind = "loop"
           /\ Loop(pc, b).pc = pc /\ Loop(pc, b).timed = b
           /\ FrameInv(Loop(pc, b))
<1>1. Loop(pc, b) \in Calls
      /\ Loop(pc, b) = [kind |-> "loop", pc |-> pc, who |-> NoThread,
                        msg |-> NoMessage, timed |-> b]
  BY FrameTypes
<1>2. /\ Loop(pc, b).kind = "loop" /\ Loop(pc, b).pc = pc /\ Loop(pc, b).timed = b
  BY <1>1
<1> QED BY <1>1, <1>2 DEF FrameInv

\* The types of the plain variables.
LEMMA InvTypes ==
    ASSUME IInv
    PROVE  /\ signaled \subseteq Threads /\ ready \subseteq Ids /\ calls \in 0 .. MaxCalls
           /\ Main \in Threads /\ Workers \subseteq Threads
  BY DEF IInv, TypeOK, Threads

\* One entry of a list of sends is handled.
LEMMA PoppableFacts ==
    ASSUME TypeOK, NEW t \in Threads, NEW S
    PROVE  /\ Poppable(t, S) \subseteq DOMAIN sendlist[t]
           /\ \A i \in Poppable(t, S) : sendlist[t][i] \in Sends /\ sendlist[t][i].sender \in S
           /\ Poppable(t, S) = {} => \A e \in ToSet(sendlist[t]) : e.sender \notin S
<1>1. sendlist[t] \in Seq(Sends)
  BY DEF TypeOK
<1>2. /\ Poppable(t, S) \subseteq DOMAIN sendlist[t]
      /\ \A i \in Poppable(t, S) : sendlist[t][i] \in Sends /\ sendlist[t][i].sender \in S
  BY <1>1 DEF Poppable
<1>3. ASSUME NEW e \in ToSet(sendlist[t]), e.sender \in S
      PROVE  Poppable(t, S) # {}
  <2> DEFINE I == {i \in DOMAIN sendlist[t] : sendlist[t][i].sender \in S}
             m == Min(I)
  <2>1. I \subseteq Nat /\ I # {}
    BY <1>1, <1>3 DEF ToSet
  <2>2. m \in I /\ \A y \in I : m <= y
    <3> HIDE DEF I
    <3> QED BY <2>1, MinFacts
  <2>3. m \in Nat /\ DOMAIN sendlist[t] = 1 .. Len(sendlist[t])
    BY <1>1, <2>1, <2>2
  <2> HIDE DEF m
  <2>4. \A j \in 1 .. m - 1 : j \in DOMAIN sendlist[t] /\ ~(m <= j)
    BY <2>2, <2>3
  <2>5. m \in Poppable(t, S)
    BY <2>2, <2>4 DEF Poppable
  <2> QED BY <2>5
<1> QED BY <1>2, <1>3

\* A list with no elements.
LEMMA EmptyFacts ==
    ASSUME NEW E, NEW s \in Seq(E)
    PROVE  /\ ToSet(s) = {} => s = <<>>
           /\ \A e \in ToSet(s) : e \in E
           /\ s # <<>> => Len(s) \in Nat \ {0} /\ s[1] \in ToSet(s)
<1>1. Len(s) \in Nat /\ DOMAIN s = 1 .. Len(s) /\ \A i \in 1 .. Len(s) : s[i] \in E
  OBVIOUS
<1>2. \A e \in ToSet(s) : e \in E
  BY <1>1 DEF ToSet
<1>3. s # <<>> => Len(s) # 0
  OBVIOUS
<1>4. Len(s) # 0 => s[1] \in ToSet(s)
  BY <1>1 DEF ToSet
<1> QED BY <1>1, <1>2, <1>3, <1>4

\* ReceiveSend keeps the invariant.
LEMMA ReceiveSendInv ==
    ASSUME IInv, NEW t \in Threads, ReceiveSend(t)
    PROVE  IInv'
<1>0. stack[t] # <<>> /\ Top(t).pc = "receive"
  BY DEF ReceiveSend
<1>1. PICK i \in Poppable(t, Sources(Top(t))) :
          /\ sendlist' = [sendlist EXCEPT ![t] = RemoveAt(@, i)]
          /\ stack' = CallFrom(stack, t, Frame("sent", "run", sendlist[t][i].sender,
                                               sendlist[t][i].msg))
  BY DEF ReceiveSend
<1> DEFINE s == sendlist[t][i]
           f == Frame("sent", "run", s.sender, s.msg)
<1>2. Stacks /\ TopInv(t) /\ TypeOK
  BY <1>0, TopInvFacts DEF IInv
<1>3. i \in DOMAIN sendlist[t] /\ s \in Sends /\ s.sender \in Sources(Top(t))
      /\ s \in ToSet(sendlist[t])
  <2>1. i \in DOMAIN sendlist[t] /\ s \in Sends /\ s.sender \in Sources(Top(t))
    BY <1>2, PoppableFacts
  <2> QED BY <2>1 DEF ToSet
<1>4. s.sender \in Threads /\ s.msg \in Messages /\ Owns(s.msg.id, s.sender)
  <2>1. s.sender \in Threads /\ s.msg \in Messages
    BY <1>3 DEF Sends
  <2> QED BY <1>3, <2>1 DEF Owns, EntryOf
<1>5. Top(t).kind = "send" => s.sender = Top(t).who
  BY <1>3 DEF Sources
<1> HIDE DEF s
<1>6. f \in Calls /\ f.kind = "sent" /\ f.pc = "run" /\ f.who = s.sender /\ f.msg = s.msg
  <2>1. f \in Calls
    BY <1>4, FrameTypes
  <2> QED BY <2>1 DEF Frame
<1>7. FrameInv(f)
  BY <1>4, <1>6 DEF FrameInv
<1>8. /\ RemoveAt(sendlist[t], i) \in Seq(Sends)
      /\ ToSet(RemoveAt(sendlist[t], i)) \subseteq ToSet(sendlist[t])
  <2>1. sendlist[t] \in Seq(Sends)
    BY <1>2 DEF TypeOK
  <2> QED BY <1>3, <2>1, RemoveAtFacts
<1>9. /\ sendlist' \in [Threads -> Seq(Sends)]
      /\ \A u \in Threads : ToSet(sendlist'[u]) \subseteq ToSet(sendlist[u])
      /\ \A u \in Threads \ {t} : sendlist'[u] = sendlist[u]
  BY <1>1, <1>2, <1>8 DEF TypeOK
<1>10. EntriesKnown(t)
  BY <1>9, EntriesStay
<1>11. t # Main
  BY <1>2, <1>3 DEF TypeOK
<1>12. UNCHANGED <<fStop, exited, gone, msgq, dmsgq, ready, signaled, calls>>
  BY DEF ReceiveSend, lives
<1>13. RestOK'
  <2>1. sendlist'[Main] = <<>>
    BY <1>2, <1>9, <1>11, InvTypes DEF TypeOK
  <2>2. \A u \in Threads : \A e \in ToSet(sendlist'[u]) : e.sender # u
    BY <1>2, <1>9 DEF TypeOK
  <2> QED BY <1>2, <1>9, <1>12, <2>1, <2>2 DEF TypeOK, RestOK
<1>14. \A u \in Threads \ {t} : Quieter(u)
  BY <1>9, <1>12 DEF Quieter
<1>15. stack' = CallFrom(stack, t, f)
  BY <1>1 DEF s
<1> HIDE DEF f
<1> QED BY <1>0, <1>4, <1>5, <1>6, <1>7, <1>10, <1>12, <1>13, <1>14, <1>15, CallStep

\* Reply keeps the invariant.
LEMMA ReplyInv ==
    ASSUME IInv, NEW t \in Threads, Reply(t)
    PROVE  IInv'
<1>1. /\ stack[t] # <<>> /\ Top(t).kind = "sent" /\ Top(t).pc = "run" /\ stack' = Return(t)
      /\ ready' = ready \cup {Top(t).msg.id} /\ signaled' = signaled \cup {Top(t).who}
      /\ fStop' = fStop /\ exited' = exited /\ gone' = gone /\ calls' = calls
      /\ QueuesStay
  BY DEF Reply, At, lives, queues, QueuesStay
<1>2. TopInv(t)
  BY <1>1, TopInvFacts
<1>3. Top(t).who \in Threads /\ Top(t).msg.id \in Ids /\ Owns(Top(t).msg.id, Top(t).who)
  BY <1>1, <1>2 DEF TopInv, FrameInv, Messages
<1>4. RestOK'
  BY <1>1, <1>3, RestStays, InvTypes
<1>5. EntriesKnown(t) /\ \A u \in Threads : Quieter(u)
  BY <1>1, StayFacts
<1>6. \A m \in ready' \ ready : \E s \in Threads : Owns(m, s) /\ s \in signaled'
  BY <1>1, <1>3
<1> QED BY <1>1, <1>4, <1>5, <1>6, ReturnStep

\* A thread that is about to wake u up still is, if it was not t.
LEMMA WillWakeStays ==
    ASSUME NEW t \in Threads, \A v \in Threads \ {t} : stack'[v] = stack[v],
           stack[t] # <<>> => Top(t).pc # "wake", NEW u, WillWake(u)
    PROVE  WillWake(u)'
<1>1. PICK v \in Threads : stack[v] # <<>> /\ Top(v).pc = "wake" /\ Top(v).who = u
  BY DEF WillWake
<1>2. v # t /\ stack'[v] = stack[v] /\ Top(v)' = Top(v)
  BY <1>1 DEF Top
<1> QED BY <1>1, <1>2 DEF WillWake

\* A step that only moves the innermost call.
LEMMA MoveStep ==
    ASSUME IInv, NEW t \in Threads, stack[t] # <<>>, NEW f \in Calls,
           stack' = Become(t, f), FrameInv(f),
           \/ f.kind = Top(t).kind /\ (f.kind = "send" => f.msg = Top(t).msg)
           \/ f.kind = "posted" /\ Top(t).kind = "send",
           f.kind # "sent", f.kind = "posted" => ~Top(t).timed,
           f.kind = "send" => f.timed = Top(t).timed,
           f.kind = "send" /\ f.pc \in {"receive", "wait"} /\ f.msg.id \in ready
               => t \in signaled,
           Top(t).pc # "wake", t \in signaled \/ WillWake(t) \/ SettledNext(t, f),
           fStop' = fStop, exited' = exited, gone' = gone, calls' = calls,
           QueuesStay, ready' = ready, signaled' = signaled
    PROVE  IInv'
<1>1. RestOK'
  BY RestStays, InvTypes
<1>2. EntriesKnown(t) /\ \A u \in Threads : Quieter(u)
  BY StayFacts
<1>3. \A u \in Threads \ {t} : u \in signaled' \/ WillWake(u)' \/ Quieter(u)
  BY <1>2
<1>4. t \in signaled' \/ WillWake(t)' \/ SettledNext(t, f)
  <2>1. \A u \in Threads \ {t} : stack'[u] = stack[u]
    BY DEF IInv, TypeOK, Become
  <2>2. WillWake(t) => WillWake(t)'
    BY <2>1, WillWakeStays
  <2> QED BY <2>2
<1> QED BY <1>1, <1>2, <1>3, <1>4, BecomeStep

\* NoMoreSends keeps the invariant.
LEMMA NoMoreSendsInv ==
    ASSUME IInv, NEW t \in Threads, NoMoreSends(t)
    PROVE  IInv'
<1> DEFINE pc == IF Top(t).kind = "loop" THEN "scan" ELSE "wait"
           f == [Top(t) EXCEPT !.pc = pc]
<1>1. /\ stack[t] # <<>> /\ Top(t).pc = "receive" /\ Poppable(t, Sources(Top(t))) = {}
      /\ stack' = Become(t, f)
      /\ fStop' = fStop /\ exited' = exited /\ gone' = gone /\ calls' = calls
      /\ QueuesStay /\ ready' = ready /\ signaled' = signaled
  BY DEF NoMoreSends, GoTo, lives, queues, QueuesStay
<1>2. TopInv(t) /\ TypeOK
  BY <1>1, TopInvFacts DEF IInv
<1>3. /\ f \in Calls /\ f.pc = pc /\ f.kind = Top(t).kind /\ f.who = Top(t).who
      /\ f.msg = Top(t).msg /\ f.timed = Top(t).timed
  <2>1. Top(t) \in Calls
    BY <1>2 DEF TopInv
  <2>2. pc \in {"scan", "wait"}
    OBVIOUS
  <2>3. pc \in Places
    BY <2>2 DEF Places
  <2> HIDE DEF pc
  <2> QED BY <2>1, <2>3, GoToFacts
<1>4. Top(t).kind \in {"loop", "send"}
  BY <1>1, <1>2 DEF TopInv, FrameInv, Calls
<1> HIDE DEF f
<1>5. FrameInv(f)
  BY <1>2, <1>3, <1>4 DEF TopInv, FrameInv
<1>6. \A e \in ToSet(sendlist[t]) : e.sender \notin Sources(Top(t))
  BY <1>1, <1>2, PoppableFacts
<1>7. SettledNext(t, f)
  <2>1. CASE Top(t).kind = "loop"
    <3>1. sendlist[t] = <<>>
      <4>1. sendlist[t] \in Seq(Sends)
        BY <1>2 DEF TypeOK
      <4>2. \A e \in ToSet(sendlist[t]) : e.sender \in Threads
        <5>1. \A j \in DOMAIN sendlist[t] : sendlist[t][j] \in Sends
          BY <4>1
        <5> QED BY <5>1 DEF ToSet, Sends
      <4>3. ToSet(sendlist[t]) = {}
        BY <1>6, <2>1, <4>2 DEF Sources
      <4> QED BY <4>1, <4>3, EmptyFacts
    <3> QED BY <1>1, <1>3, <2>1, <3>1 DEF SettledNext, QueuesStay
  <2>2. CASE Top(t).kind = "send"
    BY <1>1, <1>3, <1>6, <2>2 DEF SettledNext, QueuesStay, Sources
  <2> QED BY <1>4, <2>1, <2>2
<1>8. f.kind = "send" /\ f.msg.id \in ready => t \in signaled
  BY <1>1, <1>2, <1>3 DEF TopInv
<1> QED BY <1>1, <1>3, <1>4, <1>5, <1>7, <1>8, MoveStep

\* GoToWait keeps the invariant.
LEMMA GoToWaitInv ==
    ASSUME IInv, NEW t \in Threads, GoToWait(t)
    PROVE  IInv'
<1> DEFINE f == [Top(t) EXCEPT !.pc = "wait"]
<1>1. /\ stack[t] # <<>> /\ Top(t).kind = "loop" /\ Top(t).pc = "quitting" /\ t \notin fStop
      /\ stack' = Become(t, f)
      /\ fStop' = fStop /\ exited' = exited /\ gone' = gone /\ calls' = calls
      /\ QueuesStay /\ ready' = ready /\ signaled' = signaled
  BY DEF GoToWait, At, GoTo, lives, queues, QueuesStay
<1>2. TopInv(t) /\ Top(t) \in Calls
  BY <1>1, TopInvFacts DEF TopInv
<1>3. /\ f \in Calls /\ f.pc = "wait" /\ f.kind = Top(t).kind /\ f.timed = Top(t).timed
  BY <1>2, GoToFacts DEF Places
<1> HIDE DEF f
<1>4. FrameInv(f)
  BY <1>1, <1>3 DEF FrameInv
<1>5. ASSUME t \notin signaled, ~WillWake(t) PROVE SettledNext(t, f)
  <2>1. Settled(t, Top(t))
    <3>1. SleepInv
      BY DEF IInv
    <3> QED BY <1>1, <1>5, <3>1 DEF SleepInv
  <2> QED BY <1>1, <1>3, <2>1 DEF Settled, SettledNext, QueuesStay
<1> QED BY <1>1, <1>3, <1>4, <1>5, MoveStep

\* WaitTimesOut keeps the invariant.
LEMMA WaitTimesOutInv ==
    ASSUME IInv, NEW t \in Threads, WaitTimesOut(t)
    PROVE  IInv'
<1> DEFINE f == Loop("receive", FALSE)
<1>1. /\ stack[t] # <<>> /\ Top(t).kind = "loop" /\ Top(t).pc = "wait"
      /\ stack' = Become(t, f)
      /\ fStop' = fStop /\ exited' = exited /\ gone' = gone /\ calls' = calls
      /\ QueuesStay /\ ready' = ready /\ signaled' = signaled
  BY DEF WaitTimesOut, At, lives, queues, QueuesStay
<1>2. f \in Calls /\ f.kind = "loop" /\ f.pc = "receive" /\ FrameInv(f)
  BY LoopFacts
<1> HIDE DEF f
<1>3. SettledNext(t, f)
  BY <1>2 DEF SettledNext
<1> QED BY <1>1, <1>2, <1>3, MoveStep

\* SendNotReady keeps the invariant.
LEMMA SendNotReadyInv ==
    ASSUME IInv, NEW t \in Threads, SendNotReady(t)
    PROVE  IInv'
<1> DEFINE f == [Top(t) EXCEPT !.pc = "receive"]
<1>1. /\ stack[t] # <<>> /\ Top(t).kind = "send" /\ Top(t).pc = "test"
      /\ Top(t).msg.id \notin ready
      /\ stack' = Become(t, f)
      /\ fStop' = fStop /\ exited' = exited /\ gone' = gone /\ calls' = calls
      /\ QueuesStay /\ ready' = ready /\ signaled' = signaled
  BY DEF SendNotReady, At, GoTo, lives, queues, QueuesStay
<1>2. TopInv(t) /\ Top(t) \in Calls
  BY <1>1, TopInvFacts DEF TopInv
<1>3. /\ f \in Calls /\ f.pc = "receive" /\ f.kind = Top(t).kind /\ f.who = Top(t).who
      /\ f.msg = Top(t).msg /\ f.timed = Top(t).timed
  BY <1>2, GoToFacts DEF Places
<1> HIDE DEF f
<1>4. FrameInv(f)
  BY <1>1, <1>2, <1>3 DEF FrameInv, TopInv
<1>5. SettledNext(t, f)
  BY <1>1, <1>3 DEF SettledNext
<1> QED BY <1>1, <1>3, <1>4, <1>5, MoveStep

\* SendDirectly keeps the invariant.
LEMMA SendDirectlyInv ==
    ASSUME IInv, NEW t \in Threads, SendDirectly(t)
    PROVE  IInv'
<1> DEFINE f == Frame("posted", "run", NoThread, Top(t).msg)
<1>1. /\ stack[t] # <<>> /\ Top(t).kind = "send" /\ Top(t).pc = "push"
      /\ stack' = Become(t, f)
      /\ fStop' = fStop /\ exited' = exited /\ gone' = gone /\ calls' = calls
      /\ QueuesStay /\ ready' = ready /\ signaled' = signaled
  BY DEF SendDirectly, At, lives, queues, QueuesStay
<1>2. TopInv(t) /\ Top(t).msg \in Messages
  BY <1>1, TopInvFacts DEF TopInv, FrameInv
<1>3. /\ f \in Calls /\ f.kind = "posted" /\ f.pc = "run" /\ f.msg = Top(t).msg
  <2>1. f \in Calls
    BY <1>2, FrameTypes
  <2> QED BY <2>1 DEF Frame
<1> HIDE DEF f
<1>4. FrameInv(f) /\ SettledNext(t, f)
  BY <1>2, <1>3 DEF FrameInv, SettledNext
<1>5. ~Top(t).timed
  BY <1>1, <1>2 DEF TopInv, FrameInv
<1> QED BY <1>1, <1>3, <1>4, <1>5, MoveStep

\* HandlerReturns keeps the invariant.
LEMMA HandlerReturnsInv ==
    ASSUME IInv, NEW t \in Threads, HandlerReturns(t)
    PROVE  IInv'
<1>1. /\ stack[t] # <<>> /\ Top(t).kind = "posted" /\ Top(t).pc = "run" /\ stack' = Return(t)
      /\ fStop' = fStop /\ exited' = exited /\ gone' = gone /\ calls' = calls
      /\ QueuesStay /\ ready' = ready /\ signaled' = signaled
  BY DEF HandlerReturns, At, lives, queues, QueuesStay
<1>2. RestOK'
  BY <1>1, RestStays, InvTypes
<1>3. EntriesKnown(t) /\ \A u \in Threads : Quieter(u)
  BY <1>1, StayFacts
<1> QED BY <1>1, <1>2, <1>3, ReturnStep

\* SendReturns keeps the invariant.
LEMMA SendReturnsInv ==
    ASSUME IInv, NEW t \in Threads, SendReturns(t)
    PROVE  IInv'
<1>1. /\ stack[t] # <<>> /\ Top(t).kind = "send" /\ Top(t).pc = "test" /\ stack' = Return(t)
      /\ fStop' = fStop /\ exited' = exited /\ gone' = gone /\ calls' = calls
      /\ QueuesStay /\ ready' = ready
      /\ signaled' = IF Top(t).timed THEN signaled \cup {t} ELSE signaled
  BY DEF SendReturns, At, lives, queues, QueuesStay
<1>2. RestOK'
  BY <1>1, RestStays, InvTypes
<1>3. EntriesKnown(t) /\ \A u \in Threads : Quieter(u)
  BY <1>1, StayFacts
<1>4. /\ Top(t).timed => t \in signaled'
      /\ \A u \in Threads : u \in signaled => u \in signaled'
  BY <1>1
<1> QED BY <1>1, <1>2, <1>3, <1>4, ReturnStep

\* Awake keeps the invariant.
LEMMA AwakeInv ==
    ASSUME IInv, NEW t \in Threads, Awake(t)
    PROVE  IInv'
<1> DEFINE g == [Top(t) EXCEPT !.pc = "test", !.timed = TRUE]
<1>1. /\ stack[t] # <<>> /\ Top(t).kind \in {"loop", "send"} /\ Top(t).pc = "wait"
      /\ signaled' = signaled \ {t}
      /\ stack' = IF Top(t).kind = "loop" THEN Become(t, Loop("receive", FALSE))
                  ELSE Become(t, g)
      /\ fStop' = fStop /\ exited' = exited /\ gone' = gone /\ calls' = calls
      /\ QueuesStay /\ ready' = ready
  BY DEF Awake, At, lives, queues, QueuesStay
<1>2. TopInv(t) /\ Top(t) \in Calls
  BY <1>1, TopInvFacts DEF TopInv
<1>3. RestOK'
  BY <1>1, RestStays, InvTypes
<1>4. EntriesKnown(t) /\ \A u \in Threads : Quieter(u)
  BY <1>1, StayFacts
<1>5. \A u \in Threads \ {t} : u \in signaled => u \in signaled'
  BY <1>1
<1>6. CASE Top(t).kind = "loop"
  <2> DEFINE f == Loop("receive", FALSE)
  <2>1. f \in Calls /\ f.kind = "loop" /\ f.pc = "receive" /\ FrameInv(f)
    BY LoopFacts
  <2>2. stack' = Become(t, f)
    BY <1>1, <1>6
  <2> HIDE DEF f
  <2>3. SettledNext(t, f)
    BY <2>1 DEF SettledNext
  <2> QED BY <1>1, <1>3, <1>4, <1>5, <1>6, <2>1, <2>2, <2>3, BecomeStep
<1>7. CASE Top(t).kind = "send"
  <2>1. /\ g \in Calls /\ g.pc = "test" /\ g.kind = Top(t).kind /\ g.who = Top(t).who
        /\ g.msg = Top(t).msg /\ g.timed = TRUE
    BY <1>2, TestFacts
  <2>2. stack' = Become(t, g)
    BY <1>1, <1>7
  <2> HIDE DEF g
  <2>3. SettledNext(t, g) /\ FrameInv(g)
    BY <1>2, <1>7, <2>1 DEF SettledNext, FrameInv, TopInv
  <2> QED BY <1>1, <1>3, <1>4, <1>5, <1>7, <2>1, <2>2, <2>3, BecomeStep
<1> QED BY <1>1, <1>6, <1>7

\* A thread is woken up: by Send, and by the destructor.
LEMMA WakeUpStep ==
    ASSUME IInv, NEW t \in Threads, stack[t] # <<>>, Top(t).pc = "wake",
           NEW pc, NEW f, f = [Top(t) EXCEPT !.pc = pc],
           \/ Top(t).kind = "send" /\ pc = "test"
           \/ Top(t).kind = "destroy" /\ pc = "join",
           stack' = Become(t, f),
           signaled' = signaled \cup {Top(t).who},
           fStop' = fStop, exited' = exited, gone' = gone, calls' = calls,
           QueuesStay, ready' = ready
    PROVE  IInv'
<1>1. TopInv(t) /\ Top(t) \in Calls
  BY TopInvFacts DEF TopInv
<1>2. /\ f \in Calls /\ f.pc = pc /\ f.kind = Top(t).kind /\ f.who = Top(t).who
      /\ f.msg = Top(t).msg /\ f.timed = Top(t).timed
  <2>1. pc \in Places
    BY DEF Places
  <2> QED BY <1>1, <2>1, GoToFacts
<1>3. Top(t).who \in Threads
  BY <1>1, ThreadsAssumption DEF TopInv, FrameInv, Threads
<1>4. RestOK'
  BY <1>3, RestStays, InvTypes
<1>5. EntriesKnown(t) /\ \A u \in Threads : Quieter(u)
  BY StayFacts
<1>6. FrameInv(f) /\ SettledNext(t, f)
  BY <1>1, <1>2 DEF FrameInv, SettledNext, TopInv
<1> QED BY <1>2, <1>4, <1>5, <1>6, BecomeStep

\* SendWakeUp keeps the invariant.
LEMMA SendWakeUpInv ==
    ASSUME IInv, NEW t \in Threads, SendWakeUp(t)
    PROVE  IInv'
<1>1. /\ stack[t] # <<>> /\ Top(t).kind = "send" /\ Top(t).pc = "wake"
      /\ stack' = Become(t, [Top(t) EXCEPT !.pc = "test"])
      /\ signaled' = signaled \cup {Top(t).who}
      /\ fStop' = fStop /\ exited' = exited /\ gone' = gone /\ calls' = calls
      /\ QueuesStay /\ ready' = ready
  BY DEF SendWakeUp, At, GoTo, lives, queues, QueuesStay
<1> QED BY <1>1, WakeUpStep

\* QuitWakeUp keeps the invariant.
LEMMA QuitWakeUpInv ==
    ASSUME IInv, QuitWakeUp
    PROVE  IInv'
<1>1. /\ stack[Main] # <<>> /\ Top(Main).kind = "destroy" /\ Top(Main).pc = "wake"
      /\ stack' = Become(Main, [Top(Main) EXCEPT !.pc = "join"])
      /\ signaled' = signaled \cup {Top(Main).who}
      /\ fStop' = fStop /\ exited' = exited /\ gone' = gone /\ calls' = calls
      /\ QueuesStay /\ ready' = ready
  BY DEF QuitWakeUp, At, GoTo, lives, queues, QueuesStay
<1>2. Main \in Threads
  BY InvTypes
<1> QED BY <1>1, <1>2, WakeUpStep

\* The innermost call of t is about to wake somebody up.
LEMMA WakesNext ==
    ASSUME Stacks, NEW t \in Threads, stack[t] # <<>>, NEW f \in Calls,
           stack' = Become(t, f), f.pc = "wake", NEW u, f.who = u
    PROVE  WillWake(u)'
<1> DEFINE b == Front(stack[t])
<1>1. stack'[t] = Append(b, f) /\ b \in Seq(Calls)
  <2>1. stack[t] \in Seq(Calls)
    BY DEF Stacks
  <2>2. b \in Seq(Calls)
    BY <2>1, FrontFacts
  <2> QED BY <2>2 DEF Become, Stacks
<1> HIDE DEF b
<1>2. /\ stack'[t] \in Seq(Calls) /\ Len(stack'[t]) = Len(b) + 1
      /\ stack'[t][Len(b) + 1] = f /\ Len(b) \in Nat
  BY <1>1, PushFacts
<1>3. stack'[t] # <<>>
  BY <1>2
<1>4. Last(stack'[t]) = f
  BY <1>2, <1>3, FrontFacts
<1> QED BY <1>3, <1>4 DEF WillWake, Top

\* Quit keeps the invariant.
LEMMA QuitInv ==
    ASSUME IInv, Quit
    PROVE  IInv'
<1> DEFINE f == [Top(Main) EXCEPT !.pc = "wake"]
<1>1. /\ stack[Main] # <<>> /\ Top(Main).kind = "destroy" /\ Top(Main).pc = "quit"
      /\ stack' = Become(Main, f)
      /\ fStop' = fStop \cup {Top(Main).who} /\ exited' = exited /\ gone' = gone
      /\ calls' = calls /\ QueuesStay /\ ready' = ready /\ signaled' = signaled
  BY DEF Quit, At, GoTo, queues, QueuesStay
<1>2. Main \in Threads
  BY InvTypes
<1>3. TopInv(Main) /\ Top(Main) \in Calls /\ Stacks
  BY <1>1, <1>2, TopInvFacts DEF TopInv
<1>4. /\ f \in Calls /\ f.pc = "wake" /\ f.kind = Top(Main).kind /\ f.who = Top(Main).who
      /\ f.msg = Top(Main).msg /\ f.timed = Top(Main).timed
  BY <1>3, GoToFacts DEF Places
<1> HIDE DEF f
<1>5. Top(Main).who \in Stoppable
  BY <1>1, <1>3 DEF TopInv, FrameInv
<1>6. RestOK'
  BY <1>1, <1>5 DEF IInv, TypeOK, RestOK, QueuesStay
<1>7. EntriesKnown(Main)
  BY <1>1, <1>2, EntriesStay DEF QueuesStay
<1>8. FrameInv(f) /\ SettledNext(Main, f)
  BY <1>1, <1>4, <1>5 DEF FrameInv, SettledNext
<1>9. \A u \in Threads \ {Main} : WillWake(u)' \/ Quieter(u)
  <2> SUFFICES ASSUME NEW u \in Threads \ {Main} PROVE WillWake(u)' \/ Quieter(u)
    OBVIOUS
  <2>1. CASE u = Top(Main).who
    <3>1. WillWake(u)'
      BY <1>1, <1>2, <1>3, <1>4, <2>1, WakesNext
    <3> QED BY <3>1
  <2>2. CASE u # Top(Main).who
    BY <1>1, <2>2 DEF Quieter, QueuesStay
  <2> QED BY <2>1, <2>2
<1> QED BY <1>1, <1>2, <1>4, <1>6, <1>7, <1>8, <1>9, BecomeStep

\* BeginCall keeps the invariant.
LEMMA BeginCallInv ==
    ASSUME IInv, NEW t \in Threads, NEW u \in Workers, NEW kind \in Kinds \ {"clear"},
           NEW h \in Handlers, BeginCall(t, u, kind, h)
    PROVE  IInv'
<1> DEFINE m == Message(calls + 1, h)
           f == Frame(kind, "push", u, m)
<1>1. /\ MayCall(t) /\ calls' = calls + 1 /\ stack' = CallFrom(stack, t, f)
      /\ fStop' = fStop /\ exited' = exited /\ gone' = gone
      /\ QueuesStay /\ ready' = ready /\ signaled' = signaled
  BY DEF BeginCall, lives, queues, QueuesStay
<1>2. calls \in Nat /\ calls + 1 \in 1 .. MaxCalls /\ calls + 1 \in 0 .. MaxCalls
  BY <1>1, InvTypes, ThreadsAssumption DEF MayCall
<1>3. m \in Messages /\ m.id = calls + 1
  BY <1>2 DEF Message, Messages, Ids
<1> HIDE DEF m
<1>4. kind \in {"post", "postdelayed", "send"} /\ u \in Threads
  BY ThreadsAssumption DEF Threads
<1>5. f \in Calls /\ f.kind = kind /\ f.pc = "push" /\ f.who = u /\ f.msg = m /\ f.timed = FALSE
  <2>1. f \in Calls
    BY <1>3, <1>4, FrameTypes
  <2> QED BY <2>1 DEF Frame
<1> HIDE DEF f
<1>6. FrameInv(f)
  BY <1>3, <1>4, <1>5 DEF FrameInv
<1>7. RestOK'
  BY <1>1, <1>2, RestStays, InvTypes
<1>8. EntriesKnown(t) /\ \A v \in Threads : Quieter(v)
  BY <1>1, StayFacts
<1>9. IF stack[t] = <<>> THEN t = Main ELSE Top(t).pc \in {"receive", "run"}
  BY <1>1 DEF MayCall, At
<1>10. Known(f.msg.id, t, t)
  BY <1>1, <1>3, <1>5 DEF Known
<1> QED BY <1>1, <1>4, <1>5, <1>6, <1>7, <1>8, <1>9, <1>10, CallStep

\* BeginDestroy keeps the invariant.
LEMMA BeginDestroyInv ==
    ASSUME IInv, NEW u \in Workers, BeginDestroy(u)
    PROVE  IInv'
<1> DEFINE f == Frame("destroy", "quit", u, NoMessage)
<1>1. /\ stack[Main] = <<>> /\ u \in Stoppable /\ stack' = CallFrom(stack, Main, f)
      /\ fStop' = fStop /\ exited' = exited /\ gone' = gone /\ calls' = calls
      /\ QueuesStay /\ ready' = ready /\ signaled' = signaled
  BY DEF BeginDestroy, lives, queues, QueuesStay
<1>2. Main \in Threads /\ u \in Threads
  BY InvTypes
<1>3. f \in Calls /\ f.kind = "destroy" /\ f.pc = "quit" /\ f.who = u
  <2>1. f \in Calls
    BY <1>2, FrameTypes
  <2> QED BY <2>1 DEF Frame
<1> HIDE DEF f
<1>4. FrameInv(f)
  BY <1>1, <1>3 DEF FrameInv
<1>5. RestOK'
  BY <1>1, RestStays, InvTypes
<1>6. EntriesKnown(Main) /\ \A v \in Threads : Quieter(v)
  BY <1>1, <1>2, StayFacts
<1> QED BY <1>1, <1>2, <1>3, <1>4, <1>5, <1>6, CallStep

\* Post keeps the invariant.
LEMMA PostInv ==
    ASSUME IInv, NEW t \in Threads, Post(t)
    PROVE  IInv'
<1> DEFINE u == Top(t).who
<1>1. /\ stack[t] # <<>> /\ Top(t).kind = "post" /\ Top(t).pc = "push" /\ stack' = Return(t)
      /\ msgq' = [msgq EXCEPT ![u] = Append(@, Top(t).msg)]
      /\ signaled' = signaled \cup {u}
      /\ fStop' = fStop /\ exited' = exited /\ gone' = gone /\ calls' = calls
      /\ dmsgq' = dmsgq /\ sendlist' = sendlist /\ ready' = ready
  BY DEF Post, At, lives
<1>2. u \in Workers /\ Top(t).msg \in Messages
  BY <1>1, TopInvFacts DEF TopInv, FrameInv
<1>3. /\ msgq' \in [Workers -> Seq(Messages)]
      /\ \A v \in Workers \ {u} : msgq'[v] = msgq[v]
  <2>1. msgq[u] \in Seq(Messages) /\ msgq \in [Workers -> Seq(Messages)]
    BY <1>2 DEF IInv, TypeOK
  <2>2. Append(msgq[u], Top(t).msg) \in Seq(Messages)
    BY <1>2, <2>1, PushFacts
  <2> QED BY <1>1, <1>2, <2>1, <2>2
<1>4. RestOK'
  BY <1>1, <1>2, <1>3, InvTypes DEF IInv, TypeOK, RestOK
<1>5. EntriesKnown(t)
  BY <1>1, EntriesStay
<1>6. \A v \in Threads \ {t} : v \in signaled' \/ Quieter(v)
  <2> SUFFICES ASSUME NEW v \in Threads, v # u PROVE Quieter(v)
    BY <1>1
  <2>1. v # Main => v \in Workers \ {u}
    BY DEF Threads
  <2> QED BY <1>1, <1>3, <2>1 DEF Quieter
<1> QED BY <1>1, <1>4, <1>5, <1>6, ReturnStep

\* A message is inserted.
LEMMA InsertFacts ==
    ASSUME NEW E, NEW s \in Seq(E), NEW e \in E, NEW i \in 1 .. Len(s) + 1
    PROVE  InsertAt(s, i, e) \in Seq(E)
<1> DEFINE a == SubSeq(s, 1, i - 1)
           b == SubSeq(s, i, Len(s))
<1>0. Len(s) \in Nat
  OBVIOUS
<1>1. a \in Seq(E) /\ b \in Seq(E) /\ <<e>> \in Seq(E)
  BY <1>0
<1>2. InsertAt(s, i, e) = (a \o <<e>>) \o b
  BY DEF InsertAt
<1> HIDE DEF a, b
<1>3. a \o <<e>> \in Seq(E)
  BY ONLY <1>1
<1>4. (a \o <<e>>) \o b \in Seq(E)
  BY ONLY <1>1, <1>3
<1> QED BY <1>2, <1>4

\* DoDelayPost keeps the invariant.
LEMMA DoDelayPostInv ==
    ASSUME IInv, NEW t \in Threads, DoDelayPost(t)
    PROVE  IInv'
<1> DEFINE u == Top(t).who
<1>1. /\ stack[t] # <<>> /\ Top(t).kind = "postdelayed" /\ Top(t).pc = "push"
      /\ stack' = Return(t) /\ signaled' = signaled \cup {u}
      /\ fStop' = fStop /\ exited' = exited /\ gone' = gone /\ calls' = calls
      /\ msgq' = msgq /\ sendlist' = sendlist /\ ready' = ready
  BY DEF DoDelayPost, At, lives
<1>0. PICK i \in 1 .. Len(dmsgq[u]) + 1 :
          dmsgq' = [dmsgq EXCEPT ![u] = InsertAt(@, i, Top(t).msg)]
  BY DEF DoDelayPost
<1>2. u \in Workers /\ Top(t).msg \in Messages
  BY <1>1, TopInvFacts DEF TopInv, FrameInv
<1>3. /\ dmsgq' \in [Workers -> Seq(Messages)]
      /\ \A v \in Workers \ {u} : dmsgq'[v] = dmsgq[v]
  <2>1. dmsgq[u] \in Seq(Messages) /\ dmsgq \in [Workers -> Seq(Messages)]
    BY <1>2 DEF IInv, TypeOK
  <2>2. InsertAt(dmsgq[u], i, Top(t).msg) \in Seq(Messages)
    BY <1>2, <2>1, InsertFacts
  <2> QED BY <1>0, <1>2, <2>1, <2>2
<1>4. RestOK'
  BY <1>1, <1>2, <1>3, InvTypes DEF IInv, TypeOK, RestOK
<1>5. EntriesKnown(t)
  BY <1>1, EntriesStay
<1>6. \A v \in Threads \ {t} : v \in signaled' \/ Quieter(v)
  <2> SUFFICES ASSUME NEW v \in Threads, v # u PROVE Quieter(v)
    BY <1>1
  <2>1. v # Main => v \in Workers \ {u}
    BY DEF Threads
  <2> QED BY <1>1, <1>3, <2>1 DEF Quieter
<1> QED BY <1>1, <1>4, <1>5, <1>6, ReturnStep

\* SendPush keeps the invariant.
LEMMA SendPushInv ==
    ASSUME IInv, NEW t \in Threads, SendPush(t)
    PROVE  IInv'
<1> DEFINE u == Top(t).who
           f == [Top(t) EXCEPT !.pc = "wake"]
           e == [sender |-> t, msg |-> Top(t).msg]
<1>1. /\ stack[t] # <<>> /\ Top(t).kind = "send" /\ Top(t).pc = "push" /\ u # t
      /\ stack' = Become(t, f)
      /\ sendlist' = [sendlist EXCEPT ![u] = Append(@, e)]
      /\ signaled' = signaled
      /\ fStop' = fStop /\ exited' = exited /\ gone' = gone /\ calls' = calls
      /\ msgq' = msgq /\ dmsgq' = dmsgq /\ ready' = ready
  BY DEF SendPush, GoTo, At, lives
<1>2. /\ u \in Workers /\ Top(t).msg \in Messages /\ Top(t) \in Calls /\ TopInv(t)
      /\ Owns(Top(t).msg.id, t) /\ ~Top(t).timed /\ Stacks
  BY <1>1, TopInvFacts DEF TopInv, FrameInv
<1>3. /\ f \in Calls /\ f.pc = "wake" /\ f.kind = Top(t).kind /\ f.who = Top(t).who
      /\ f.msg = Top(t).msg /\ f.timed = Top(t).timed
  BY <1>2, GoToFacts DEF Places
<1>4. e \in Sends /\ e.sender = t /\ e.msg = Top(t).msg
  BY <1>2 DEF Sends
<1> HIDE DEF f, e
<1>5. /\ sendlist' \in [Threads -> Seq(Sends)]
      /\ \A v \in Threads \ {u} : sendlist'[v] = sendlist[v]
      /\ ToSet(sendlist'[u]) = ToSet(sendlist[u]) \cup {e}
      /\ u \in Threads /\ u # Main
  <2>1. u \in Threads /\ u # Main
    BY <1>2, ThreadsAssumption DEF Threads
  <2>2. sendlist[u] \in Seq(Sends) /\ sendlist \in [Threads -> Seq(Sends)]
    BY <2>1 DEF IInv, TypeOK
  <2>3. Append(sendlist[u], e) \in Seq(Sends)
        /\ ToSet(Append(sendlist[u], e)) = ToSet(sendlist[u]) \cup {e}
    BY <1>4, <2>2, PushFacts, AppendSet
  <2> QED BY <1>1, <2>1, <2>2, <2>3
<1>6. RestOK'
  <2>1. sendlist'[Main] = <<>>
    BY <1>5, InvTypes DEF IInv, TypeOK
  <2>2. \A v \in Threads : \A x \in ToSet(sendlist'[v]) : x.sender # v
    BY <1>1, <1>4, <1>5 DEF IInv, TypeOK
  <2> QED BY <1>1, <1>5, <2>1, <2>2 DEF IInv, TypeOK, RestOK
<1>7. EntriesKnown(t)
  <2> SUFFICES ASSUME NEW v \in Threads, NEW x \in ToSet(sendlist'[v])
               PROVE  Known(x.msg.id, x.sender, t)
    BY DEF EntriesKnown
  <2>1. CASE x \in ToSet(sendlist[v])
    BY <2>1 DEF Known, Owns, EntryOf
  <2>2. CASE x = e
    BY <1>2, <1>4, <2>2 DEF Known
  <2> QED BY <1>5, <2>1, <2>2
<1>8. FrameInv(f) /\ SettledNext(t, f)
  BY <1>1, <1>2, <1>3 DEF FrameInv, SettledNext
<1>9. \A v \in Threads \ {t} : WillWake(v)' \/ Quieter(v)
  <2> SUFFICES ASSUME NEW v \in Threads \ {t} PROVE WillWake(v)' \/ Quieter(v)
    OBVIOUS
  <2>1. CASE v = u
    <3>1. WillWake(v)'
      BY <1>1, <1>2, <1>3, <2>1, WakesNext
    <3> QED BY <3>1
  <2>2. CASE v # u
    BY <1>1, <1>5, <2>2 DEF Quieter
  <2> QED BY <2>1, <2>2
<1> QED BY <1>1, <1>2, <1>3, <1>6, <1>7, <1>8, <1>9, BecomeStep

\* QuitLoop keeps the invariant.
LEMMA QuitLoopInv ==
    ASSUME IInv, NEW t \in Threads, QuitLoop(t)
    PROVE  IInv'
<1>1. /\ stack[t] # <<>> /\ Top(t).kind = "loop" /\ Top(t).pc = "quitting" /\ t \in fStop
      /\ stack' = [stack EXCEPT ![t] = <<>>] /\ exited' = exited \cup {t}
      /\ fStop' = fStop /\ gone' = gone /\ calls' = calls
      /\ QueuesStay /\ ready' = ready /\ signaled' = signaled
  BY DEF QuitLoop, At, queues, QueuesStay
<1>2. TopInv(t) /\ Stacks
  BY <1>1, TopInvFacts
<1>3. Len(stack[t]) = 1 /\ DOMAIN stack[t] = {1} /\ stack[t][1] = Top(t)
  BY <1>1, <1>2 DEF TopInv
<1>4. Effect(t, 0, <<>>)
  BY <1>1, <1>2, ExitEffect
<1>5. EntriesKnown(t) /\ \A u \in Threads : Quieter(u)
  BY <1>1, StayFacts
<1>6. RestOK'
  BY <1>1 DEF IInv, TypeOK, RestOK, QueuesStay
<1>7. DOMAIN <<>> = {}
  OBVIOUS
<1>8. NewFrames(t, 0, <<>>)
  BY <1>7 DEF NewFrames
<1>9. NewOwners(t, <<>>)
  BY <1>1, <1>5, <1>7 DEF NewOwners, EntriesKnown, Known
<1>10. NewAnswers(t, 0, <<>>)
  BY <1>1, <1>3, <1>7 DEF NewAnswers
<1>11. NewWork(t, 0, <<>>)
  BY <1>1, <1>3, <1>5 DEF NewWork
<1> QED BY <1>4, <1>6, <1>7, <1>8, <1>9, <1>10, <1>11, StepInv

\* Messages that are due move from one queue to the other, and one is taken.
LEMMA DueFacts ==
    ASSUME NEW E, NEW a \in Seq(E), NEW d \in Seq(E), NEW due \in 0 .. Len(d)
    PROVE  /\ SubSeq(d, due + 1, Len(d)) \in Seq(E)
           /\ a \o SubSeq(d, 1, due) \in Seq(E)
           /\ \A q \in Seq(E) : q # <<>> => Tail(q) \in Seq(E) /\ q[1] \in E
<1> DEFINE b == SubSeq(d, 1, due)
<1>1. Len(d) \in Nat /\ b \in Seq(E) /\ SubSeq(d, due + 1, Len(d)) \in Seq(E)
  OBVIOUS
<1>2. ASSUME NEW q \in Seq(E), q # <<>> PROVE Tail(q) \in Seq(E) /\ q[1] \in E
  <2>1. 1 \in 1 .. Len(q)
    BY <1>2
  <2> QED BY <1>2, <2>1
<1> HIDE DEF b
<1>3. a \o b \in Seq(E)
  BY ONLY <1>1, a \in Seq(E)
<1> QED BY <1>1, <1>2, <1>3 DEF b

\* TakePosted keeps the invariant.
LEMMA TakePostedInv ==
    ASSUME IInv, NEW t \in Threads, TakePosted(t)
    PROVE  IInv'
<1>1. PICK due \in 0 .. Len(dmsgq[t]) :
          LET q == msgq[t] \o SubSeq(dmsgq[t], 1, due)
              rest == SubSeq(dmsgq[t], due + 1, Len(dmsgq[t]))
          IN  /\ dmsgq' = [dmsgq EXCEPT ![t] = rest]
              /\ msgq' = [msgq EXCEPT ![t] = IF q = <<>> THEN q ELSE Tail(q)]
              /\ stack' = IF q = <<>> THEN Become(t, Loop("quitting", rest # <<>>))
                          ELSE CallFrom(Become(t, Loop("receive", FALSE)), t,
                                        Frame("posted", "run", NoThread, q[1]))
  BY DEF TakePosted
<1> DEFINE q == msgq[t] \o SubSeq(dmsgq[t], 1, due)
           rest == SubSeq(dmsgq[t], due + 1, Len(dmsgq[t]))
           n == Len(stack[t])
<1>2. /\ stack[t] # <<>> /\ Top(t).kind = "loop" /\ Top(t).pc = "scan"
      /\ fStop' = fStop /\ exited' = exited /\ gone' = gone /\ calls' = calls
      /\ sendlist' = sendlist /\ ready' = ready /\ signaled' = signaled
  BY DEF TakePosted, At, lives
<1>3. TopInv(t) /\ Stacks
  BY <1>2, TopInvFacts
<1>4. n = 1 /\ DOMAIN stack[t] = {1} /\ stack[t][1] = Top(t) /\ t \in Workers
  BY <1>2, <1>3 DEF TopInv, Threads
<1>5. /\ msgq \in [Workers -> Seq(Messages)] /\ dmsgq \in [Workers -> Seq(Messages)]
      /\ msgq[t] \in Seq(Messages) /\ dmsgq[t] \in Seq(Messages)
  BY <1>4 DEF IInv, TypeOK
<1>6. /\ q \in Seq(Messages) /\ rest \in Seq(Messages)
      /\ q # <<>> => Tail(q) \in Seq(Messages) /\ q[1] \in Messages
  BY <1>5, DueFacts
<1>7. /\ dmsgq' = [dmsgq EXCEPT ![t] = rest]
      /\ msgq' = [msgq EXCEPT ![t] = IF q = <<>> THEN q ELSE Tail(q)]
      /\ q = <<>> => stack' = Become(t, Loop("quitting", rest # <<>>))
      /\ q # <<>> => stack' = CallFrom(Become(t, Loop("receive", FALSE)), t,
                                       Frame("posted", "run", NoThread, q[1]))
  BY <1>1
<1> HIDE DEF q, rest
<1>8. /\ msgq' \in [Workers -> Seq(Messages)] /\ dmsgq' \in [Workers -> Seq(Messages)]
      /\ dmsgq'[t] = rest /\ (q = <<>> => msgq'[t] = <<>>)
      /\ \A u \in Workers \ {t} : msgq'[u] = msgq[u] /\ dmsgq'[u] = dmsgq[u]
  BY <1>4, <1>5, <1>6, <1>7
<1>9. RestOK'
  BY <1>2, <1>8 DEF IInv, TypeOK, RestOK
<1>10. EntriesKnown(t)
  BY <1>2, EntriesStay
<1>11. \A u \in Threads \ {t} : Quieter(u)
  BY <1>2, <1>8 DEF Quieter, Threads
<1>12. CASE q = <<>>
  <2> DEFINE f == Loop("quitting", rest # <<>>)
  <2>1. /\ f \in Calls /\ f.kind = "loop" /\ f.pc = "quitting" /\ f.timed = (rest # <<>>)
        /\ FrameInv(f)
    <3>1. (rest # <<>>) \in BOOLEAN
      OBVIOUS
    <3> QED BY <3>1, LoopFacts
  <2>2. stack' = Become(t, f)
    BY <1>7, <1>12
  <2> HIDE DEF f
  <2>3. t \in signaled' \/ WillWake(t)' \/ SettledNext(t, f)
    <3>1. \A v \in Threads \ {t} : stack'[v] = stack[v]
      BY <1>3, <2>2 DEF Become, Stacks
    <3>2. WillWake(t) => WillWake(t)'
      BY <1>2, <3>1, WillWakeStays
    <3>3. ASSUME t \notin signaled, ~WillWake(t) PROVE SettledNext(t, f)
      <4>1. SleepInv
        BY DEF IInv
      <4>2. sendlist[t] = <<>>
        BY <1>2, <3>3, <4>1 DEF SleepInv, Settled
      <4> QED BY <1>2, <1>8, <1>12, <2>1, <4>2 DEF SettledNext
    <3> QED BY <1>2, <3>2, <3>3
  <2> QED BY <1>2, <1>9, <1>10, <1>11, <2>1, <2>2, <2>3, BecomeStep
<1>13. CASE q # <<>>
  <2> DEFINE g == Loop("receive", FALSE)
             f == Frame("posted", "run", NoThread, q[1])
             F == <<g, f>>
  <2>1. g \in Calls /\ g.kind = "loop" /\ g.pc = "receive" /\ g.timed = FALSE /\ FrameInv(g)
    BY LoopFacts
  <2>2. f \in Calls /\ f.kind = "posted" /\ f.pc = "run" /\ f.msg = q[1]
    <3>1. f \in Calls
      BY <1>6, <1>13, FrameTypes
    <3> QED BY <3>1 DEF Frame
  <2>3. stack' = CallFrom(Become(t, g), t, f)
    BY <1>7, <1>13
  <2> HIDE DEF f, g
  <2>4. Effect(t, n - 1, F)
    BY <1>2, <1>3, <2>1, <2>2, <2>3, BecomeAndCallEffect
  <2>5. F # <<>> /\ Len(F) = 2 /\ DOMAIN F = {1, 2} /\ F[1] = g /\ F[2] = f
    OBVIOUS
  <2> HIDE DEF F
  <2>6. Effect(t, 0, F)
    BY <1>4, <2>4
  <2>7. NewFrames(t, 0, F)
    <3>1. FrameInv(f)
      BY <1>6, <1>13, <2>2 DEF FrameInv
    <3>2. t # Main
      BY <1>4, ThreadsAssumption
    <3> QED BY <1>4, <2>1, <2>2, <2>5, <3>1, <3>2 DEF NewFrames
  <2>8. NewOwners(t, F)
    BY <1>2, <1>10, <2>1, <2>2, <2>5 DEF NewOwners, EntriesKnown
  <2>9. NewAnswers(t, 0, F)
    BY <1>2, <1>4, <2>1, <2>2, <2>5 DEF NewAnswers
  <2>10. NewWork(t, 0, F)
    <3>1. SettledNext(t, f)
      BY <2>2 DEF SettledNext
    <3> QED BY <1>2, <1>11, <2>5, <3>1 DEF NewWork
  <2>11. \A i \in DOMAIN F : F[i].kind # "sent"
    BY <2>1, <2>2, <2>5
  <2> QED BY <1>9, <2>6, <2>7, <2>8, <2>9, <2>10, <2>11, StepInv
<1> QED BY <1>12, <1>13

\* Clear: what is erased, and who is told.
LEMMA ClearFacts ==
    ASSUME IInv, NEW t \in Threads, NEW u \in Workers, NEW hs, Clear(u, hs)
    PROVE  /\ msgq' \in [Workers -> Seq(Messages)] /\ dmsgq' \in [Workers -> Seq(Messages)]
           /\ sendlist' \in [Threads -> Seq(Sends)] /\ sendlist'[Main] = <<>>
           /\ \A v \in Threads : \A s \in ToSet(sendlist'[v]) : s.sender # v
           /\ signaled' \subseteq Threads /\ signaled \subseteq signaled'
           /\ ready' \subseteq Ids /\ EntriesKnown(t)
           /\ \A m \in ready' \ ready : \E s \in Threads : Owns(m, s) /\ s \in signaled'
           /\ fStop' = fStop => \A v \in Threads : Quieter(v)
<1>0. TypeOK /\ u \in Threads /\ u # Main /\ Main \in Threads
  BY ThreadsAssumption DEF IInv, Threads
<1> DEFINE D == SentFor(u, hs)
           sl == Without(sendlist[u], D)
           mq == Without(msgq[u], PostedFor(msgq[u], hs))
           dq == Without(dmsgq[u], PostedFor(dmsgq[u], hs))
<1>1. /\ sendlist' = [sendlist EXCEPT ![u] = sl]
      /\ msgq' = [msgq EXCEPT ![u] = mq] /\ dmsgq' = [dmsgq EXCEPT ![u] = dq]
      /\ ready' = ready \cup {s.msg.id : s \in D}
      /\ signaled' = signaled \cup {s.sender : s \in D}
  BY <1>0 DEF Clear, Erase, TypeOK
<1>2. /\ sendlist[u] \in Seq(Sends) /\ msgq[u] \in Seq(Messages) /\ dmsgq[u] \in Seq(Messages)
  BY <1>0 DEF TypeOK
<1>3. /\ sl \in Seq(Sends) /\ ToSet(sl) \subseteq ToSet(sendlist[u])
      /\ mq \in Seq(Messages) /\ ToSet(mq) \subseteq ToSet(msgq[u])
      /\ dq \in Seq(Messages) /\ ToSet(dq) \subseteq ToSet(dmsgq[u])
  <2> HIDE DEF D
  <2> QED BY <1>2, WithoutFacts
<1>4. \A s \in D : s \in ToSet(sendlist[u]) /\ s \in Sends
  BY <1>2, EmptyFacts DEF SentFor
<1> HIDE DEF D, sl, mq, dq
<1>5. /\ sendlist[u] = <<>> => sl = <<>>
      /\ msgq[u] = <<>> => mq = <<>>
      /\ dmsgq[u] = <<>> => dq = <<>>
  <2>1. ToSet(<<>>) = {}
    BY DEF ToSet
  <2> QED BY <1>3, <2>1, EmptyFacts
<1>6. /\ msgq' \in [Workers -> Seq(Messages)] /\ dmsgq' \in [Workers -> Seq(Messages)]
      /\ sendlist' \in [Threads -> Seq(Sends)]
      /\ sendlist'[u] = sl /\ msgq'[u] = mq /\ dmsgq'[u] = dq
      /\ \A v \in Threads \ {u} : sendlist'[v] = sendlist[v]
      /\ \A v \in Workers \ {u} : msgq'[v] = msgq[v] /\ dmsgq'[v] = dmsgq[v]
  BY <1>0, <1>1, <1>3 DEF TypeOK
<1>7. \A v \in Threads : ToSet(sendlist'[v]) \subseteq ToSet(sendlist[v])
  BY <1>3, <1>6
<1>8. EntriesKnown(t)
  BY <1>7, EntriesStay
<1>9. sendlist'[Main] = <<>> /\ \A v \in Threads : \A s \in ToSet(sendlist'[v]) : s.sender # v
  BY <1>0, <1>6, <1>7 DEF TypeOK
<1>10. \A s \in D : s.sender \in Threads /\ s.msg.id \in Ids /\ Owns(s.msg.id, s.sender)
  <2>1. \A s \in D : s.sender \in Threads /\ s.msg.id \in Ids
    BY <1>4 DEF Sends, Messages
  <2> QED BY <1>0, <1>4, <2>1 DEF Owns, EntryOf
<1>11. signaled' \subseteq Threads /\ signaled \subseteq signaled' /\ ready' \subseteq Ids
  BY <1>0, <1>1, <1>10 DEF TypeOK
<1>12. \A m \in ready' \ ready : \E s \in Threads : Owns(m, s) /\ s \in signaled'
  BY <1>1, <1>10
<1>13. ASSUME fStop' = fStop, NEW v \in Threads PROVE Quieter(v)
  <2>1. CASE v = u
    BY <1>3, <1>5, <1>6, <1>13, <2>1 DEF Quieter
  <2>2. CASE v # u
    BY <1>6, <1>13, <2>2 DEF Quieter, Threads
  <2> QED BY <2>1, <2>2
<1> QED BY <1>6, <1>8, <1>9, <1>11, <1>12, <1>13

\* ClearHandler keeps the invariant.
LEMMA ClearHandlerInv ==
    ASSUME IInv, NEW t \in Threads, NEW u \in Workers, NEW h \in Handlers,
           ClearHandler(t, u, h)
    PROVE  IInv'
<1>1. /\ MayCall(t) /\ calls' = calls + 1 /\ Clear(u, {h}) /\ stack' = stack
      /\ fStop' = fStop /\ exited' = exited /\ gone' = gone
  BY DEF ClearHandler, lives
<1>2. /\ msgq' \in [Workers -> Seq(Messages)] /\ dmsgq' \in [Workers -> Seq(Messages)]
      /\ sendlist' \in [Threads -> Seq(Sends)] /\ sendlist'[Main] = <<>>
      /\ \A v \in Threads : \A s \in ToSet(sendlist'[v]) : s.sender # v
      /\ signaled' \subseteq Threads /\ signaled \subseteq signaled'
      /\ ready' \subseteq Ids /\ EntriesKnown(t)
      /\ \A m \in ready' \ ready : \E s \in Threads : Owns(m, s) /\ s \in signaled'
      /\ \A v \in Threads : Quieter(v)
  BY <1>1, ClearFacts
<1>3. calls' \in 0 .. MaxCalls
  BY <1>1, InvTypes, ThreadsAssumption DEF MayCall
<1>4. RestOK'
  BY <1>1, <1>2, <1>3 DEF IInv, TypeOK, RestOK
<1> DEFINE n == Len(stack[t])
<1>5. Stacks /\ DOMAIN stack[t] = 1 .. n /\ n \in Nat
  BY DEF IInv, TypeOK, Stacks
<1>6. Effect(t, n, <<>>)
  BY <1>1, <1>5, NoEffect
<1>7. DOMAIN <<>> = {}
  OBVIOUS
<1>8. NewFrames(t, n, <<>>)
  BY <1>7 DEF NewFrames
<1>9. NewOwners(t, <<>>)
  BY <1>1, <1>2, <1>7 DEF NewOwners, EntriesKnown
<1>10. NewAnswers(t, n, <<>>)
  BY <1>2, <1>5, <1>7 DEF NewAnswers
<1>11. NewWork(t, n, <<>>)
  <2>1. stack[t] = <<>> \/ Top(t).pc = "run"
    BY <1>1 DEF MayCall, At
  <2> QED BY <1>2, <2>1 DEF NewWork
<1> HIDE DEF n
<1> QED BY <1>4, <1>6, <1>7, <1>8, <1>9, <1>10, <1>11, StepInv

\* JoinAndClear keeps the invariant.
LEMMA JoinAndClearInv ==
    ASSUME IInv, JoinAndClear
    PROVE  IInv'
<1> DEFINE u == Top(Main).who
<1>1. /\ stack[Main] # <<>> /\ Top(Main).kind = "destroy" /\ Top(Main).pc = "join"
      /\ u \in exited /\ gone' = gone \cup {u} /\ Clear(u, Handlers) /\ stack' = Return(Main)
      /\ fStop' = fStop /\ exited' = exited /\ calls' = calls
  BY DEF JoinAndClear, At
<1>2. Main \in Threads /\ u \in Workers
  BY <1>1, InvTypes, ThreadsAssumption DEF IInv, TypeOK
<1> HIDE DEF u
<1>3. /\ msgq' \in [Workers -> Seq(Messages)] /\ dmsgq' \in [Workers -> Seq(Messages)]
      /\ sendlist' \in [Threads -> Seq(Sends)] /\ sendlist'[Main] = <<>>
      /\ \A v \in Threads : \A s \in ToSet(sendlist'[v]) : s.sender # v
      /\ signaled' \subseteq Threads /\ signaled \subseteq signaled'
      /\ ready' \subseteq Ids /\ EntriesKnown(Main)
      /\ \A m \in ready' \ ready : \E s \in Threads : Owns(m, s) /\ s \in signaled'
      /\ \A v \in Threads : Quieter(v)
  BY <1>1, <1>2, ClearFacts
<1>4. RestOK'
  BY <1>1, <1>3 DEF IInv, TypeOK, RestOK
<1> QED BY <1>1, <1>2, <1>3, <1>4, ReturnStep

-----------------------------------------------------------------------------
(***************************************************************************)
(* The theorems.                                                           *)
(***************************************************************************)
LEMMA InitInv == Init => IInv
<1> SUFFICES ASSUME Init PROVE IInv
  OBVIOUS
<1> DEFINE f == Loop("receive", FALSE)
<1>1. PICK h \in Handlers : msgq = [t \in Workers |-> <<Message(t, h)>>]
  BY DEF Init
<1>2. /\ stack = [t \in Threads |-> IF t = Main THEN <<>> ELSE <<f>>]
      /\ fStop = {} /\ exited = {} /\ gone = {} /\ dmsgq = [t \in Workers |-> <<>>]
      /\ sendlist = [t \in Threads |-> <<>>] /\ ready = {} /\ signaled = {} /\ calls = 0
  BY DEF Init
<1>3. f \in Calls /\ f.kind = "loop" /\ f.pc = "receive" /\ FrameInv(f)
  BY LoopFacts
<1> HIDE DEF f
<1>4. Main \in Threads /\ Workers \subseteq Threads
  BY DEF Threads
<1>5. TypeOK
  <2>1. stack \in [Threads -> Seq(Calls)]
    BY <1>2, <1>3
  <2>2. \A t \in Workers : Message(t, h) \in Messages
    BY DEF Message, Messages, Ids
  <2>3. msgq \in [Workers -> Seq(Messages)]
    BY <1>1, <2>2
  <2>4. ToSet(<<>>) = {}
    BY DEF ToSet
  <2> QED BY <1>2, <1>4, <2>1, <2>3, <2>4, ThreadsAssumption DEF TypeOK
<1>6. \A t \in Threads : \A i \in DOMAIN stack[t] :
          i = 1 /\ t # Main /\ stack[t][i] = f /\ Len(stack[t]) = 1
  BY <1>2
<1>7. StackInv
  BY <1>3, <1>6 DEF StackInv
<1>8. \A t \in Threads : ToSet(sendlist[t]) = {}
  BY <1>2 DEF ToSet
<1>9. OwnerInv
  BY <1>3, <1>6, <1>8 DEF OwnerInv, Owns, SendOf, HandlerOf, EntryOf
<1>10. ReadyInv /\ OnlyFromTarget
  BY <1>2, <1>6 DEF ReadyInv, OnlyFromTarget
<1>11. SleepInv
  <2> SUFFICES ASSUME NEW t \in Threads, stack[t] # <<>> PROVE Settled(t, Top(t))
    BY DEF SleepInv
  <2>1. Top(t) = f
    BY <1>5, <1>6, TopFacts DEF TypeOK, Stacks
  <2> QED BY <1>3, <2>1 DEF Settled
<1> QED BY <1>5, <1>7, <1>9, <1>10, <1>11 DEF IInv

\* A step that changes nothing keeps the invariant.
LEMMA StutterInv == ASSUME IInv, UNCHANGED vars PROVE IInv'
<1>1. /\ stack' = stack /\ fStop' = fStop /\ exited' = exited /\ gone' = gone
      /\ msgq' = msgq /\ dmsgq' = dmsgq /\ sendlist' = sendlist /\ ready' = ready
      /\ signaled' = signaled /\ calls' = calls
  BY DEF vars
<1>2. TypeOK' /\ StackInv' /\ ReadyInv' /\ OnlyFromTarget'
  BY <1>1 DEF IInv, TypeOK, StackInv, ReadyInv, GivesBack, OnlyFromTarget
<1>3. OwnerInv'
  BY <1>1 DEF IInv, OwnerInv, Owns, SendOf, HandlerOf, EntryOf
<1>4. SleepInv'
  BY <1>1 DEF IInv, SleepInv, Settled, WillWake, Top
<1> QED BY <1>2, <1>3, <1>4 DEF IInv

\* The inductive invariant holds in every behaviour, however many threads,
\* handlers and calls there are.
THEOREM Invariance == Spec => []IInv
<1>1. Init => IInv
  BY InitInv
<1>2. IInv /\ [Next]_vars => IInv'
  <2> SUFFICES ASSUME IInv, [Next]_vars PROVE IInv'
    OBVIOUS
  <2>1. ASSUME NEW t \in Threads, Step(t) PROVE IInv'
    BY <2>1, ReceiveSendInv, ReplyInv, NoMoreSendsInv, TakePostedInv, QuitLoopInv,
       GoToWaitInv, AwakeInv, WaitTimesOutInv, HandlerReturnsInv, PostInv,
       DoDelayPostInv, SendDirectlyInv, SendPushInv, SendWakeUpInv, SendNotReadyInv,
       SendReturnsInv, QuitInv, QuitWakeUpInv, JoinAndClearInv DEF Step
  <2>2. ASSUME NEW t \in Threads, Call(t) PROVE IInv'
    BY <2>2, BeginCallInv, ClearHandlerInv, BeginDestroyInv DEF Call
  <2>3. CASE UNCHANGED vars
    BY <2>3, StutterInv
  <2> QED BY <2>1, <2>2, <2>3 DEF Next
<1> QED BY <1>1, <1>2, PTL DEF Spec

\* The calls in progress, the queues and the lists of sends are what they should
\* be: nobody sends to itself through a list and nothing is sent to Main.
THEOREM TypeCorrect == Spec => []TypeOK
<1>1. IInv => TypeOK
  BY DEF IInv
<1> QED BY <1>1, Invariance, PTL

\* Thread::Send, while it waits, runs only what the target of the call sends.
THEOREM SendsOnlyNest == Spec => []OnlyFromTarget
<1>1. IInv => OnlyFromTarget
  BY DEF IInv
<1> QED BY <1>1, Invariance, PTL

\* No WakeUp of a socket server is lost, however deep Sends are nested: a thread
\* sleeps in Get or in Send only when it has nothing to do there.
THEOREM WakeupsAreKept == Spec => []NoLostWakeup
<1>1. IInv => NoLostWakeup
  <2> SUFFICES ASSUME IInv, NEW t \in Threads, t \notin signaled, ~WillWake(t),
                      stack[t] # <<>>, Top(t).pc = "wait"
               PROVE  /\ Top(t).kind = "loop" =>
                            /\ msgq[t] = <<>> /\ sendlist[t] = <<>> /\ t \notin fStop
                            /\ dmsgq[t] # <<>> => Top(t).timed
                      /\ Top(t).kind = "send" =>
                            /\ Top(t).msg.id \notin ready
                            /\ Poppable(t, {Top(t).who}) = {}
    BY DEF NoLostWakeup, At
  <2>1. SleepInv /\ TypeOK
    BY DEF IInv
  <2>2. Settled(t, Top(t))
    BY <2>1 DEF SleepInv
  <2>3. TopInv(t)
    BY TopInvFacts
  <2>4. Top(t).kind = "send" => Poppable(t, {Top(t).who}) = {}
    <3> SUFFICES ASSUME Top(t).kind = "send", NEW i \in Poppable(t, {Top(t).who})
                 PROVE  FALSE
      OBVIOUS
    <3>1. i \in DOMAIN sendlist[t] /\ sendlist[t][i].sender = Top(t).who
      BY DEF Poppable
    <3>2. sendlist[t][i] \in ToSet(sendlist[t])
      BY <3>1 DEF ToSet
    <3> QED BY <2>2, <3>1, <3>2 DEF Settled
  <2>5. Top(t).kind = "send" => Top(t).msg.id \notin ready
    BY <2>3 DEF TopInv
  <2> QED BY <2>2, <2>4, <2>5 DEF Settled
<1> QED BY <1>1, Invariance, PTL
=============================================================================
