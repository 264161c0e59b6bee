------------------------- MODULE ProcessThreadProofs -------------------------
(***************************************************************************)
(* Proofs about ProcessThread, for any modules, callers and bounds.        *)
(***************************************************************************)
EXTENDS ProcessThread, ListFacts

InPass == worker.pc \in {"module", "process"}

\* The worker holds lock_ exactly in its pass and while it looks for tasks,
\* and its index is inside the list in a pass and 0 elsewhere.
WorkerInv ==
    /\ lock = "worker" <=> worker.pc \in {"module", "process", "tasks"}
    /\ worker.pc = "module" => worker.i \in 1 .. Len(modules) + 1
    /\ worker.pc = "process" => worker.i \in DOMAIN modules
    /\ ~InPass => worker.i = 0

\* thread_ is set while there is a worker, and stop_ while Stop is under way.
LifeInv ==
    /\ thread <=> worker.pc # "none"
    /\ stop <=> control.pc # "idle"
    /\ control.pc # "idle" => thread /\ NobodyRegisters
    /\ worker.pc = "exited" => stop
    /\ InPass => ~stop

\* Somebody has changed something and will set the event, or has set it.
Signal ==
    \/ event
    \/ \E c \in Callers : caller[c].pc = "set"
    \/ control.pc = "set"

Served(i) == modules[i].next \notin {"query", "now"}

\* What the pass has behind it is served.  Once it has released lock_ new work
\* comes with a signal.
WakeInv ==
    /\ InPass => \A i \in 1 .. worker.i - 1 : Served(i)
    /\ worker.pc \in {"tasks", "running", "wait"} =>
          Signal \/ (~stop /\ \A i \in DOMAIN modules : Served(i))
    /\ worker.pc = "wait" => Signal \/ queue = <<>>

\* The modules that somebody is registering or deregistering.
Pending(c) == caller[c].pc \in {"push", "detach"}

AttachInv ==
    /\ \A c \in Callers : Pending(c) => caller[c].module \notin Registered
    /\ \A c, d \in Callers :
          c # d /\ Pending(c) /\ Pending(d) => caller[c].module # caller[d].module
    /\ \A m \in Modules :
          m \in attached <=>
              /\ thread
              /\ \/ m \in Registered
                 \/ \E c \in Callers : Pending(c) /\ caller[c].module = m

IInv == TypeOK /\ WorkerInv /\ LifeInv /\ WakeInv /\ AttachInv

Entry == [module: Modules, next: NextCallback]

-----------------------------------------------------------------------------
\* The list after the time of one module has changed.
LEMMA EntryUpdated ==
    ASSUME NEW s \in Seq(Entry), NEW i \in DOMAIN s, NEW next \in NextCallback,
           NEW t, t = [s EXCEPT ![i].next = next]
    PROVE  /\ t \in Seq(Entry) /\ Len(t) = Len(s) /\ DOMAIN t = DOMAIN s
           /\ \A j \in DOMAIN s : t[j].module = s[j].module
           /\ \A j \in DOMAIN s : j # i => t[j] = s[j]
           /\ t[i].next = next
<1>0. s[i] \in Entry
  OBVIOUS
<1>1. s[i] \in Entry /\ [s[i] EXCEPT !.next = next] \in Entry
  BY <1>0 DEF Entry
<1>2. t = [s EXCEPT ![i] = [s[i] EXCEPT !.next = next]]
  OBVIOUS
<1> DEFINE e == [s[i] EXCEPT !.next = next]
<1>3. e.module = s[i].module /\ e.next = next
  BY <1>1 DEF Entry
<1> HIDE DEF e
<1>4. t \in Seq(Entry) /\ Len(t) = Len(s) /\ DOMAIN t = DOMAIN s
  BY <1>1, <1>2 DEF e
<1>5. t[i] = e /\ \A j \in DOMAIN s : j # i => t[j] = s[j]
  BY <1>2 DEF e
<1> QED BY <1>3, <1>4, <1>5

\* A change of times only leaves the same modules registered.
LEMMA SameRegistered ==
    ASSUME DOMAIN modules' = DOMAIN modules,
           \A j \in DOMAIN modules : modules'[j].module = modules[j].module
    PROVE  Registered' = Registered
  BY DEF Registered

-----------------------------------------------------------------------------
\* The steps of the worker.
LEMMA BeginPassKeeps ==
    ASSUME IInv, BeginPass
    PROVE  IInv'
<1> USE DEF IInv
<1>1. TypeOK'
  BY DEF BeginPass, TypeOK
<1>2. WorkerInv'
  BY DEF BeginPass, TypeOK, WorkerInv, InPass
<1>3. LifeInv'
  BY DEF BeginPass, TypeOK, WorkerInv, LifeInv, InPass, NobodyRegisters
<1>4. WakeInv'
  BY DEF BeginPass, TypeOK, WorkerInv, LifeInv, WakeInv, InPass, Signal, Served
<1>5. AttachInv'
  BY DEF BeginPass, TypeOK, LifeInv, AttachInv, Pending, Registered, NobodyRegisters
<1> QED BY <1>1, <1>2, <1>3, <1>4, <1>5

\* SkipModule keeps the invariant.
LEMMA SkipModuleKeeps ==
    ASSUME IInv, SkipModule
    PROVE  IInv'
<1> USE DEF IInv
<1>u. /\ modules' \in Seq(Entry) /\ Len(modules') = Len(modules)
      /\ DOMAIN modules' = DOMAIN modules
      /\ \A j \in DOMAIN modules : modules'[j].module = modules[j].module
      /\ \A j \in DOMAIN modules : j # worker.i => modules'[j] = modules[j]
      /\ modules'[worker.i].next = "later"
  <2>1. /\ modules \in Seq(Entry) /\ worker.i \in DOMAIN modules
        /\ "later" \in NextCallback
        /\ modules' = [modules EXCEPT ![worker.i].next = "later"]
    BY DEF SkipModule, TypeOK, WorkerInv, Entry, NextCallback
  <2> QED BY ONLY <2>1, EntryUpdated
<1>r. Registered' = Registered
  BY <1>u, SameRegistered
<1>1. TypeOK'
  <2>1. worker.i + 1 \in 0 .. Len(modules) + 1
    BY DEF SkipModule, TypeOK, WorkerInv
  <2> QED BY <1>u, <2>1 DEF SkipModule, Sooner, TypeOK, Entry
<1>2. WorkerInv'
  BY <1>u DEF SkipModule, Sooner, TypeOK, WorkerInv, InPass
<1>3. LifeInv'
  BY <1>u DEF SkipModule, Sooner, TypeOK, WorkerInv, LifeInv, InPass, NobodyRegisters
<1>4. WakeInv'
  BY <1>u DEF SkipModule, Sooner, TypeOK, WorkerInv, LifeInv, WakeInv, InPass, Signal, Served
<1>5. AttachInv'
  BY <1>r DEF SkipModule, TypeOK, AttachInv, Pending
<1> QED BY <1>1, <1>2, <1>3, <1>4, <1>5

\* CallModule keeps the invariant.
LEMMA CallModuleKeeps ==
    ASSUME IInv, CallModule
    PROVE  IInv'
<1> USE DEF IInv
<1>1. TypeOK'
  BY DEF CallModule, TypeOK
<1>2. WorkerInv'
  BY DEF CallModule, TypeOK, WorkerInv, InPass
<1>3. LifeInv'
  BY DEF CallModule, TypeOK, WorkerInv, LifeInv, InPass, NobodyRegisters
<1>4. WakeInv'
  BY DEF CallModule, TypeOK, WorkerInv, LifeInv, WakeInv, InPass, Signal, Served
<1>5. AttachInv'
  BY DEF CallModule, TypeOK, LifeInv, AttachInv, Pending, Registered, NobodyRegisters
<1> QED BY <1>1, <1>2, <1>3, <1>4, <1>5

\* ModuleReturns keeps the invariant.
LEMMA ModuleReturnsKeeps ==
    ASSUME IInv, NEW next \in {"due", "later"}, ModuleReturns(next)
    PROVE  IInv'
<1> USE DEF IInv
<1>u. /\ modules' \in Seq(Entry) /\ Len(modules') = Len(modules)
      /\ DOMAIN modules' = DOMAIN modules
      /\ \A j \in DOMAIN modules : modules'[j].module = modules[j].module
      /\ \A j \in DOMAIN modules : j # worker.i => modules'[j] = modules[j]
      /\ modules'[worker.i].next = next
  <2>1. /\ modules \in Seq(Entry) /\ worker.i \in DOMAIN modules
        /\ next \in NextCallback
        /\ modules' = [modules EXCEPT ![worker.i].next = next]
    BY DEF ModuleReturns, TypeOK, WorkerInv, Entry, NextCallback
  <2> QED BY ONLY <2>1, EntryUpdated
<1>r. Registered' = Registered
  BY <1>u, SameRegistered
<1>1. TypeOK'
  <2>1. worker.i + 1 \in 0 .. Len(modules) + 1
    BY DEF ModuleReturns, TypeOK, WorkerInv
  <2> QED BY <1>u, <2>1 DEF ModuleReturns, Sooner, TypeOK, Entry
<1>2. WorkerInv'
  BY <1>u DEF ModuleReturns, Sooner, TypeOK, WorkerInv, InPass
<1>3. LifeInv'
  BY <1>u DEF ModuleReturns, Sooner, TypeOK, WorkerInv, LifeInv, InPass, NobodyRegisters
<1>4. WakeInv'
  BY <1>u DEF ModuleReturns, Sooner, TypeOK, WorkerInv, LifeInv, WakeInv, InPass, Signal, Served
<1>5. AttachInv'
  BY <1>r DEF ModuleReturns, TypeOK, AttachInv, Pending
<1> QED BY <1>1, <1>2, <1>3, <1>4, <1>5

\* EndModules keeps the invariant.
LEMMA EndModulesKeeps ==
    ASSUME IInv, EndModules
    PROVE  IInv'
<1> USE DEF IInv
<1>1. TypeOK'
  <2>1. 0 \in 0 .. Len(modules) + 1
    BY DEF TypeOK
  <2> QED BY <2>1 DEF EndModules, TypeOK
<1>2. WorkerInv'
  BY DEF EndModules, TypeOK, WorkerInv, InPass
<1>3. LifeInv'
  BY DEF EndModules, TypeOK, WorkerInv, LifeInv, InPass, NobodyRegisters
<1>4. WakeInv'
  <2>1. 1 .. worker.i - 1 = DOMAIN modules
    BY DEF EndModules, TypeOK, WorkerInv
  <2> QED BY <2>1 DEF EndModules, TypeOK, LifeInv, WakeInv, InPass, Signal, Served
<1>5. AttachInv'
  BY DEF EndModules, TypeOK, LifeInv, AttachInv, Pending, Registered, NobodyRegisters
<1> QED BY <1>1, <1>2, <1>3, <1>4, <1>5

\* NextTask keeps the invariant.
LEMMA NextTaskKeeps ==
    ASSUME IInv, NextTask
    PROVE  IInv'
<1> USE DEF IInv
<1>1. TypeOK'
  <2>1. queue # <<>> => Tail(queue) \in Seq(Callers)
    BY DEF TypeOK
  <2> QED BY <2>1 DEF NextTask, TypeOK
<1>2. WorkerInv'
  BY DEF NextTask, TypeOK, WorkerInv, InPass
<1>3. LifeInv'
  BY DEF NextTask, TypeOK, WorkerInv, LifeInv, InPass, NobodyRegisters
<1>4. WakeInv'
  BY DEF NextTask, TypeOK, WorkerInv, LifeInv, WakeInv, InPass, Signal, Served
<1>5. AttachInv'
  BY DEF NextTask, TypeOK, LifeInv, AttachInv, Pending, Registered, NobodyRegisters
<1> QED BY <1>1, <1>2, <1>3, <1>4, <1>5

\* TaskReturns keeps the invariant.
LEMMA TaskReturnsKeeps ==
    ASSUME IInv, TaskReturns
    PROVE  IInv'
<1> USE DEF IInv
<1>1. TypeOK'
  BY DEF TaskReturns, TypeOK
<1>2. WorkerInv'
  BY DEF TaskReturns, TypeOK, WorkerInv, InPass
<1>3. LifeInv'
  BY DEF TaskReturns, TypeOK, WorkerInv, LifeInv, InPass, NobodyRegisters
<1>4. WakeInv'
  BY DEF TaskReturns, TypeOK, WorkerInv, LifeInv, WakeInv, InPass, Signal, Served
<1>5. AttachInv'
  BY DEF TaskReturns, TypeOK, LifeInv, AttachInv, Pending, Registered, NobodyRegisters
<1> QED BY <1>1, <1>2, <1>3, <1>4, <1>5

\* WaitSignaled keeps the invariant.
LEMMA WaitSignaledKeeps ==
    ASSUME IInv, WaitSignaled
    PROVE  IInv'
<1> USE DEF IInv
<1>1. TypeOK'
  BY DEF WaitSignaled, TypeOK
<1>2. WorkerInv'
  BY DEF WaitSignaled, TypeOK, WorkerInv, InPass
<1>3. LifeInv'
  BY DEF WaitSignaled, TypeOK, WorkerInv, LifeInv, InPass, NobodyRegisters
<1>4. WakeInv'
  BY DEF WaitSignaled, TypeOK, WorkerInv, LifeInv, WakeInv, InPass, Signal, Served
<1>5. AttachInv'
  BY DEF WaitSignaled, TypeOK, LifeInv, AttachInv, Pending, Registered, NobodyRegisters
<1> QED BY <1>1, <1>2, <1>3, <1>4, <1>5

\* WaitTimedOut keeps the invariant.
LEMMA WaitTimedOutKeeps ==
    ASSUME IInv, NEW checkpoint, WaitTimedOut(checkpoint)
    PROVE  IInv'
<1> USE DEF IInv
<1>1. TypeOK'
  BY DEF WaitTimedOut, TypeOK
<1>2. WorkerInv'
  BY DEF WaitTimedOut, TypeOK, WorkerInv, InPass
<1>3. LifeInv'
  BY DEF WaitTimedOut, TypeOK, WorkerInv, LifeInv, InPass, NobodyRegisters
<1>4. WakeInv'
  BY DEF WaitTimedOut, TypeOK, WorkerInv, LifeInv, WakeInv, InPass, Signal, Served
<1>5. AttachInv'
  BY DEF WaitTimedOut, TypeOK, LifeInv, AttachInv, Pending, Registered, NobodyRegisters
<1> QED BY <1>1, <1>2, <1>3, <1>4, <1>5

\* Pause keeps the invariant.
LEMMA PauseKeeps ==
    ASSUME IInv, Pause
    PROVE  IInv'
<1> USE DEF IInv
<1>1. TypeOK'
  <2>1. 0 \in 0 .. Len(modules) + 1
    BY DEF TypeOK
  <2> QED BY <2>1 DEF Pause, AtHead, NoWorker, TypeOK
<1>2. WorkerInv'
  BY DEF Pause, AtHead, NoWorker, TypeOK, WorkerInv, InPass
<1>3. LifeInv'
  BY DEF Pause, AtHead, NoWorker, TypeOK, WorkerInv, LifeInv, InPass, NobodyRegisters
<1>4. WakeInv'
  BY DEF Pause, AtHead, NoWorker, TypeOK, WorkerInv, LifeInv, WakeInv, InPass, Signal, Served
<1>5. AttachInv'
  BY DEF Pause, AtHead, NoWorker, TypeOK, LifeInv, AttachInv, Pending, Registered, NobodyRegisters
<1> QED BY <1>1, <1>2, <1>3, <1>4, <1>5

\* TimePasses keeps the invariant.
LEMMA TimePassesKeeps ==
    ASSUME IInv, NEW k \in DOMAIN modules, TimePasses(k)
    PROVE  IInv'
<1> USE DEF IInv
<1>u. /\ modules' \in Seq(Entry) /\ Len(modules') = Len(modules)
      /\ DOMAIN modules' = DOMAIN modules
      /\ \A j \in DOMAIN modules : modules'[j].module = modules[j].module
      /\ \A j \in DOMAIN modules : j # k => modules'[j] = modules[j]
      /\ modules'[k].next = "due"
  <2>1. /\ modules \in Seq(Entry) /\ k \in DOMAIN modules
        /\ "due" \in NextCallback
        /\ modules' = [modules EXCEPT ![k].next = "due"]
    BY DEF TimePasses, TypeOK, WorkerInv, Entry, NextCallback
  <2> QED BY ONLY <2>1, EntryUpdated, SMTT(40)
<1>r. Registered' = Registered
  BY <1>u, SameRegistered
<1>1. TypeOK'
  BY <1>u DEF TimePasses, TypeOK, Entry
<1>2. WorkerInv'
  BY <1>u DEF TimePasses, TypeOK, WorkerInv, InPass
<1>3. LifeInv'
  BY <1>u DEF TimePasses, TypeOK, WorkerInv, LifeInv, InPass, NobodyRegisters
<1>4. WakeInv'
  BY <1>u DEF TimePasses, TypeOK, WorkerInv, LifeInv, WakeInv, InPass, Signal, Served
<1>5. AttachInv'
  BY <1>r DEF TimePasses, TypeOK, AttachInv, Pending
<1> QED BY <1>1, <1>2, <1>3, <1>4, <1>5

\* The steps of the callers.
LEMMA WakeUpKeeps ==
    ASSUME IInv, NEW c \in Callers, NEW m \in Modules, WakeUp(c, m)
    PROVE  IInv'
<1> USE DEF IInv
<1>u. /\ modules' \in Seq(Entry) /\ Len(modules') = Len(modules)
      /\ DOMAIN modules' = DOMAIN modules
      /\ \A j \in DOMAIN modules : modules'[j].module = modules[j].module
  <2>1. modules \in Seq(Entry)
    BY DEF TypeOK, Entry
  <2>2. ASSUME NEW j \in DOMAIN modules
        PROVE  modules'[j] \in Entry /\ modules'[j].module = modules[j].module
    <3>1. modules[j] \in Entry
      BY <2>1
    <3> QED BY <3>1 DEF WakeUp, Entry, NextCallback
  <2>3. modules' = [j \in 1 .. Len(modules) |-> modules'[j]]
    BY <2>1 DEF WakeUp
  <2> QED BY <2>1, <2>2, <2>3
<1>r. Registered' = Registered
  BY <1>u, SameRegistered
<1>1. TypeOK'
  BY <1>u, ProcessThreadAssumption DEF WakeUp, Calling, TypeOK, Entry
<1>2. WorkerInv'
  BY <1>u DEF WakeUp, Calling, TypeOK, WorkerInv, InPass
<1>3. LifeInv'
  BY <1>u DEF WakeUp, Calling, TypeOK, WorkerInv, LifeInv, InPass, NobodyRegisters
<1>4. WakeInv'
  BY <1>u DEF WakeUp, Calling, TypeOK, WorkerInv, LifeInv, WakeInv, InPass, Signal, Served
<1>5. AttachInv'
  BY <1>r DEF WakeUp, Calling, TypeOK, AttachInv, Pending
<1> QED BY <1>1, <1>2, <1>3, <1>4, <1>5

\* PostTask keeps the invariant.
LEMMA PostTaskKeeps ==
    ASSUME IInv, NEW c \in Callers, PostTask(c)
    PROVE  IInv'
<1> USE DEF IInv
<1>r. Registered' = Registered
  BY DEF PostTask, Registered
<1>1. TypeOK'
  BY ProcessThreadAssumption DEF PostTask, Calling, TypeOK
<1>2. WorkerInv'
  BY DEF PostTask, Calling, TypeOK, WorkerInv, InPass
<1>3. LifeInv'
  BY DEF PostTask, Calling, TypeOK, WorkerInv, LifeInv, InPass, NobodyRegisters
<1>4. WakeInv'
  BY DEF PostTask, Calling, TypeOK, WorkerInv, LifeInv, WakeInv, InPass, Signal, Served
<1>5. AttachInv'
  BY <1>r DEF PostTask, Calling, TypeOK, AttachInv, Pending
<1> QED BY <1>1, <1>2, <1>3, <1>4, <1>5

\* RegisterModule keeps the invariant.
LEMMA RegisterModuleKeeps ==
    ASSUME IInv, NEW c \in Callers, NEW m \in Modules, RegisterModule(c, m)
    PROVE  IInv'
<1> USE DEF IInv
<1>r. Registered' = Registered
  BY DEF RegisterModule, Registered
<1>1. TypeOK'
  BY ProcessThreadAssumption DEF RegisterModule, Calling, MayRegister, TypeOK
<1>2. WorkerInv'
  BY DEF RegisterModule, Calling, MayRegister, TypeOK, WorkerInv, InPass
<1>3. LifeInv'
  BY DEF RegisterModule, Calling, MayRegister, TypeOK, WorkerInv, LifeInv, InPass, NobodyRegisters
<1>4. WakeInv'
  BY DEF RegisterModule, Calling, MayRegister, TypeOK, WorkerInv, LifeInv, WakeInv, InPass, Signal, Served
<1>5. AttachInv'
  BY <1>r DEF RegisterModule, Calling, MayRegister, TypeOK, AttachInv, Pending
<1> QED BY <1>1, <1>2, <1>3, <1>4, <1>5

\* PushModule keeps the invariant.
LEMMA PushModuleKeeps ==
    ASSUME IInv, NEW c \in Callers, PushModule(c)
    PROVE  IInv'
<1> USE DEF IInv
<1> DEFINE e == [module |-> caller[c].module, next |-> "query"]
<1>e. e \in Entry
  BY DEF TypeOK, Entry, NextCallback
<1>u. /\ modules' = Append(modules, e) /\ modules \in Seq(Entry)
      /\ modules' \in Seq(Entry) /\ Len(modules') = Len(modules) + 1
      /\ \A j \in DOMAIN modules : modules'[j] = modules[j]
      /\ modules'[Len(modules) + 1] = e
  <2> HIDE DEF e
  <2> QED BY <1>e DEF PushModule, TypeOK, Entry, e
<1>r. Registered' = Registered \cup {caller[c].module}
  <2>1. DOMAIN modules' = DOMAIN modules \cup {Len(modules) + 1}
    BY <1>u
  <2> QED BY <1>u, <2>1 DEF Registered
<1>1. TypeOK'
  BY <1>u DEF PushModule, Going, TypeOK, Entry
<1>2. WorkerInv'
  BY <1>u DEF PushModule, Going, TypeOK, WorkerInv, InPass
<1>3. LifeInv'
  BY <1>u DEF PushModule, Going, TypeOK, WorkerInv, LifeInv, InPass, NobodyRegisters
<1>4. WakeInv'
  BY <1>u DEF PushModule, Going, TypeOK, WorkerInv, LifeInv, WakeInv, InPass, Signal, Served
<1>5. AttachInv'
  BY <1>r DEF PushModule, Going, TypeOK, AttachInv, Pending
<1> QED BY <1>1, <1>2, <1>3, <1>4, <1>5

\* SetWakeUp keeps the invariant.
LEMMA SetWakeUpKeeps ==
    ASSUME IInv, NEW c \in Callers, SetWakeUp(c)
    PROVE  IInv'
<1> USE DEF IInv
<1>r. Registered' = Registered
  BY DEF SetWakeUp, Registered
<1>1. TypeOK'
  BY DEF SetWakeUp, Going, TypeOK
<1>2. WorkerInv'
  BY DEF SetWakeUp, Going, TypeOK, WorkerInv, InPass
<1>3. LifeInv'
  BY DEF SetWakeUp, Going, TypeOK, WorkerInv, LifeInv, InPass, NobodyRegisters
<1>4. WakeInv'
  BY DEF SetWakeUp, Going, TypeOK, WorkerInv, LifeInv, WakeInv, InPass, Signal, Served
<1>5. AttachInv'
  BY <1>r DEF SetWakeUp, Going, TypeOK, AttachInv, Pending
<1> QED BY <1>1, <1>2, <1>3, <1>4, <1>5

\* DeRegisterModule keeps the invariant.
LEMMA DeRegisterModuleKeeps ==
    ASSUME IInv, NEW c \in Callers, NEW m \in Modules, DeRegisterModule(c, m)
    PROVE  IInv'
<1> USE DEF IInv
<1>u. /\ modules' \in Seq(Entry)
      /\ ToSet(modules') = {e \in ToSet(modules) : e.module # m}
  <2>1. modules' = Without(modules, EntriesOf(m)) /\ modules \in Seq(Entry)
    BY DEF DeRegisterModule, TypeOK, Entry
  <2>2. modules' \in Seq(Entry) /\ ToSet(modules') = ToSet(modules) \ EntriesOf(m)
    BY <2>1, WithoutFacts
  <2> QED BY <2>2 DEF EntriesOf
<1>v. Registered = {e.module : e \in ToSet(modules)} /\ Registered' = {e.module : e \in ToSet(modules')}
  BY DEF Registered, ToSet
<1>r. Registered' = Registered \ {m}
  BY <1>u, <1>v
<1>s. (\A i \in DOMAIN modules : Served(i)) => (\A i \in DOMAIN modules' : Served(i)')
  BY <1>u DEF Served, ToSet
<1>t. ~InPass
  BY DEF DeRegisterModule, WorkerInv, InPass
<1>1. TypeOK'
  <2>1. 0 \in 0 .. Len(modules') + 1
    BY <1>u
  <2> QED BY <1>u, <1>t, <2>1, ProcessThreadAssumption DEF DeRegisterModule, Calling, TypeOK, WorkerInv, Entry
<1>2. WorkerInv'
  BY DEF DeRegisterModule, Calling, MayRegister, TypeOK, WorkerInv, InPass
<1>3. LifeInv'
  BY DEF DeRegisterModule, Calling, MayRegister, TypeOK, WorkerInv, LifeInv, InPass, NobodyRegisters
<1>4. WakeInv'
  BY <1>s, <1>t DEF DeRegisterModule, Calling, TypeOK, WakeInv, InPass, Signal
<1>5. AttachInv'
  BY <1>r DEF DeRegisterModule, Calling, MayRegister, TypeOK, AttachInv, Pending
<1> QED BY <1>1, <1>2, <1>3, <1>4, <1>5

\* NotifyDetached keeps the invariant.
LEMMA NotifyDetachedKeeps ==
    ASSUME IInv, NEW c \in Callers, NotifyDetached(c)
    PROVE  IInv'
<1> USE DEF IInv
<1>r. Registered' = Registered
  BY DEF NotifyDetached, Registered
<1>1. TypeOK'
  BY DEF NotifyDetached, Going, TypeOK
<1>2. WorkerInv'
  BY DEF NotifyDetached, Going, TypeOK, WorkerInv, InPass
<1>3. LifeInv'
  BY DEF NotifyDetached, Going, TypeOK, WorkerInv, LifeInv, InPass, NobodyRegisters
<1>4. WakeInv'
  BY DEF NotifyDetached, Going, TypeOK, WorkerInv, LifeInv, WakeInv, InPass, Signal, Served
<1>5. AttachInv'
  BY <1>r DEF NotifyDetached, Going, TypeOK, AttachInv, Pending
<1> QED BY <1>1, <1>2, <1>3, <1>4, <1>5

\* Start and Stop.
LEMMA StartKeeps ==
    ASSUME IInv, Start
    PROVE  IInv'
<1> USE DEF IInv
<1>r. Registered' = Registered
  BY DEF Start, Registered
<1>1. TypeOK'
  <2>1. 0 \in 0 .. Len(modules) + 1 /\ control.starts + 1 \in 0 .. MaxStarts
    BY ProcessThreadAssumption DEF Start, TypeOK
  <2>2. Registered \subseteq Modules
    <3>1. modules \in Seq(Entry)
      BY DEF TypeOK, Entry
    <3>2. \A i \in DOMAIN modules : modules[i] \in Entry
      BY <3>1
    <3> QED BY <3>2 DEF Registered, Entry
  <2> QED BY <2>1, <2>2 DEF Start, AtHead, NoWorker, TypeOK
<1>2. WorkerInv'
  BY DEF Start, AtHead, NoWorker, TypeOK, WorkerInv, LifeInv, InPass
<1>3. LifeInv'
  BY DEF Start, AtHead, NoWorker, TypeOK, WorkerInv, LifeInv, InPass, NobodyRegisters
<1>4. WakeInv'
  BY DEF Start, AtHead, NoWorker, TypeOK, WorkerInv, LifeInv, WakeInv, InPass, Signal, Served
<1>5. AttachInv'
  BY <1>r DEF Start, TypeOK, LifeInv, AttachInv, Pending, NobodyRegisters
<1> QED BY <1>1, <1>2, <1>3, <1>4, <1>5

\* Stop keeps the invariant.
LEMMA StopKeeps ==
    ASSUME IInv, Stop
    PROVE  IInv'
<1> USE DEF IInv
<1>1. TypeOK'
  BY DEF Stop, TypeOK
<1>2. WorkerInv'
  BY DEF Stop, TypeOK, WorkerInv, InPass
<1>3. LifeInv'
  BY DEF Stop, TypeOK, WorkerInv, LifeInv, InPass, NobodyRegisters
<1>4. WakeInv'
  BY DEF Stop, TypeOK, WorkerInv, LifeInv, WakeInv, InPass, Signal, Served
<1>5. AttachInv'
  BY DEF Stop, TypeOK, LifeInv, AttachInv, Pending, Registered, NobodyRegisters
<1> QED BY <1>1, <1>2, <1>3, <1>4, <1>5

\* StopSet keeps the invariant.
LEMMA StopSetKeeps ==
    ASSUME IInv, StopSet
    PROVE  IInv'
<1> USE DEF IInv
<1>1. TypeOK'
  BY DEF StopSet, TypeOK
<1>2. WorkerInv'
  BY DEF StopSet, TypeOK, WorkerInv, InPass
<1>3. LifeInv'
  BY DEF StopSet, TypeOK, WorkerInv, LifeInv, InPass, NobodyRegisters
<1>4. WakeInv'
  BY DEF StopSet, TypeOK, WorkerInv, LifeInv, WakeInv, InPass, Signal, Served
<1>5. AttachInv'
  BY DEF StopSet, TypeOK, LifeInv, AttachInv, Pending, Registered, NobodyRegisters
<1> QED BY <1>1, <1>2, <1>3, <1>4, <1>5

\* Join keeps the invariant.
LEMMA JoinKeeps ==
    ASSUME IInv, Join
    PROVE  IInv'
<1> USE DEF IInv
<1>r. Registered' = Registered
  BY DEF Join, Registered
<1>1. TypeOK'
  <2>1. 0 \in 0 .. Len(modules) + 1
    BY DEF TypeOK
  <2> QED BY <2>1 DEF Join, NoWorker, TypeOK
<1>2. WorkerInv'
  BY DEF Join, NoWorker, TypeOK, WorkerInv, InPass
<1>3. LifeInv'
  BY DEF Join, NoWorker, TypeOK, WorkerInv, LifeInv, InPass, NobodyRegisters
<1>4. WakeInv'
  BY DEF Join, NoWorker, TypeOK, WorkerInv, LifeInv, WakeInv, InPass, Signal, Served
<1>5. AttachInv'
  BY <1>r DEF Join, TypeOK, LifeInv, AttachInv, Pending, NobodyRegisters
<1> QED BY <1>1, <1>2, <1>3, <1>4, <1>5

-----------------------------------------------------------------------------
\* The invariant holds initially.
LEMMA InitInv == Init => IInv
<1> SUFFICES ASSUME Init PROVE IInv
  OBVIOUS
<1>1. Registered = {}
  BY DEF Init, Registered
<1>2. (CHOOSE m \in Modules : TRUE) \in Modules
  BY ProcessThreadAssumption
<1>3. TypeOK
  <2>1. caller \in [Callers -> [pc: {"idle", "push", "set", "detach"}, module: Modules]]
    <3> DEFINE m0 == CHOOSE m \in Modules : TRUE
    <3>1. m0 \in Modules /\ caller = [c \in Callers |-> [pc |-> "idle", module |-> m0]]
      BY <1>2 DEF Init, NoCall
    <3> HIDE DEF m0
    <3> QED BY <3>1
  <2>2. /\ modules \in Seq([module: Modules, next: NextCallback])
        /\ queue \in Seq(Callers)
    BY DEF Init
  <2>3. worker = [pc |-> "none", i |-> 0, checkpoint |-> "far"] /\ Len(modules) = 0
    BY DEF Init, NoWorker
  <2>4. worker \in [pc: {"none", "head", "module", "process", "tasks", "running",
                         "wait", "pause", "exited"},
                    i: 0 .. Len(modules) + 1,
                    checkpoint: {"due", "later", "far"}]
    BY <2>3
  <2>5. /\ stop \in BOOLEAN /\ thread \in BOOLEAN /\ event \in BOOLEAN
        /\ lock \in {"none", "worker"} /\ attached \subseteq Modules
    BY DEF Init
  <2>6. /\ control \in [pc: {"idle", "set", "join"}, starts: 0 .. MaxStarts]
        /\ calls \in 0 .. MaxCalls
    BY ProcessThreadAssumption DEF Init
  <2> QED BY <2>1, <2>2, <2>4, <2>5, <2>6 DEF TypeOK
<1>4. WorkerInv /\ LifeInv /\ WakeInv
  BY DEF Init, WorkerInv, LifeInv, WakeInv, InPass, NoWorker
<1>5. AttachInv
  BY <1>1 DEF Init, AttachInv, Pending, NoCall
<1> QED BY <1>3, <1>4, <1>5 DEF IInv

\* A step that changes nothing keeps the invariant.
LEMMA StutterKeeps == IInv /\ UNCHANGED vars => IInv'
  BY DEF IInv, vars, TypeOK, WorkerInv, LifeInv, WakeInv, AttachInv, InPass, Signal,
         Served, Pending, Registered, NobodyRegisters

\* Every step keeps the invariant.
LEMMA NextKeeps == IInv /\ [Next]_vars => IInv'
<1> SUFFICES ASSUME IInv, [Next]_vars PROVE IInv'
  OBVIOUS
<1>1. CASE WorkerStep
  BY <1>1, BeginPassKeeps, SkipModuleKeeps, CallModuleKeeps, ModuleReturnsKeeps,
     EndModulesKeeps, NextTaskKeeps, TaskReturnsKeeps, WaitSignaledKeeps,
     WaitTimedOutKeeps, PauseKeeps DEF WorkerStep
<1>2. CASE WaitTimedOut("far")
  BY <1>2, WaitTimedOutKeeps
<1>3. CASE \E i \in DOMAIN modules : TimePasses(i)
  BY <1>3, TimePassesKeeps
<1>4. ASSUME NEW c \in Callers, CallerStep(c) PROVE IInv'
  BY <1>4, PushModuleKeeps, SetWakeUpKeeps, NotifyDetachedKeeps DEF CallerStep
<1>5. ASSUME NEW c \in Callers, NEW m \in Modules,
             WakeUp(c, m) \/ RegisterModule(c, m) \/ DeRegisterModule(c, m)
      PROVE  IInv'
  BY <1>5, WakeUpKeeps, RegisterModuleKeeps, DeRegisterModuleKeeps
<1>6. ASSUME NEW c \in Callers, PostTask(c) PROVE IInv'
  BY <1>6, PostTaskKeeps
<1>7. CASE Start \/ Stop \/ ControlStep
  BY <1>7, StartKeeps, StopKeeps, StopSetKeeps, JoinKeeps DEF ControlStep
<1>8. CASE UNCHANGED vars
  BY <1>8, StutterKeeps
<1> QED BY <1>1, <1>2, <1>3, <1>4, <1>5, <1>6, <1>7, <1>8 DEF Next

\* The inductive invariant of ProcessThreadImpl: where lock_ is held, what the
\* flags mean, that unserved work comes with a signal, and who is attached.
THEOREM Invariance == Spec => []IInv
  BY InitInv, NextKeeps, PTL DEF Spec

\* Process(), the registration calls and Start and Stop keep the types of the
\* state; in particular the worker never walks past the end of modules_.
THEOREM TypeCorrect == Spec => []TypeOK
<1>1. IInv => TypeOK
  BY DEF IInv
<1> QED BY <1>1, Invariance, PTL

\* The worker never sleeps in wake_up_->Wait with a task queued, a module to be
\* asked or called, or stop_ set, unless somebody is just about to call Set.
THEOREM WakeupsAreKept == Spec => []NoLostWakeup
<1>1. IInv => NoLostWakeup
  BY DEF IInv, WakeInv, NoLostWakeup, Signal, Served
<1> QED BY <1>1, Invariance, PTL

\* Between the calls exactly the modules of a running thread have been told that
\* they are attached (ProcessThreadAttached).
THEOREM AttachmentIsKept == Spec => []AttachedAgrees
<1>1. IInv => AttachedAgrees
  <2> SUFFICES ASSUME IInv, control.pc = "idle", NobodyRegisters
               PROVE  attached = IF thread THEN Registered ELSE {}
    BY DEF AttachedAgrees
  <2>1. modules \in Seq(Entry) /\ attached \subseteq Modules
    BY DEF IInv, TypeOK, Entry
  <2>2. \A i \in DOMAIN modules : modules[i] \in Entry
    BY <2>1
  <2>3. Registered \subseteq Modules
    BY <2>2 DEF Registered, Entry
  <2>4. \A c \in Callers : ~Pending(c)
    BY DEF NobodyRegisters, Pending
  <2>5. \A m \in Modules : m \in attached <=> thread /\ m \in Registered
    BY <2>4 DEF IInv, AttachInv
  <2> QED BY <2>1, <2>3, <2>5
<1> QED BY <1>1, Invariance, PTL

\* Nobody but the worker changes modules_ while it walks through the list, and
\* the worker changes only the entry that it is at.
THEOREM PassesAreUndisturbed == Spec => PassIsUndisturbed
<1> DEFINE Undisturbed ==
              worker.pc \in {"module", "process"} =>
                  /\ Len(modules') = Len(modules)
                  /\ \A i \in DOMAIN modules :
                        /\ modules'[i].module = modules[i].module
                        /\ i # worker.i => modules'[i] = modules[i]
<1>1. IInv /\ [Next]_vars => [Undisturbed]_vars
  <2> SUFFICES ASSUME IInv, Next, worker.pc \in {"module", "process"}
               PROVE  /\ Len(modules') = Len(modules)
                      /\ \A i \in DOMAIN modules :
                            /\ modules'[i].module = modules[i].module
                            /\ i # worker.i => modules'[i] = modules[i]
    OBVIOUS
  <2>1. lock # "none"
    BY DEF IInv, WorkerInv
  <2>2. CASE UNCHANGED modules
    BY <2>2
  <2>3. ASSUME NEW next \in {"due", "later"},
               worker.i \in DOMAIN modules,
               modules' = [modules EXCEPT ![worker.i].next = next]
        PROVE  /\ Len(modules') = Len(modules)
               /\ \A i \in DOMAIN modules :
                     /\ modules'[i].module = modules[i].module
                     /\ i # worker.i => modules'[i] = modules[i]
    <3>1. modules \in Seq(Entry) /\ next \in NextCallback
      BY DEF IInv, TypeOK, Entry, NextCallback
    <3> QED BY ONLY <2>3, <3>1, EntryUpdated
  <2>4. \/ UNCHANGED modules
        \/ \E next \in {"due", "later"} :
              /\ worker.i \in DOMAIN modules
              /\ modules' = [modules EXCEPT ![worker.i].next = next]
    BY <2>1 DEF Next, WorkerStep, CallerStep, ControlStep, BeginPass, SkipModule,
           CallModule, ModuleReturns, EndModules, NextTask, TaskReturns,
           WaitSignaled, WaitTimedOut, Pause, TimePasses, PushModule, SetWakeUp,
           NotifyDetached, WakeUp, RegisterModule, DeRegisterModule, PostTask,
           Start, Stop, StopSet, Join, IInv, WorkerInv
  <2> QED BY <2>2, <2>3, <2>4
<1> QED BY <1>1, Invariance, PTL DEF Spec, PassIsUndisturbed
=============================================================================
