---------------------------- MODULE ProcessThread ----------------------------
(***************************************************************************)
(* ProcessThreadImpl: one worker thread that calls the modules registered  *)
(* with it when they are due and runs posted tasks.  The other threads     *)
(* register and deregister modules, wake one up or post a task; the thread *)
(* that created the object starts and stops the worker.                    *)
(*                                                                         *)
(* Time is abstracted to what the code tells apart: next_callback is 0     *)
(* ("query"), kCallProcessImmediately ("now"), not later than the present  *)
(* ("due") or "later".  Registration does not overlap Start and Stop: the  *)
(* engines start the thread before they create a channel and stop it after *)
(* the last one is gone.                                                   *)
(***************************************************************************)
EXTENDS Lists

CONSTANTS Modules, Callers,
          MaxCalls,        \* bound on the calls of all callers together
          MaxStarts        \* bound on the calls of Start

ASSUME ProcessThreadAssumption ==
    /\ Modules # {}
    /\ MaxCalls \in Nat /\ MaxStarts \in Nat

VARIABLES modules,         \* modules_
          queue,           \* queue_, the tasks as the caller that posted each
          stop, thread,    \* stop_, and whether thread_ is set
          event,           \* wake_up_, an auto-reset event
          lock,            \* holder of lock_, "none" or "worker"
          attached,        \* modules whose last notification was non-null
          worker, control, caller,
          calls            \* how many calls were made

vars == <<modules, queue, stop, thread, event, lock, attached, worker, control,
          caller, calls>>

NextCallback == {"query", "now", "due", "later"}

Registered == {modules[i].module : i \in DOMAIN modules}

\* A worker that does not exist, and one at the head of Process().
NoWorker == [pc |-> "none", i |-> 0, checkpoint |-> "far"]
AtHead == [NoWorker EXCEPT !.pc = "head"]

NoCall == [pc |-> "idle", module |-> CHOOSE m \in Modules : TRUE]

Init ==
    /\ modules = <<>> /\ queue = <<>>
    /\ stop = FALSE /\ thread = FALSE
    /\ event = FALSE
    /\ lock = "none"
    /\ attached = {}
    /\ worker = NoWorker
    /\ control = [pc |-> "idle", starts |-> 0]
    /\ caller = [c \in Callers |-> NoCall]
    /\ calls = 0

-----------------------------------------------------------------------------
(***************************************************************************)
(* The worker: Process(), called again and again until it returns false.   *)
(***************************************************************************)
\* Take lock_, test stop_.
BeginPass ==
    /\ worker.pc = "head" /\ lock = "none"
    /\ IF stop
       THEN worker' = [worker EXCEPT !.pc = "exited"] /\ lock' = lock
       ELSE worker' = [pc |-> "module", i |-> 1, checkpoint |-> "far"]
            /\ lock' = "worker"
    /\ UNCHANGED <<modules, queue, stop, thread, event, attached, control,
                   caller, calls>>

Sooner(a, b) ==
    IF "due" \in {a, b} THEN "due"
    ELSE IF "later" \in {a, b} THEN "later" ELSE "far"

\* A module that is not due, after it was asked if it has to be: it only
\* takes part in next_checkpoint.
SkipModule ==
    /\ worker.pc = "module" /\ worker.i \in DOMAIN modules
    /\ modules[worker.i].next \in {"query", "later"}
    /\ modules' = [modules EXCEPT ![worker.i].next = "later"]
    /\ worker' = [worker EXCEPT !.i = @ + 1,
                                !.checkpoint = Sooner(@, "later")]
    /\ UNCHANGED <<queue, stop, thread, event, lock, attached, control,
                   caller, calls>>

\* A module that is due, that asked to be called, or that says that it is due
\* when it is asked.
CallModule ==
    /\ worker.pc = "module" /\ worker.i \in DOMAIN modules
    /\ modules[worker.i].next \in {"query", "now", "due"}
    /\ worker' = [worker EXCEPT !.pc = "process"]
    /\ UNCHANGED <<modules, queue, stop, thread, event, lock, attached,
                   control,
                   caller, calls>>

\* m.module->Process() returns, and the module is asked for the next time.
ModuleReturns(next) ==
    /\ worker.pc = "process"
    /\ modules' = [modules EXCEPT ![worker.i].next = next]
    /\ worker' = [worker EXCEPT !.pc = "module", !.i = @ + 1,
                                !.checkpoint = Sooner(@, next)]
    /\ UNCHANGED <<queue, stop, thread, event, lock, attached, control,
                   caller, calls>>

EndModules ==
    /\ worker.pc = "module" /\ worker.i \notin DOMAIN modules
    /\ worker' = [worker EXCEPT !.pc = "tasks", !.i = 0]
    /\ UNCHANGED <<modules, queue, stop, thread, event, lock, attached,
                   control,
                   caller, calls>>

\* Pop a task and release lock_, or release it for good and wait, unless a
\* module is due again already.
NextTask ==
    /\ worker.pc = "tasks"
    /\ lock' = "none"
    /\ IF queue # <<>>
       THEN /\ queue' = Tail(queue)
            /\ worker' = [worker EXCEPT !.pc = "running"]
       ELSE /\ queue' = queue
            /\ worker' = [worker EXCEPT !.pc = IF worker.checkpoint = "due"
                                               THEN "pause" ELSE "wait"]
    /\ UNCHANGED <<modules, stop, thread, event, attached, control, caller,
                   calls>>

\* Mutant: one task per pass.
OneTaskPerPass ==
    /\ worker.pc = "running"
    /\ worker' = [worker EXCEPT !.pc = "wait"]
    /\ UNCHANGED <<modules, queue, stop, thread, event, lock, attached,
                   control,
                   caller, calls>>

\* task->Run() returns; lock_ is taken again.
TaskReturns ==
    /\ worker.pc = "running" /\ lock = "none"
    /\ lock' = "worker"
    /\ worker' = [worker EXCEPT !.pc = "tasks"]
    /\ UNCHANGED <<modules, queue, stop, thread, event, attached, control,
                   caller, calls>>

\* wake_up_->Wait(time_to_wait) sees the event, or the next module's time (or
\* one minute) comes.
WaitSignaled ==
    /\ worker.pc = "wait" /\ event
    /\ event' = FALSE
    /\ worker' = [worker EXCEPT !.pc = "pause"]
    /\ UNCHANGED <<modules, queue, stop, thread, lock, attached, control,
                   caller, calls>>
WaitTimedOut(checkpoint) ==
    /\ worker.pc = "wait" /\ ~event
    /\ worker.checkpoint = checkpoint
    /\ worker' = [worker EXCEPT !.pc = "pause"]
    /\ UNCHANGED <<modules, queue, stop, thread, event, lock, attached,
                   control,
                   caller, calls>>

\* wake_up_->Wait(10).
Pause ==
    /\ worker.pc = "pause"
    /\ event' = FALSE
    /\ worker' = AtHead
    /\ UNCHANGED <<modules, queue, stop, thread, lock, attached, control,
                   caller, calls>>

\* The time of a module comes.
TimePasses(i) ==
    /\ modules[i].next = "later"
    /\ worker.pc \notin {"module", "process"}
    /\ modules' = [modules EXCEPT ![i].next = "due"]
    /\ UNCHANGED <<queue, stop, thread, event, lock, attached, worker,
                   control,
                   caller, calls>>

-----------------------------------------------------------------------------
(***************************************************************************)
(* The other threads.  Each call is a section under lock_ and what comes   *)
(* before or after it.                                                     *)
(***************************************************************************)
Calling(c, pc, m) ==
    /\ caller[c].pc = "idle" /\ calls < MaxCalls
    /\ caller' = [caller EXCEPT ![c] = [pc |-> pc, module |-> m]]
    /\ calls' = calls + 1

Going(c, from, to) ==
    /\ caller[c].pc = from
    /\ caller' = [caller EXCEPT ![c].pc = to]
    /\ calls' = calls

\* Nobody else is registering or deregistering the module, and the thread is
\* not being started or stopped.
MayRegister(m) ==
    /\ control.pc = "idle"
    /\ \A d \in Callers : caller[d].pc \in {"push", "detach"} => caller[d].module # m

\* WakeUp.
WakeUp(c, m) ==
    /\ lock = "none"
    /\ Calling(c, "set", m)
    /\ modules' = [i \in DOMAIN modules |->
                      IF modules[i].module = m
                      THEN [modules[i] EXCEPT !.next = "now"] ELSE modules[i]]
    /\ UNCHANGED <<queue, stop, thread, event, lock, attached, worker,
                   control>>

\* PostTask.
PostTask(c) ==
    /\ lock = "none"
    /\ Calling(c, "set", caller[c].module)
    /\ queue' = Append(queue, c)
    /\ UNCHANGED <<modules, stop, thread, event, lock, attached, worker,
                   control>>

\* RegisterModule: the notification, ...
RegisterModule(c, m) ==
    /\ MayRegister(m) /\ m \notin Registered
    /\ Calling(c, "push", m)
    /\ attached' = IF thread THEN attached \cup {m} ELSE attached
    /\ UNCHANGED <<modules, queue, stop, thread, event, lock, worker,
                   control>>

\* ... the list, ...
PushModule(c) ==
    /\ lock = "none"
    /\ Going(c, "push", "set")
    /\ modules' = Append(modules, [module |-> caller[c].module, next |-> "query"])
    /\ UNCHANGED <<queue, stop, thread, event, lock, attached, worker,
                   control>>

\* Mutant: no event.
ReturnWithoutSet(c) ==
    /\ Going(c, "set", "idle")
    /\ UNCHANGED <<modules, queue, stop, thread, event, lock, attached,
                   worker,
                   control>>

\* ... and wake_up_->Set(), which ends WakeUp and PostTask as well.
SetWakeUp(c) ==
    /\ Going(c, "set", "idle")
    /\ event' = TRUE
    /\ UNCHANGED <<modules, queue, stop, thread, lock, attached, worker,
                   control>>

EntriesOf(m) == {e \in ToSet(modules) : e.module = m}

\* Mutant: the list is changed without the lock.
DeRegisterUnlocked(c, m) ==
    /\ MayRegister(m) /\ m \in Registered
    /\ Calling(c, "detach", m)
    /\ modules' = Without(modules, EntriesOf(m))
    /\ UNCHANGED <<queue, stop, thread, event, lock, attached, worker,
                   control>>

\* DeRegisterModule: the list and the notification.
DeRegisterModule(c, m) ==
    /\ lock = "none"
    /\ MayRegister(m) /\ m \in Registered
    /\ Calling(c, "detach", m)
    /\ modules' = Without(modules, EntriesOf(m))
    /\ UNCHANGED <<queue, stop, thread, event, lock, attached, worker,
                   control>>
NotifyDetached(c) ==
    /\ Going(c, "detach", "idle")
    /\ attached' = IF thread THEN attached \ {caller[c].module} ELSE attached
    /\ UNCHANGED <<modules, queue, stop, thread, event, lock, worker,
                   control>>

-----------------------------------------------------------------------------
NobodyRegisters ==
    \A c \in Callers :
        /\ caller[c].pc # "push"
        /\ caller[c].pc # "detach"

\* Start: notify the modules, create the thread.
Start ==
    /\ control.pc = "idle" /\ control.starts < MaxStarts
    /\ ~thread /\ NobodyRegisters
    /\ attached' = attached \cup Registered
    /\ thread' = TRUE
    /\ worker' = AtHead
    /\ control' = [control EXCEPT !.starts = @ + 1]
    /\ UNCHANGED <<modules, queue, stop, event, lock, caller, calls>>

\* Stop: stop_ under lock_, the event, the join, the notifications.
Stop ==
    /\ control.pc = "idle"
    /\ thread /\ NobodyRegisters
    /\ lock = "none"
    /\ stop' = TRUE
    /\ control' = [control EXCEPT !.pc = "set"]
    /\ UNCHANGED <<modules, queue, thread, event, lock, attached, worker,
                   caller, calls>>

\* Mutant: no event.
StopWithoutSet ==
    /\ control.pc = "set"
    /\ control' = [control EXCEPT !.pc = "join"]
    /\ UNCHANGED <<modules, queue, stop, thread, event, lock, attached,
                   worker,
                   caller, calls>>

StopSet ==
    /\ control.pc = "set"
    /\ event' = TRUE
    /\ control' = [control EXCEPT !.pc = "join"]
    /\ UNCHANGED <<modules, queue, stop, thread, lock, attached, worker,
                   caller, calls>>

\* Mutant: no notification.
JoinSilently ==
    /\ control.pc = "join" /\ worker.pc = "exited"
    /\ worker' = NoWorker
    /\ thread' = FALSE /\ stop' = FALSE
    /\ control' = [control EXCEPT !.pc = "idle"]
    /\ UNCHANGED <<modules, queue, event, lock, attached, caller, calls>>

Join ==
    /\ control.pc = "join" /\ worker.pc = "exited"
    /\ worker' = NoWorker
    /\ thread' = FALSE /\ stop' = FALSE
    /\ attached' = attached \ Registered
    /\ control' = [control EXCEPT !.pc = "idle"]
    /\ UNCHANGED <<modules, queue, event, lock, caller, calls>>

-----------------------------------------------------------------------------
WorkerStep ==
    \/ BeginPass
    \/ SkipModule
    \/ CallModule
    \/ \E next \in {"due", "later"} : ModuleReturns(next)
    \/ EndModules
    \/ NextTask
    \/ TaskReturns
    \/ WaitSignaled
    \/ WaitTimedOut("later")
    \/ Pause

CallerStep(c) ==
    \/ PushModule(c)
    \/ SetWakeUp(c)
    \/ NotifyDetached(c)

ControlStep == StopSet \/ Join

Next ==
    \/ WorkerStep
    \/ WaitTimedOut("far")
    \/ \E i \in DOMAIN modules : TimePasses(i)
    \/ \E c \in Callers :
          \/ CallerStep(c)
          \/ \E m \in Modules :
                WakeUp(c, m) \/ RegisterModule(c, m) \/ DeRegisterModule(c, m)
          \/ PostTask(c)
    \/ Start \/ Stop \/ ControlStep

Spec == Init /\ [][Next]_vars

\* The threads run on, and get lock_ although others want it too.  That a wait
\* ends after a minute is not needed and not assumed.
Fairness ==
    /\ WF_vars(WorkerStep)
    /\ SF_vars(BeginPass \/ TaskReturns)
    /\ \A c \in Callers : WF_vars(CallerStep(c)) /\ SF_vars(PushModule(c))
    /\ WF_vars(ControlStep)

FairSpec == Spec /\ Fairness

-----------------------------------------------------------------------------
\* Types.
TypeOK ==
    /\ modules \in Seq([module: Modules, next: NextCallback])
    /\ queue \in Seq(Callers)
    /\ stop \in BOOLEAN /\ thread \in BOOLEAN /\ event \in BOOLEAN
    /\ lock \in {"none", "worker"}
    /\ attached \subseteq Modules
    /\ worker \in [pc: {"none", "head", "module", "process", "tasks", "running",
                        "wait", "pause", "exited"},
                   i: 0 .. Len(modules) + 1,
                   checkpoint: {"due", "later", "far"}]
    /\ control \in [pc: {"idle", "set", "join"}, starts: 0 .. MaxStarts]
    /\ caller \in [Callers -> [pc: {"idle", "push", "set", "detach"},
                              module: Modules]]
    /\ calls \in 0 .. MaxCalls

\* While a thread is between its section under lock_ and its Set, or the event
\* is set, the worker may be asleep with work to do; otherwise not.
NoLostWakeup ==
    worker.pc = "wait" /\ ~event =>
        \/ \E c \in Callers : caller[c].pc = "set"
        \/ control.pc = "set"
        \/ /\ queue = <<>> /\ ~stop
           /\ \A i \in DOMAIN modules : modules[i].next \notin {"query", "now"}

\* Outside the calls that change it, exactly the modules of a running thread
\* are attached (module.h).
AttachedAgrees ==
    control.pc = "idle" /\ NobodyRegisters =>
        attached = IF thread THEN Registered ELSE {}

\* "After unregistration, we should not receive any further callbacks"
\* (process_thread_impl_unittest.cc:112).  Nobody changes the list while the
\* worker walks through it, so it is never in a module that has been removed and
\* a request to be called is never overwritten by the answer of the pass.
PassIsUndisturbed ==
    [][worker.pc \in {"module", "process"} =>
         /\ Len(modules') = Len(modules)
         /\ \A i \in DOMAIN modules :
               /\ modules'[i].module = modules[i].module
               /\ i # worker.i => modules'[i] = modules[i]]_vars

\* A posted task is run, unless the thread is stopped.
TasksRun == []<>(queue = <<>> \/ stop \/ ~thread)

\* A module that asks to be called is called, unless it is deregistered or the
\* thread is stopped.
WakeUpServed ==
    \A m \in Modules :
        []<>(\/ stop \/ ~thread
             \/ \A i \in DOMAIN modules :
                   modules[i].module = m => modules[i].next # "now")

\* Stop terminates.
StopReturns == control.pc = "join" ~> control.pc = "idle"
=============================================================================
