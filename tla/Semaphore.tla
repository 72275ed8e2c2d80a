----------------------------- MODULE Semaphore -----------------------------
(***************************************************************************)
(* pico_sync semaphores (pico_sync/sem.c): a count of permits between 0    *)
(* and max_permits.  Threads acquire, with or without a deadline, try,     *)
(* release and reset; interrupt handlers do all but block.  The count is   *)
(* loaded in one step and stored in another, so that what protects it is   *)
(* the spin lock.                                                          *)
(***************************************************************************)
EXTENDS LockCore, Integers

CONSTANTS
  InitialPermits,  \* InitialPermits[s], MaxPermits[s]: the arguments of
  MaxPermits       \* sem_init

PermitLimit == 32767  \* permits and max_permits are int16_t

ASSUME SemaphoreAssumption ==
  /\ MaxPermits \in [Objects -> 0..PermitLimit]
  /\ InitialPermits \in [Objects -> Nat]
  /\ \A s \in Objects : InitialPermits[s] <= MaxPermits[s]

VARIABLES
  permits,  \* permits[s]
  seen,     \* seen[x]: the count that context x loaded
  taken,    \* history: taken[x][s]: permits granted to x
  given     \* history: given[x][s]: permits x released

history == <<taken, given>>
vars == <<coreVars, permits, seen, history>>

Blocking == {"acquire", "until"}
Acquiring == Blocking \cup {"try"}
Ops == Acquiring \cup {"release", "reset"}

TypeOK ==
  /\ CoreTypeOK(Ops)
  /\ \A s \in Objects : permits[s] \in 0..MaxPermits[s]
  /\ DOMAIN permits = Objects
  /\ seen \in [Contexts -> Nat]
  /\ taken \in [Contexts -> [Objects -> Nat]]
  /\ given \in [Contexts -> [Objects -> Nat]]

Init ==
  /\ CoreInit
  /\ permits = InitialPermits
  /\ seen = [x \in Contexts |-> 0]
  /\ taken = [x \in Contexts |-> [s \in Objects |-> 0]]
  /\ given = [x \in Contexts |-> [s \in Objects |-> 0]]

Call(x, s, op) ==
  /\ SpendCall(x)
  /\ BeginCall(x, [op |-> op, obj |-> s], op = "until")
  /\ UNCHANGED <<permits, seen, history>>

\* The load of sem->permits under the spin lock.
LoadPermits(x) ==
  /\ Load(x)
  /\ seen' = [seen EXCEPT ![x] = permits[req[x].obj]]
  /\ UNCHANGED <<permits, history>>

Deciding(x, ops) == pc[x] = "loaded" /\ req[x].op \in ops
Forget(x) == seen' = [seen EXCEPT ![x] = 0]

\* sem_acquire_blocking, sem_acquire_block_until and sem_try_acquire with a
\* permit available.
Acquired(x) ==
  /\ Deciding(x, Acquiring) /\ seen[x] > 0
  /\ permits' = [permits EXCEPT ![req[x].obj] = seen[x] - 1]
  /\ taken' = [taken EXCEPT ![x][req[x].obj] = @ + 1]
  /\ SpinUnlock(x, "idle")
  /\ Forget(x) /\ UNCHANGED given

\* ... and with none: try gives up, the others wait.
Refused(x) ==
  /\ Deciding(x, Acquiring) /\ seen[x] = 0
  /\ SpinUnlock(x, CASE req[x].op = "acquire" -> "wfe"
                     [] req[x].op = "until" -> "timed"
                     [] OTHER -> "idle")
  /\ Forget(x) /\ UNCHANGED <<permits, history>>

HasRoom(s, count) == count < MaxPermits[s]

\* unlock with notify, whatever the count was.
Released(x) ==
  /\ Deciding(x, {"release"}) /\ HasRoom(req[x].obj, seen[x])
  /\ permits' = [permits EXCEPT ![req[x].obj] = seen[x] + 1]
  /\ given' = [given EXCEPT ![x][req[x].obj] = @ + 1]
  /\ SpinUnlock(x, "sev")
  /\ Forget(x) /\ UNCHANGED taken

ReleaseRefused(x) ==
  /\ Deciding(x, {"release"}) /\ ~HasRoom(req[x].obj, seen[x])
  /\ SpinUnlock(x, "idle")
  /\ Forget(x) /\ UNCHANGED <<permits, history>>

\* Mutant: the comparison of sem_reset the other way round.
LowersCount(p, count) == p < count

\* sem_reset notifies only when it makes permits available.
RaisesCount(p, count) == p > count

\* The argument of sem_reset is chosen here: nothing depends on it before.
Reset(x) ==
  /\ Deciding(x, {"reset"})
  /\ \E p \in 0..MaxPermits[req[x].obj] :
       /\ permits' = [permits EXCEPT ![req[x].obj] = p]
       /\ SpinUnlock(x, IF RaisesCount(p, seen[x]) THEN "sev" ELSE "idle")
  /\ Forget(x) /\ UNCHANGED history

Step(x) ==
  \/ LoadPermits(x)
  \/ Acquired(x) \/ Refused(x) \/ Released(x) \/ ReleaseRefused(x) \/ Reset(x)
  \/ CoreStep(x) /\ UNCHANGED <<permits, seen, history>>

HandlerStep(c) ==
  (IrqEnter(c) \/ IrqExit(c)) /\ UNCHANGED <<permits, seen, history>>

TimePasses(x) ==
  (TimeReached(x) \/ AlarmFires(x)) /\ UNCHANGED <<permits, seen, history>>

\* A handler does not block.
Client(x) ==
  \E s \in Objects, op \in Ops :
    (IsHandler(x) => op \notin Blocking) /\ Call(x, s, op)

Next ==
  \/ \E x \in Contexts : Step(x) \/ TimePasses(x) \/ Client(x)
  \/ \E c \in Cores : HandlerStep(c)

Spec == Init /\ [][Next]_vars

\* The processors run, time passes and interrupt handlers return; that
\* anybody releases a permit is not assumed.
Fairness ==
  /\ \A x \in Contexts : WF_vars(Step(x)) /\ WF_vars(TimePasses(x))
  /\ \A c \in Cores : WF_vars(IrqExit(c) /\ UNCHANGED <<permits, seen, history>>)

FairSpec == Spec /\ Fairness
-----------------------------------------------------------------------------
(* Properties *)

\* The implementation is an atomic counter: no grant and no release of
\* sem.c is lost or counted twice.
Abs == INSTANCE AbstractSemaphore
AbstractSpec == Abs!Spec

\* A thread that waits while permits are available has its wake-up ahead
\* of it: the event register of its core is set, or a SEV is about to be
\* executed.  Threads of both cores may wait for one permit, and sem_reset
\* may make several available at once.
NoLostWakeup ==
  \A x \in Contexts :
    pc[x] \in {"wfe", "timed", "twfe"} /\ permits[req[x].obj] > 0 =>
      event[CoreOf(x)] \/ \E y \in Contexts : pc[y] = "sev"

\* No call stays for ever inside sem.c while its semaphore has permits
\* (sem_acquire_blocking returns when a permit is available).
NoStrandedWaiter ==
  \A x \in Contexts :
    ~<>[](req[x] # NoCall /\ permits[req[x].obj] > 0)

\* Calls that cannot wait for ever return: timed acquires by their
\* deadline, try, release and reset on their own.
BoundedCallsReturn ==
  \A x \in Contexts :
    req[x] # NoCall /\ req[x].op # "acquire" ~> pc[x] = "idle"
=============================================================================
