------------------------------- MODULE Mutex -------------------------------
(***************************************************************************)
(* pico_sync mutexes: mutex_t and recursive_mutex_t (pico_sync/mutex.c).   *)
(* A mutex remembers the core that owns it; a recursive one also counts    *)
(* how often it was entered, in a uint8_t.  The load that a call decides   *)
(* on and the store it makes are separate steps, so that what protects     *)
(* them is the spin lock and nothing in the model.                         *)
(*                                                                         *)
(* The callers obey the rules of pico/mutex.h: a context exits only what   *)
(* it has entered; a handler only calls try_enter and exits before it      *)
(* returns; a thread does not block on a plain mutex it owns, nor on one   *)
(* mutex while it owns another.                                            *)
(***************************************************************************)
EXTENDS LockCore, Integers

CONSTANTS
  Recursive,  \* the objects that are recursive_mutex_t
  MaxNest,    \* bound: how often a context enters one recursive mutex
  NoOwner     \* LOCK_INVALID_OWNER_ID

EnterCountMod == 256  \* enter_count is a uint8_t

ASSUME MutexAssumption ==
  /\ Recursive \subseteq Objects
  /\ MaxNest \in Nat /\ 2 * MaxNest < EnterCountMod
  /\ NoOwner \notin Cores

VARIABLES
  owner,        \* owner[m]: the core that owns m, or NoOwner
  enter_count,  \* enter_count[m]: of a recursive mutex
  seen,         \* seen[x]: the owner that context x loaded
  nest          \* history: nest[x][m]: enters minus exits by x

vars == <<coreVars, owner, enter_count, seen, nest>>

Ops == {"enter", "try", "until", "exit"}

TypeOK ==
  /\ CoreTypeOK(Ops)
  /\ owner \in [Objects -> Cores \cup {NoOwner}]
  /\ enter_count \in [Objects -> 0..(EnterCountMod - 1)]
  /\ seen \in [Contexts -> Cores \cup {NoOwner}]
  /\ nest \in [Contexts -> [Objects -> 0..MaxNest]]

Init ==
  /\ CoreInit
  /\ owner = [m \in Objects |-> NoOwner]
  /\ enter_count = [m \in Objects |-> 0]
  /\ seen = [x \in Contexts |-> NoOwner]
  /\ nest = [x \in Contexts |-> [m \in Objects |-> 0]]

HoldsNothing(x) == \A m \in Objects : nest[x][m] = 0

MayBlockOn(x, m) ==
  /\ ~IsHandler(x)
  /\ \A n \in Objects \ {m} : nest[x][n] = 0
  /\ nest[x][m] = 0 \/ m \in Recursive

CallEnter(x, m, op) ==
  /\ op \in {"enter", "until"} => MayBlockOn(x, m)
  /\ nest[x][m] < MaxNest
  /\ SpendCall(x)
  /\ BeginCall(x, [op |-> op, obj |-> m], op = "until")
  /\ UNCHANGED <<owner, enter_count, seen, nest>>

CallExit(x, m) ==
  /\ nest[x][m] > 0
  /\ BeginCall(x, [op |-> "exit", obj |-> m], FALSE)
  /\ UNCHANGED <<left, owner, enter_count, seen, nest>>

\* The load of mtx->owner under the spin lock.
LoadOwner(x) ==
  /\ Load(x)
  /\ seen' = [seen EXCEPT ![x] = owner[req[x].obj]]
  /\ UNCHANGED <<owner, enter_count, nest>>

\* The loaded value is a local of the loop body.
Forget(x) == seen' = [seen EXCEPT ![x] = NoOwner]

\* Mutant: every mutex is entered recursively by its owner's core.
CanTakeOwned(x, m, o) == o = NoOwner \/ o = CoreOf(x)

\* The test of the enter functions: not owned, or (recursive) owned by the
\* calling core.
CanTake(x, m, o) == o = NoOwner \/ (m \in Recursive /\ o = CoreOf(x))

Take(x) ==
  LET m == req[x].obj IN
  /\ pc[x] = "loaded" /\ req[x].op # "exit"
  /\ CanTake(x, m, seen[x])
  /\ owner' = [owner EXCEPT ![m] = CoreOf(x)]
  /\ enter_count' = IF m \in Recursive
                    THEN [enter_count EXCEPT ![m] = (@ + 1) % EnterCountMod]
                    ELSE enter_count
  /\ nest' = [nest EXCEPT ![x][m] = @ + 1]
  /\ Forget(x)
  /\ SpinUnlock(x, "idle")

\* Owned by someone else: try_enter gives up, the others wait.
Refuse(x) ==
  /\ pc[x] = "loaded" /\ req[x].op # "exit"
  /\ ~CanTake(x, req[x].obj, seen[x])
  /\ SpinUnlock(x, CASE req[x].op = "enter" -> "wfe"
                     [] req[x].op = "until" -> "timed"
                     [] OTHER -> "idle")
  /\ Forget(x)
  /\ UNCHANGED <<owner, enter_count, nest>>

\* The exit that gives the mutex up: the only one of a plain mutex, the
\* outermost one of a recursive one.
LastExit(m) == m \in Recursive => enter_count[m] = 1

CountAfterLast(m) == 0

\* recursive_mutex_exit that leaves the mutex owned: no notification.
ExitInner(x) ==
  LET m == req[x].obj IN
  /\ pc[x] = "loaded" /\ req[x].op = "exit"
  /\ ~LastExit(m)
  /\ enter_count' = [enter_count EXCEPT ![m] = (@ - 1) % EnterCountMod]
  /\ nest' = [nest EXCEPT ![x][m] = @ - 1]
  /\ SpinUnlock(x, "idle")
  /\ Forget(x)
  /\ UNCHANGED owner

\* mutex_exit, and the last recursive_mutex_exit: unlock with notify.
ExitLast(x) ==
  LET m == req[x].obj IN
  /\ pc[x] = "loaded" /\ req[x].op = "exit"
  /\ LastExit(m)
  /\ owner' = [owner EXCEPT ![m] = NoOwner]
  /\ enter_count' = [enter_count EXCEPT ![m] = CountAfterLast(m)]
  /\ nest' = [nest EXCEPT ![x][m] = @ - 1]
  /\ Forget(x)
  /\ SpinUnlock(x, "sev")

\* A handler returns only after it has exited what it entered.
HandlerStep(c) ==
  /\ \/ IrqEnter(c)
     \/ HoldsNothing(Handler(c)) /\ IrqExit(c)
  /\ UNCHANGED <<owner, enter_count, seen, nest>>

Step(x) ==
  \/ LoadOwner(x) \/ Take(x) \/ Refuse(x) \/ ExitInner(x) \/ ExitLast(x)
  \/ CoreStep(x) /\ UNCHANGED <<owner, enter_count, seen, nest>>

TimePasses(x) ==
  (TimeReached(x) \/ AlarmFires(x)) /\ UNCHANGED <<owner, enter_count, seen, nest>>

Client(x) ==
  \E m \in Objects :
    \/ CallExit(x, m)
    \/ \E op \in {"enter", "try", "until"} :
         (IsHandler(x) => op = "try") /\ CallEnter(x, m, op)

Next ==
  \/ \E x \in Contexts : Step(x) \/ TimePasses(x) \/ Client(x)
  \/ \E c \in Cores : HandlerStep(c)

Spec == Init /\ [][Next]_vars

\* The processors run, time passes, interrupt handlers return, and an owner
\* eventually exits what it entered.  Nothing is assumed of who wins a spin
\* lock that two cores poll.
Fairness ==
  /\ \A x \in Contexts :
       /\ WF_vars(Step(x))
       /\ WF_vars(TimePasses(x))
       /\ WF_vars(\E m \in Objects : CallExit(x, m))
  /\ \A c \in Cores : WF_vars(HoldsNothing(Handler(c)) /\ HandlerStep(c))

FairSpec == Spec /\ Fairness
-----------------------------------------------------------------------------
(* Properties *)

\* The implementation is an atomic mutex: what each context has entered
\* changes only as AbstractMutex allows.
Abs == INSTANCE AbstractMutex
AbstractSpec == Abs!Spec

\* Contexts that have entered m and not exited it: a plain mutex has at
\* most one, and those of a recursive mutex are on one core
\* (mutex_enter_blocking, recursive_mutex_enter_blocking: "on return the
\* caller owns the mutex").
MutualExclusion ==
  \A m \in Objects : \A x, y \in Contexts :
    nest[x][m] > 0 /\ nest[y][m] > 0 =>
      /\ owner[m] = CoreOf(x)
      /\ CoreOf(x) = CoreOf(y)
      /\ m \notin Recursive => x = y

\* A thread that waits for a mutex nobody owns has its wake-up ahead of
\* it: the event register of its core is set, or a SEV is about to be
\* executed (lock_core.h: the wait never misses a notification that comes
\* after the unlock).
NoLostWakeup ==
  \A x \in Contexts :
    pc[x] \in {"wfe", "timed", "twfe"} /\ owner[req[x].obj] = NoOwner =>
      event[CoreOf(x)] \/ \E y \in Contexts : pc[y] = "sev"

\* The asserts of mutex_exit and recursive_mutex_exit.
ExitAsserts ==
  \A x \in Contexts :
    pc[x] = "loaded" /\ req[x].op = "exit" =>
      /\ seen[x] # NoOwner
      /\ req[x].obj \in Recursive => enter_count[req[x].obj] # 0

\* Every call of a mutex function returns: blocked callers are granted the
\* mutex once its owners exit, timed ones give up at the deadline at the
\* latest.
EveryCallReturns ==
  \A x \in Contexts : pc[x] \notin {"off", "idle"} ~> pc[x] = "idle"
=============================================================================
