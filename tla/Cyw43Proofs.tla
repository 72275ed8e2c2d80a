---------------------------- MODULE Cyw43Proofs ----------------------------
(***************************************************************************)
(* Proofs about Cyw43, for any number of cores, any nesting and budget.    *)
(* The properties follow from an invariant that says, for every context,   *)
(* where it may stand with what in its hands (PlaceInv), who accounts for  *)
(* the mutex (MutexInv), and that a function about to be stored is the     *)
(* cyw43_poll of now except in the hands of the host-wake handler          *)
(* (FreshInv, StaleInv).                                                   *)
(***************************************************************************)
EXTENDS Cyw43, TLAPS

Stages == {"off", "idle", "load", "store", "notify", "release", "scan", "clear", "call", "hook"}
Scheduling == {"load", "store", "notify"}
Args == [slot : Slots \cup {"none"}, f : Functions, next : Stages]

\* TypeOK, with the variables it does not name.
TypeInv ==
  /\ TypeOK
  /\ arg \in [Contexts -> Args]
  /\ owed \in [Slots -> BOOLEAN]

\* What a slot may hold.
Fits(s, f) == f \in (IF s = "CYW43" THEN {"null", "poll"} ELSE {"null", "worker"})

\* The stages a context of each kind has.
StagesOf(x) ==
  CASE x = Low -> Stages \ {"idle"}
    [] x = Gpio -> {"off", "load", "store", "notify"}
    [] x = Alarm -> {"off", "store", "notify"}
    [] OTHER -> {"idle", "load", "store", "notify", "release"}

\* Where context x may stand, and what it has in its hands there.
Place(x) ==
  /\ pc[x] \in StagesOf(x)
  /\ pc[x] \in Scheduling => arg[x].next \in StagesOf(x) \ {"load", "store", "notify", "scan", "clear", "call"}
  /\ x = Low /\ pc[x] \in Scheduling => arg[x].next # "off"
  /\ pc[x] = "load" => arg[x].slot = "CYW43"
  /\ pc[x] = "store" => IF x = Alarm THEN arg[x].slot = "ADAPTER" /\ arg[x].f = "worker"
                                     ELSE arg[x].slot = "CYW43" /\ arg[x].f \in {"null", "poll"}
  /\ pc[x] = "scan" => arg[x].slot \in Slots
  /\ pc[x] \in {"clear", "call"} =>
       arg[x].slot \in Slots /\ arg[x].f # "null" /\ Fits(arg[x].slot, arg[x].f)
  /\ arg[x].next = "hook" => pc[x] \in {"store", "notify", "hook"}

PlaceInv == \A x \in Contexts : Place(x)

\* The driver is owed a poll only while it is up.
SlotInv ==
  /\ \A s \in Slots : Fits(s, slots[s])
  /\ owed["CYW43"] => cyw43_poll = "poll"

\* Who holds the mutex, and how often; a thread in the middle of a call is
\* inside the driver.
MutexInv ==
  /\ Active(Low) => owner = cyw43_core_num /\ enter_count = 1
                    /\ \A t \in Threads : nest[t] = 0
  /\ \A t \in Threads : nest[t] > 0 => owner = CoreOf(t) /\ enter_count = nest[t]
  /\ (enter_count = 0) <=> (owner = NoOwner)
  /\ \A t \in Threads : owner = CoreOf(t) /\ ~Active(Low) => enter_count = nest[t]
  /\ \A t \in Threads : pc[t] # "idle" => nest[t] > 0

\* Who is inside the driver, or the driver's own handler, stores what
\* cyw43_poll is: nobody starts or stops the driver meanwhile.
FreshInv ==
  \A x \in Contexts \ {Gpio, Alarm} : pc[x] = "store" => arg[x].f = cyw43_poll

\* The host-wake handler may store a NULL from before the driver's start, but
\* then the start was on the other core, which forces the handler once more.
StaleInv ==
  pc[Gpio] = "store" /\ arg[Gpio].f = "null" /\ cyw43_poll = "poll" =>
    \/ ForceAhead
    \/ \E t \in Threads : CoreOf(t) # cyw43_core_num /\ pc[t] = "store"

\* Work for slot s is there, in somebody's hands or on its way.
Kept(s) == slots[s] # "null" \/ InHand(s) \/ OnItsWay(s)

\* NoWorkLost, and the alarm's work does not depend on the host-wake handler.
WorkInv ==
  /\ owed["ADAPTER"] => Kept("ADAPTER")
  /\ owed["CYW43"] => Kept("CYW43") \/ ForceAhead

IndInv ==
  /\ TypeInv /\ PlaceInv /\ SlotInv /\ MutexInv
  /\ FreshInv /\ StaleInv /\ WorkInv /\ HostWakeHeard
-----------------------------------------------------------------------------
(* Contexts, cores and priorities *)

\* The contexts are distinct.
LEMMA Kinds ==
  /\ Threads \subseteq Contexts /\ Low \in Contexts /\ Gpio \in Contexts /\ Alarm \in Contexts
  /\ \A x \in Contexts : x \in Threads \/ x = Low \/ x = Gpio \/ x = Alarm
  /\ Low \notin Threads /\ Gpio \notin Threads /\ Alarm \notin Threads
  /\ Low # Gpio /\ Low # Alarm /\ Gpio # Alarm
<1>1. /\ Threads \subseteq Contexts /\ Low \in Contexts /\ Gpio \in Contexts /\ Alarm \in Contexts
      /\ \A x \in Contexts : x \in Threads \/ x = Low \/ x = Gpio \/ x = Alarm
  BY DEF Contexts, Handlers
<1>2. Low \notin Threads /\ Gpio \notin Threads /\ Alarm \notin Threads
  BY DEF Threads, Low, Gpio, Alarm
<1>3. Low # Gpio /\ Low # Alarm /\ Gpio # Alarm
  BY DEF Low, Gpio, Alarm
<1> QED
  BY <1>1, <1>2, <1>3

\* Where the contexts run; a core has one thread.
LEMMA Placement ==
  /\ \A t \in Threads : CoreOf(t) \in Cores
  /\ \A t, u \in Threads : CoreOf(t) = CoreOf(u) => t = u
  /\ CoreOf(Low) = cyw43_core_num /\ CoreOf(Gpio) = cyw43_core_num
<1>1. \A t \in Threads : CoreOf(t) = t[1]
  BY Kinds DEF CoreOf
<1>2. \A t, u \in Threads : t[1] = u[1] => t = u
  BY DEF Threads
<1>3. \A t \in Threads : t[1] \in Cores
  BY DEF Threads
<1>4. CoreOf(Low) = cyw43_core_num /\ CoreOf(Gpio) = cyw43_core_num
  BY Kinds DEF CoreOf
<1> QED
  BY <1>1, <1>2, <1>3, <1>4

\* The core of a context never changes.
LEMMA PlacementStays ==
  ASSUME UNCHANGED cyw43_core_num
  PROVE  \A x : CoreOf(x)' = CoreOf(x)
  BY DEF CoreOf

\* A handler that is active keeps the threads of its core from running, and
\* the host-wake handler keeps Low.
LEMMA Preempted ==
  ASSUME NEW t \in Threads, Running(t)
  PROVE  /\ Active(Low) => CoreOf(t) # cyw43_core_num
         /\ Active(Gpio) => CoreOf(t) # cyw43_core_num
<1>1. Priority(t) = 0 /\ Priority(Low) = 1 /\ Priority(Gpio) = 3
  BY Kinds DEF Priority
<1>2. Low \in Handlers /\ Gpio \in Handlers
  BY DEF Handlers
<1> QED
  BY <1>1, <1>2, Placement DEF Running

LEMMA LowPreempted ==
  ASSUME Running(Low)
  PROVE  ~Active(Gpio)
<1>1. Priority(Low) = 1 /\ Priority(Gpio) = 3
  BY Kinds DEF Priority
<1>2. Gpio \in Handlers
  BY DEF Handlers
<1> QED
  BY <1>1, <1>2, Placement DEF Running

\* Every context may stand where a dispatch is stored; only the host-wake
\* handler, Low and threads load cyw43_poll.
LEMMA KindStages ==
  /\ StagesOf(Low) = Stages \ {"idle"}
  /\ StagesOf(Gpio) = {"off", "load", "store", "notify"}
  /\ StagesOf(Alarm) = {"off", "store", "notify"}
  /\ \A t \in Threads : StagesOf(t) = {"idle", "load", "store", "notify", "release"}
  /\ \A x \in Contexts : "store" \in StagesOf(x) /\ "notify" \in StagesOf(x)
<1>1. /\ StagesOf(Low) = Stages \ {"idle"}
      /\ StagesOf(Gpio) = {"off", "load", "store", "notify"}
      /\ StagesOf(Alarm) = {"off", "store", "notify"}
      /\ \A t \in Threads : StagesOf(t) = {"idle", "load", "store", "notify", "release"}
  BY Kinds DEF StagesOf
<1> QED
  BY <1>1, Kinds DEF Stages

LEMMA Names ==
  /\ "CYW43" \in Slots /\ "ADAPTER" \in Slots
  /\ \A s \in Slots : s = "CYW43" \/ s = "ADAPTER"
  BY DEF Slots

-----------------------------------------------------------------------------
(* Moving a context *)

\* No other context moves.
Only(x) == \A y \in Contexts \ {x} : pc'[y] = pc[y] /\ arg'[y] = arg[y]

Typed == pc \in [Contexts -> Stages] /\ arg \in [Contexts -> Args]

LEMMA TypedNow ==
  ASSUME IndInv
  PROVE  Typed
  BY DEF IndInv, TypeInv, TypeOK, Typed, Stages

LEMMA Going ==
  ASSUME Typed, NEW x \in Contexts, NEW g \in Stages, Goto(x, g)
  PROVE  Only(x) /\ Typed' /\ pc'[x] = g /\ arg' = arg
  BY DEF Typed, Goto, Only

LEMMA GoingWith ==
  ASSUME Typed, NEW x \in Contexts, NEW g \in Stages, NEW a \in Args, GotoWith(x, g, a)
  PROVE  Only(x) /\ Typed' /\ pc'[x] = g /\ arg'[x] = a
  BY DEF Typed, GotoWith, Only

LEMMA Staying ==
  ASSUME Typed, UNCHANGED <<pc, arg>>, NEW x
  PROVE  Only(x) /\ Typed'
  BY DEF Typed, Only

\* The records of arg, and what a change of their f leaves.
LEMMA NoArgRecord == NoArg \in Args /\ NoArg.slot = "none" /\ NoArg.next = "off"
  BY DEF NoArg, Args, Functions, Stages

LEMMA DispatchRecord ==
  ASSUME NEW s \in Slots, NEW f \in Functions, NEW n \in Stages
  PROVE  /\ Dispatch(s, f, n) \in Args
         /\ Dispatch(s, f, n).slot = s /\ Dispatch(s, f, n).f = f /\ Dispatch(s, f, n).next = n
  BY DEF Dispatch, Args

LEMMA ChangedRecord ==
  ASSUME NEW a \in Args, NEW f \in Functions
  PROVE  /\ [a EXCEPT !.f = f] \in Args
         /\ [a EXCEPT !.f = f].slot = a.slot /\ [a EXCEPT !.f = f].f = f
         /\ [a EXCEPT !.f = f].next = a.next
  BY DEF Args

\* TypeInv, for a step that moves contexts and changes nothing else, or
\* changes what the assumptions name.
Rest ==
  /\ slots \in [Slots -> Functions]
  /\ cyw43_poll \in {"null", "poll"} /\ cyw43_core_num \in Cores
  /\ pending \in [Cores -> BOOLEAN]
  /\ force \in BOOLEAN /\ enabled \in BOOLEAN /\ wake \in BOOLEAN
  /\ owner \in Cores \cup {NoOwner}
  /\ nest \in [Threads -> 0..MaxNest] /\ enter_count \in 0..(MaxNest + 1)
  /\ sem \in 0..1
  /\ owed \in [Slots -> BOOLEAN]

LEMMA TypeParts == TypeInv <=> Typed /\ Rest
<1>1. ASSUME arg \in [Contexts -> Args]
      PROVE  \A x \in Contexts : arg[x].slot \in Slots \cup {"none"} /\ arg[x].f \in Functions
  BY <1>1 DEF Args
<1> QED
  BY <1>1 DEF TypeInv, TypeOK, Typed, Rest, Stages

LEMMA TypePartsNext == TypeInv' <=> Typed' /\ Rest'
  BY TypeParts, PTL

-----------------------------------------------------------------------------
(* What a step leaves alone *)

LEMMA PlaceFrame ==
  ASSUME PlaceInv, NEW x \in Contexts, Only(x), Place(x)'
  PROVE  PlaceInv'
<1> SUFFICES ASSUME NEW y \in Contexts, y # x PROVE Place(y)'
  BY DEF PlaceInv
<1>1. pc'[y] = pc[y] /\ arg'[y] = arg[y] /\ Place(y)
  BY DEF Only, PlaceInv
<1> QED
  BY <1>1 DEF Place, StagesOf

LEMMA MutexFrame ==
  ASSUME MutexInv, NEW x \in Contexts, Only(x),
         UNCHANGED <<owner, enter_count, nest, cyw43_core_num>>,
         x = Low => (Active(Low)' <=> Active(Low)),
         x \in Threads /\ pc'[x] # "idle" => nest[x] > 0
  PROVE  MutexInv'
<1>1. Active(Low)' <=> Active(Low)
  BY Kinds DEF Only, Active
<1>2. \A t \in Threads : CoreOf(t)' = CoreOf(t)
  BY PlacementStays
<1>3. \A t \in Threads : pc'[t] # "idle" => nest'[t] > 0
  BY Kinds DEF Only, MutexInv
<1> QED
  BY <1>1, <1>2, <1>3 DEF MutexInv

LEMMA FreshFrame ==
  ASSUME FreshInv, NEW x \in Contexts, Only(x), UNCHANGED cyw43_poll,
         x \in {Gpio, Alarm} \/ pc'[x] # "store" \/ arg'[x].f = cyw43_poll
  PROVE  FreshInv'
  BY DEF FreshInv, Only

\* A step of x neither takes work away nor puts it down.
Quiet(x) ==
  /\ Only(x)
  /\ pc[x] \notin Scheduling
  /\ x = Low => pc[x] \notin {"clear", "call"}
  /\ force => force'
  /\ UNCHANGED <<slots, owed, cyw43_core_num>>

LEMMA QuietKept ==
  ASSUME NEW x \in Contexts, Quiet(x), NEW s \in Slots, cyw43_poll = "poll" => cyw43_poll' = "poll"
  PROVE  /\ OnItsWay(s) => OnItsWay(s)'
         /\ Kept(s) => Kept(s)'
         /\ ForceAhead => ForceAhead'
<1>1. ASSUME InHand(s) PROVE InHand(s)'
  BY <1>1, Kinds DEF InHand, Quiet, Only
<1>2. ASSUME OnItsWay(s) PROVE OnItsWay(s)'
  <2>1. PICK y \in Contexts : /\ arg[y].slot = s
                              /\ \/ pc[y] = "load" /\ cyw43_poll = "poll"
                                 \/ pc[y] = "store" /\ arg[y].f # "null"
    BY <1>2 DEF OnItsWay
  <2>2. pc'[y] = pc[y] /\ arg'[y] = arg[y]
    BY <2>1 DEF Quiet, Only, Scheduling
  <2> QED
    BY <2>1, <2>2 DEF OnItsWay
<1>3. ASSUME ForceAhead PROVE ForceAhead'
  <2>1. CASE force
    BY <2>1 DEF Quiet, ForceAhead
  <2>2. CASE ~force
    <3>1. PICK y \in Contexts : pc[y] = "notify" /\ CoreOf(y) # cyw43_core_num
      BY <1>3, <2>2 DEF ForceAhead
    <3>2. pc'[y] = "notify"
      BY <3>1 DEF Quiet, Only, Scheduling
    <3> QED
      BY <3>1, <3>2, PlacementStays DEF ForceAhead, Quiet
  <2> QED
    BY <2>1, <2>2
<1> QED
  BY <1>1, <1>2, <1>3 DEF Kept, Quiet

LEMMA QuietWork ==
  ASSUME WorkInv, NEW x \in Contexts, Quiet(x), cyw43_poll = "poll" => cyw43_poll' = "poll"
  PROVE  WorkInv'
  BY QuietKept, Names DEF WorkInv, Quiet

LEMMA QuietHeard ==
  ASSUME HostWakeHeard, NEW x \in Contexts, Quiet(x), UNCHANGED cyw43_poll,
         ~enabled' => ~enabled,
         x = Low => pc[Low] # "hook" /\ arg[Low].next # "hook"
  PROVE  HostWakeHeard'
<1>1. pc[Low] = "hook" \/ arg[Low].next = "hook" => pc'[Low] = "hook" \/ arg'[Low].next = "hook"
  BY Kinds DEF Quiet, Only
<1> QED
  BY <1>1, QuietKept, Names DEF HostWakeHeard, Quiet

LEMMA QuietStale ==
  ASSUME StaleInv, NEW x \in Contexts \ {Gpio}, Quiet(x), UNCHANGED cyw43_poll
  PROVE  StaleInv'
<1>1. pc'[Gpio] = pc[Gpio] /\ arg'[Gpio] = arg[Gpio]
  BY Kinds DEF Quiet, Only
<1>2. ForceAhead => ForceAhead'
  BY QuietKept, Names
<1>3. \A t \in Threads : pc[t] = "store" => pc'[t] = "store"
  BY Kinds DEF Quiet, Only, Scheduling
<1> QED
  BY <1>1, <1>2, <1>3, PlacementStays DEF StaleInv, Quiet

-----------------------------------------------------------------------------
(* Scheduling a dispatch *)

LEMMA LoadPollInd ==
  ASSUME IndInv, NEW x \in Contexts, LoadPoll(x)
  PROVE  IndInv'
<1>0. Typed /\ Rest /\ cyw43_poll \in Functions
  BY TypedNow, TypeParts DEF IndInv, Rest, Functions
<1>1. /\ Only(x) /\ Typed' /\ pc[x] = "load" /\ pc'[x] = "store"
      /\ arg'[x].slot = arg[x].slot /\ arg'[x].f = cyw43_poll /\ arg'[x].next = arg[x].next
  <2> DEFINE a == [arg[x] EXCEPT !.f = cyw43_poll]
  <2>1. arg[x] \in Args /\ "store" \in Stages
    BY <1>0 DEF Typed, Stages
  <2>2. a \in Args /\ a.slot = arg[x].slot /\ a.f = cyw43_poll /\ a.next = arg[x].next
    BY <1>0, <2>1, ChangedRecord
  <2>3. GotoWith(x, "store", a) /\ pc[x] = "load"
    BY DEF LoadPoll
  <2> HIDE DEF a
  <2> QED
    BY <1>0, <2>1, <2>2, <2>3, GoingWith
<1>2. UNCHANGED <<slots, cyw43_poll, cyw43_core_num, pending, force, enabled, wake, owner,
                  enter_count, nest, sem, left, owed>>
  BY DEF LoadPoll, irqVars, mutexVars
<1>3. Place(x) /\ arg[x].slot = "CYW43" /\ x # Alarm
  BY <1>1, Kinds DEF IndInv, PlaceInv, Place, StagesOf
<1>4. TypeInv'
  BY <1>0, <1>1, <1>2, TypePartsNext DEF Rest
<1>5. PlaceInv'
  <2>1. Place(x)'
    <3>1. arg'[x].f \in {"null", "poll"}
      BY <1>0, <1>1 DEF Rest
    <3> QED
      BY <1>1, <1>3, <3>1, KindStages DEF Place, Scheduling
  <2> QED
    BY <1>1, <2>1, PlaceFrame DEF IndInv
<1>6. SlotInv'
  BY <1>2 DEF SlotInv, IndInv
<1>7. MutexInv'
  BY <1>1, <1>2, MutexFrame, Kinds DEF IndInv, MutexInv, Active
<1>8. FreshInv'
  BY <1>1, <1>2, FreshFrame DEF IndInv
<1>9. ForceAhead => ForceAhead'
  BY <1>1, <1>2, PlacementStays DEF ForceAhead, Only
<1>10. \A s \in Slots : OnItsWay(s) => OnItsWay(s)'
  BY <1>1, <1>2 DEF OnItsWay, Only
<1>11. \A s \in Slots : InHand(s) => InHand(s)'
  BY <1>1, Kinds DEF InHand, Only
<1>12. StaleInv'
  <2>1. CASE x = Gpio
    BY <1>1, <1>2, <2>1 DEF StaleInv
  <2>2. CASE x # Gpio
    BY <1>1, <1>2, <1>9, <2>2, PlacementStays, Kinds DEF StaleInv, IndInv, Only
  <2> QED
    BY <2>1, <2>2
<1>13. WorkInv'
  BY <1>2, <1>9, <1>10, <1>11, Names DEF WorkInv, Kept, IndInv
<1>14. HostWakeHeard'
  BY <1>1, <1>2, <1>9, <1>10, Names, Kinds DEF HostWakeHeard, IndInv, Only
<1> QED
  BY <1>4, <1>5, <1>6, <1>7, <1>8, <1>12, <1>13, <1>14 DEF IndInv

\* A function of the wrong driver state is stored by the host-wake handler
\* only; then that handler is forced or the start's own store is still ahead.
LEMMA StoreInd ==
  ASSUME IndInv, NEW x \in Contexts, Store(x)
  PROVE  IndInv'
<1>0. Typed /\ Rest
  BY TypedNow, TypeParts DEF IndInv
<1>1. /\ Only(x) /\ Typed' /\ pc[x] = "store" /\ pc'[x] = "notify" /\ arg' = arg
  BY <1>0, Going DEF Store, Stages
<1>2. UNCHANGED <<cyw43_poll, cyw43_core_num, pending, force, enabled, wake, owner,
                  enter_count, nest, sem, left>>
  BY DEF Store, irqVars, mutexVars
<1>3. /\ Place(x)
      /\ x = Alarm => arg[x].slot = "ADAPTER" /\ arg[x].f = "worker"
      /\ x # Alarm => arg[x].slot = "CYW43" /\ arg[x].f \in {"null", "poll"}
  BY <1>1, Kinds DEF IndInv, PlaceInv, Place
<1>4. /\ slots' \in [Slots -> Functions] /\ owed' \in [Slots -> BOOLEAN]
      /\ slots'[arg[x].slot] = arg[x].f
      /\ \A s \in Slots : s # arg[x].slot => slots'[s] = slots[s] /\ owed'[s] = owed[s]
      /\ owed'[arg[x].slot] <=> owed[arg[x].slot] \/ arg[x].f = "worker"
                                 \/ (arg[x].f = "poll" /\ cyw43_poll = "poll")
  BY <1>0, <1>3, Names DEF Store, Rest, Functions
<1>5. TypeInv'
  BY <1>0, <1>1, <1>2, <1>4, TypePartsNext DEF Rest
<1>6. PlaceInv'
  <2>1. Place(x)'
    BY <1>1, <1>3, KindStages DEF Place, Scheduling
  <2> QED
    BY <1>1, <2>1, PlaceFrame DEF IndInv
<1>7. SlotInv'
  BY <1>2, <1>3, <1>4, Names DEF SlotInv, IndInv, Fits
<1>8. MutexInv'
  BY <1>1, <1>2, MutexFrame, Kinds DEF IndInv, MutexInv, Active
<1>9. FreshInv'
  BY <1>1, <1>2, FreshFrame DEF IndInv
<1>10. ForceAhead => ForceAhead'
  BY <1>1, <1>2, PlacementStays DEF ForceAhead, Only
<1>11. \A s \in Slots : InHand(s) => InHand(s)'
  BY <1>1, Kinds DEF InHand, Only
<1>12. \A s \in Slots : OnItsWay(s) => OnItsWay(s)' \/ (s = arg[x].slot /\ slots'[s] # "null")
  BY <1>1, <1>2, <1>4 DEF OnItsWay, Only
<1>13. StaleInv'
  <2>1. CASE x = Gpio
    BY <1>1, <2>1 DEF StaleInv
  <2>2. CASE x # Gpio
    <3>1. \A t \in Threads : CoreOf(t) # cyw43_core_num /\ pc[t] = "store" =>
             ForceAhead' \/ pc'[t] = "store"
      BY <1>1, <1>2, PlacementStays, Kinds DEF ForceAhead, Only
    <3> QED
      BY <1>1, <1>2, <1>10, <2>2, <3>1, PlacementStays, Kinds DEF StaleInv, IndInv, Only
  <2> QED
    BY <2>1, <2>2
<1>14. CASE x = Alarm
  <2>1. WorkInv'
    BY <1>2, <1>3, <1>4, <1>10, <1>11, <1>12, <1>14, Names DEF WorkInv, Kept, IndInv
  <2>2. HostWakeHeard'
    BY <1>1, <1>2, <1>3, <1>4, <1>10, <1>12, <1>14, Names, Kinds DEF HostWakeHeard, IndInv, Only
  <2> QED
    BY <1>5, <1>6, <1>7, <1>8, <1>9, <1>13, <2>1, <2>2 DEF IndInv
<1>15. CASE x # Alarm
  <2>1. arg[x].slot = "CYW43" /\ (cyw43_poll = "null" \/ arg[x].f = "poll" \/ x = Gpio)
    BY <1>0, <1>1, <1>3, <1>15 DEF IndInv, FreshInv, Rest
  <2>2. cyw43_poll = "poll" /\ arg[x].f # "poll" => OnItsWay("CYW43")' \/ ForceAhead'
    <3> SUFFICES ASSUME cyw43_poll = "poll", arg[x].f = "null", x = Gpio
                 PROVE  OnItsWay("CYW43")' \/ ForceAhead'
      BY <1>3, <1>15, <2>1
    <3>1. ForceAhead \/ \E t \in Threads : pc[t] = "store"
      BY <1>1 DEF IndInv, StaleInv
    <3>2. CASE ForceAhead
      BY <1>10, <3>2
    <3>3. ASSUME NEW t \in Threads, pc[t] = "store" PROVE OnItsWay("CYW43")'
      <4>1. t # x /\ t # Alarm /\ t # Gpio /\ t \in Contexts
        BY Kinds
      <4>2. arg[t].slot = "CYW43" /\ arg[t].f = "poll"
        BY <3>3, <4>1 DEF IndInv, PlaceInv, Place, FreshInv
      <4> QED
        BY <1>1, <3>3, <4>1, <4>2 DEF OnItsWay, Only
    <3> QED
      BY <3>1, <3>2, <3>3
  <2>3. WorkInv'
    BY <1>2, <1>3, <1>4, <1>10, <1>11, <1>12, <2>1, <2>2, Names DEF WorkInv, Kept, IndInv, SlotInv
  <2>4. HostWakeHeard'
    BY <1>2, <1>3, <1>4, <2>1, <2>2, Names DEF HostWakeHeard
  <2> QED
    BY <1>5, <1>6, <1>7, <1>8, <1>9, <1>13, <2>3, <2>4 DEF IndInv
<1> QED
  BY <1>14, <1>15

LEMMA NotifyInd ==
  ASSUME IndInv, NEW x \in Contexts, Notify(x)
  PROVE  IndInv'
<1>0. Typed /\ Rest /\ Place(x) /\ pc[x] = "notify"
  BY TypedNow, TypeParts DEF IndInv, PlaceInv, Notify
<1>1. /\ Only(x) /\ Typed' /\ pc'[x] = arg[x].next /\ pc'[x] \in StagesOf(x)
      /\ pc'[x] \notin {"load", "store", "notify", "scan", "clear", "call"}
      /\ x = Low => arg'[x].next = arg[x].next /\ pc'[x] # "off"
      /\ x # Low => arg'[x].next = "off"
  <2>1. arg[x].next \in StagesOf(x) \ {"load", "store", "notify", "scan", "clear", "call"}
    BY <1>0 DEF Place, Scheduling
  <2>2. x = Low => arg[x].next # "off"
    BY <1>0 DEF Place, Scheduling
  <2>3. arg[x] \in Args /\ arg[x].next \in Stages /\ "null" \in Functions
    BY <1>0 DEF Typed, Args, Functions
  <2>4. CASE x = Low
    <3> DEFINE a == [arg[x] EXCEPT !.f = "null"]
    <3>1. GotoWith(x, arg[x].next, a)
      BY <2>4 DEF Notify
    <3>2. a \in Args /\ a.next = arg[x].next
      BY <2>3, ChangedRecord
    <3> HIDE DEF a
    <3>3. Only(x) /\ Typed' /\ pc'[x] = arg[x].next /\ arg'[x] = a
      BY <1>0, <2>3, <3>1, <3>2, GoingWith
    <3> QED
      BY <2>1, <2>2, <2>4, <3>2, <3>3
  <2>5. CASE x # Low
    <3>1. GotoWith(x, arg[x].next, NoArg)
      BY <2>5 DEF Notify
    <3> QED
      BY <1>0, <2>1, <2>3, <2>5, <3>1, GoingWith, NoArgRecord
  <2> QED
    BY <2>4, <2>5
<1>2. UNCHANGED <<slots, cyw43_poll, cyw43_core_num, enabled, wake, owner,
                  enter_count, nest, sem, left, owed>>
  BY DEF Notify, mutexVars
<1>3. /\ pending' \in [Cores -> BOOLEAN] /\ force' \in BOOLEAN
      /\ force => force'
      /\ CoreOf(x) # cyw43_core_num => force'
  BY <1>0 DEF Notify, PendsDirectly, Rest
<1>4. TypeInv'
  BY <1>0, <1>1, <1>2, <1>3, TypePartsNext DEF Rest
<1>5. PlaceInv'
  <2>1. arg'[x].next = "hook" => pc'[x] = "hook"
    BY <1>0, <1>1 DEF Place, Scheduling
  <2>2. Place(x)'
    BY <1>1, <2>1 DEF Place, StagesOf, Scheduling
  <2> QED
    BY <1>1, <2>2, PlaceFrame DEF IndInv
<1>6. SlotInv'
  BY <1>2 DEF SlotInv, IndInv
<1>7. MutexInv'
  BY <1>0, <1>1, <1>2, MutexFrame, Kinds DEF IndInv, MutexInv, Active
<1>8. FreshInv'
  BY <1>1, <1>2, FreshFrame DEF IndInv
<1>9. ForceAhead => ForceAhead'
  BY <1>1, <1>2, <1>3, PlacementStays DEF ForceAhead, Only
<1>10. \A s \in Slots : OnItsWay(s) => OnItsWay(s)'
  BY <1>0, <1>1, <1>2 DEF OnItsWay, Only
<1>11. \A s \in Slots : InHand(s) => InHand(s)'
  BY <1>0, <1>1, Kinds DEF InHand, Only
<1>12. StaleInv'
  BY <1>0, <1>1, <1>2, <1>9, PlacementStays, Kinds DEF StaleInv, IndInv, Only
<1>13. WorkInv'
  BY <1>2, <1>9, <1>10, <1>11, Names DEF WorkInv, Kept, IndInv
<1>14. HostWakeHeard'
  BY <1>0, <1>1, <1>2, <1>9, <1>10, Names, Kinds DEF HostWakeHeard, IndInv, Only
<1> QED
  BY <1>4, <1>5, <1>6, <1>7, <1>8, <1>12, <1>13, <1>14 DEF IndInv

-----------------------------------------------------------------------------
(* The handlers *)

LEMMA AlarmEnterInd ==
  ASSUME IndInv, AlarmEnter
  PROVE  IndInv'
<1>0. Typed /\ Rest /\ pc[Alarm] = "off" /\ Alarm \in Contexts
  BY TypedNow, TypeParts, Kinds DEF IndInv, AlarmEnter, MayPreempt, Active
<1>1. /\ Only(Alarm) /\ Typed' /\ pc'[Alarm] = "store"
      /\ arg'[Alarm].slot = "ADAPTER" /\ arg'[Alarm].f = "worker" /\ arg'[Alarm].next = "off"
  <2> DEFINE a == Dispatch("ADAPTER", "worker", "off")
  <2>1. a \in Args /\ a.slot = "ADAPTER" /\ a.f = "worker" /\ a.next = "off" /\ "store" \in Stages
    BY DispatchRecord, Names DEF Functions, Stages
  <2>2. GotoWith(Alarm, "store", a)
    BY DEF AlarmEnter
  <2> HIDE DEF a
  <2> QED
    BY <1>0, <2>1, <2>2, GoingWith
<1>2. UNCHANGED <<slots, cyw43_poll, cyw43_core_num, pending, force, enabled, wake, owner,
                  enter_count, nest, sem, left, owed>>
  BY DEF AlarmEnter, irqVars, mutexVars
<1>3. TypeInv'
  BY <1>0, <1>1, <1>2, TypePartsNext DEF Rest
<1>4. PlaceInv'
  <2>1. Place(Alarm)'
    BY <1>1, KindStages, Kinds DEF Place, Scheduling
  <2> QED
    BY <1>0, <1>1, <2>1, PlaceFrame DEF IndInv
<1>5. SlotInv' /\ MutexInv' /\ FreshInv'
  BY <1>0, <1>1, <1>2, MutexFrame, FreshFrame, Kinds DEF IndInv, SlotInv
<1>6. Quiet(Alarm)
  BY <1>0, <1>1, <1>2, Kinds DEF Quiet, Scheduling
<1>7. WorkInv' /\ HostWakeHeard' /\ StaleInv'
  BY <1>0, <1>2, <1>6, QuietWork, QuietHeard, QuietStale, Kinds DEF IndInv
<1> QED
  BY <1>3, <1>4, <1>5, <1>7 DEF IndInv

\* What the force bit promised is now on its way.
LEMMA GpioEnterInd ==
  ASSUME IndInv, GpioEnter
  PROVE  IndInv'
<1>0. Typed /\ Rest /\ pc[Gpio] = "off" /\ Gpio \in Contexts
  BY TypedNow, TypeParts, Kinds DEF IndInv, GpioEnter, MayPreempt, Active
<1>1. /\ Only(Gpio) /\ Typed' /\ pc'[Gpio] = "load"
      /\ arg'[Gpio].slot = "CYW43" /\ arg'[Gpio].next = "off"
  <2> DEFINE a == Dispatch("CYW43", "null", "off")
  <2>1. a \in Args /\ a.slot = "CYW43" /\ a.next = "off" /\ "load" \in Stages
    BY DispatchRecord, Names DEF Functions, Stages
  <2>2. GotoWith(Gpio, "load", a)
    BY DEF GpioEnter
  <2> HIDE DEF a
  <2> QED
    BY <1>0, <2>1, <2>2, GoingWith
<1>2. UNCHANGED <<slots, cyw43_poll, cyw43_core_num, pending, wake, owner,
                  enter_count, nest, sem, left, owed>>
  BY DEF GpioEnter, irqVars, mutexVars
<1>3. enabled' = FALSE /\ force' = FALSE
  BY DEF GpioEnter
<1>4. TypeInv'
  BY <1>0, <1>1, <1>2, <1>3, TypePartsNext DEF Rest
<1>5. PlaceInv'
  <2>1. Place(Gpio)'
    BY <1>1, KindStages, Kinds DEF Place, Scheduling
  <2> QED
    BY <1>0, <1>1, <2>1, PlaceFrame DEF IndInv
<1>6. SlotInv' /\ MutexInv' /\ FreshInv' /\ StaleInv'
  BY <1>0, <1>1, <1>2, MutexFrame, FreshFrame, Kinds DEF IndInv, SlotInv, StaleInv
<1>7. \A s \in Slots : Kept(s) => Kept(s)'
  BY <1>0, <1>1, <1>2, Kinds DEF Kept, InHand, OnItsWay, Only
<1>8. cyw43_poll = "poll" => OnItsWay("CYW43")'
  BY <1>0, <1>1, <1>2 DEF OnItsWay
<1>9. WorkInv' /\ HostWakeHeard'
  BY <1>2, <1>7, <1>8, Names DEF WorkInv, HostWakeHeard, Kept, IndInv, SlotInv
<1> QED
  BY <1>4, <1>5, <1>6, <1>9 DEF IndInv

\* The handler enters a mutex that nobody is inside.
LEMMA LowEnterInd ==
  ASSUME IndInv, LowEnter
  PROVE  IndInv'
<1>0. Typed /\ Rest /\ pc[Low] = "off" /\ Low \in Contexts /\ Place(Low)
  BY TypedNow, TypeParts, Kinds DEF IndInv, LowEnter, LowTaken, MayPreempt, Active, PlaceInv
<1>1. /\ Only(Low) /\ Typed' /\ pc'[Low] = "scan"
      /\ arg'[Low].slot = "CYW43" /\ arg'[Low].next = "off"
  <2> DEFINE a == Dispatch("CYW43", "null", "off")
  <2>1. a \in Args /\ a.slot = "CYW43" /\ a.next = "off" /\ "scan" \in Stages
    BY DispatchRecord, Names DEF Functions, Stages
  <2>2. GotoWith(Low, "scan", a)
    BY DEF LowEnter
  <2> HIDE DEF a
  <2> QED
    BY <1>0, <2>1, <2>2, GoingWith
<1>2. UNCHANGED <<slots, cyw43_poll, cyw43_core_num, force, enabled, wake, nest, sem, left, owed>>
  BY DEF LowEnter
<1>3. pending' \in [Cores -> BOOLEAN] /\ owner' = cyw43_core_num /\ enter_count' = 1 /\ enter_count = 0
  BY <1>0 DEF LowEnter, EnteredAlone, Rest
<1>4. \A t \in Threads : nest[t] = 0
  BY <1>0, <1>3, Cyw43Assumption, Placement DEF IndInv, MutexInv, Rest
<1>5. TypeInv'
  BY <1>0, <1>1, <1>2, <1>3, TypePartsNext, Cyw43Assumption DEF Rest
<1>6. PlaceInv'
  <2>1. Place(Low)'
    BY <1>1, KindStages, Kinds, Names DEF Place, Scheduling, Stages
  <2> QED
    BY <1>0, <1>1, <2>1, PlaceFrame DEF IndInv
<1>7. MutexInv'
  <2>1. \A t \in Threads : pc'[t] = pc[t] /\ pc[t] = "idle"
    BY <1>1, <1>4, Kinds DEF IndInv, MutexInv, Only
  <2>2. cyw43_core_num # NoOwner
    BY <1>0, Cyw43Assumption DEF Rest
  <2> QED
    BY <1>1, <1>2, <1>3, <1>4, <2>1, <2>2 DEF MutexInv, Active
<1>8. SlotInv' /\ FreshInv'
  BY <1>0, <1>1, <1>2, FreshFrame DEF IndInv, SlotInv
<1>9. Quiet(Low)
  BY <1>0, <1>1, <1>2, Kinds DEF Quiet, Scheduling
<1>10. arg[Low].next # "hook"
  BY <1>0 DEF Place
<1>11. WorkInv' /\ HostWakeHeard' /\ StaleInv'
  BY <1>0, <1>2, <1>9, <1>10, QuietWork, QuietHeard, QuietStale, Kinds DEF IndInv
<1> QED
  BY <1>5, <1>6, <1>7, <1>8, <1>11 DEF IndInv

LEMMA LowMissedInd ==
  ASSUME IndInv, LowMissed
  PROVE  IndInv'
<1>0. Typed /\ Rest /\ pc[Low] = "off" /\ Low \in Contexts /\ Place(Low)
  BY TypedNow, TypeParts, Kinds DEF IndInv, LowMissed, LowTaken, MayPreempt, Active, PlaceInv
<1>1. Only(Low) /\ Typed' /\ pc' = pc /\ arg' = arg
  BY <1>0, Staying DEF LowMissed
<1>2. UNCHANGED <<slots, cyw43_poll, cyw43_core_num, force, enabled, wake, owner, enter_count, nest, left, owed>>
  BY DEF LowMissed, mutexVars
<1>3. pending' \in [Cores -> BOOLEAN] /\ sem' \in 0..1
  BY <1>0 DEF LowMissed, Rest
<1>4. TypeInv'
  BY <1>0, <1>1, <1>2, <1>3, TypePartsNext DEF Rest
<1>5. PlaceInv'
  BY <1>1 DEF PlaceInv, Place, StagesOf, IndInv
<1>6. SlotInv' /\ MutexInv' /\ FreshInv'
  BY <1>0, <1>1, <1>2, MutexFrame, FreshFrame, Kinds DEF IndInv, SlotInv, Active
<1>7. Quiet(Low)
  BY <1>0, <1>1, <1>2, Kinds DEF Quiet, Scheduling
<1>8. arg[Low].next # "hook"
  BY <1>0 DEF Place
<1>9. WorkInv' /\ HostWakeHeard' /\ StaleInv'
  BY <1>0, <1>2, <1>7, <1>8, QuietWork, QuietHeard, QuietStale, Kinds DEF IndInv
<1> QED
  BY <1>4, <1>5, <1>6, <1>9 DEF IndInv

\* Where the loop over the slots goes on.
LEMMA NextSlotMoves ==
  ASSUME Typed, NextSlot
  PROVE  /\ Only(Low) /\ Typed' /\ pc'[Low] \in {"scan", "release"}
         /\ arg'[Low].next = "off" /\ (pc'[Low] = "scan" => arg'[Low].slot \in Slots)
<1>1. "ADAPTER" \in Slots /\ "null" \in Functions /\ {"off", "scan", "release"} \subseteq Stages
  BY Names DEF Functions, Stages
<1>2. CASE arg[Low].slot = "CYW43"
  <2> DEFINE a == Dispatch("ADAPTER", "null", "off")
  <2>1. a \in Args /\ a.slot = "ADAPTER" /\ a.next = "off"
    BY <1>1, DispatchRecord
  <2>2. GotoWith(Low, "scan", a)
    BY <1>2 DEF NextSlot
  <2> HIDE DEF a
  <2> QED
    BY <1>1, <2>1, <2>2, GoingWith, Kinds
<1>3. CASE arg[Low].slot # "CYW43"
  <2>1. GotoWith(Low, "release", NoArg)
    BY <1>3 DEF NextSlot
  <2> QED
    BY <1>1, <2>1, GoingWith, NoArgRecord, Kinds
<1> QED
  BY <1>2, <1>3

\* Wherever Low goes without leaving its handler, these parts stay.
LEMMA LowMoves ==
  ASSUME IndInv, Only(Low), pc[Low] # "off", pc'[Low] # "off",
         UNCHANGED <<cyw43_poll, cyw43_core_num, owner, enter_count, nest>>,
         pc'[Low] # "store" \/ arg'[Low].f = cyw43_poll
  PROVE  MutexInv' /\ FreshInv'
  BY MutexFrame, FreshFrame, Kinds DEF IndInv, Active

LEMMA LowScanInd ==
  ASSUME IndInv, LowScan
  PROVE  IndInv'
<1>0. Typed /\ Rest /\ pc[Low] = "scan" /\ Low \in Contexts /\ Place(Low)
  BY TypedNow, TypeParts, Kinds DEF IndInv, LowScan, PlaceInv
<1>1. arg[Low].slot \in Slots /\ slots[arg[Low].slot] \in Functions /\ arg[Low] \in Args
      /\ Fits(arg[Low].slot, slots[arg[Low].slot]) /\ arg[Low].next # "hook"
  BY <1>0 DEF Place, Rest, Typed, IndInv, SlotInv
<1>2. /\ Only(Low) /\ Typed' /\ pc'[Low] \in {"scan", "release", "clear"} /\ arg'[Low].next # "hook"
      /\ pc'[Low] # "release" => arg'[Low].slot \in Slots
      /\ pc'[Low] = "clear" => Fits(arg'[Low].slot, arg'[Low].f) /\ arg'[Low].f # "null"
  <2>1. CASE slots[arg[Low].slot] = "null"
    BY <1>0, <2>1, NextSlotMoves DEF LowScan
  <2>2. CASE slots[arg[Low].slot] # "null"
    <3> DEFINE a == [arg[Low] EXCEPT !.f = slots[arg[Low].slot]]
    <3>1. a \in Args /\ a.slot = arg[Low].slot /\ a.f = slots[arg[Low].slot] /\ a.next = arg[Low].next
      BY <1>1, ChangedRecord
    <3>2. GotoWith(Low, "clear", a) /\ "clear" \in Stages
      BY <2>2 DEF LowScan, Stages
    <3> HIDE DEF a
    <3>3. Only(Low) /\ Typed' /\ pc'[Low] = "clear" /\ arg'[Low] = a
      BY <1>0, <3>1, <3>2, GoingWith
    <3> QED
      BY <1>1, <2>2, <3>1, <3>3
  <2> QED
    BY <2>1, <2>2
<1>3. UNCHANGED <<slots, cyw43_poll, cyw43_core_num, pending, force, enabled, wake, owner,
                  enter_count, nest, sem, left, owed>>
  BY DEF LowScan, irqVars, mutexVars
<1>4. TypeInv'
  BY <1>0, <1>2, <1>3, TypePartsNext DEF Rest
<1>5. PlaceInv'
  <2>1. Place(Low)'
    BY <1>2, KindStages, Kinds DEF Place, Scheduling, Stages
  <2> QED
    BY <1>0, <1>2, <2>1, PlaceFrame DEF IndInv
<1>6. SlotInv' /\ MutexInv' /\ FreshInv'
  BY <1>0, <1>2, <1>3, LowMoves DEF IndInv, SlotInv
<1>7. Quiet(Low)
  BY <1>0, <1>2, <1>3 DEF Quiet, Scheduling
<1>8. WorkInv' /\ HostWakeHeard' /\ StaleInv'
  BY <1>0, <1>1, <1>3, <1>7, QuietWork, QuietHeard, QuietStale, Kinds DEF IndInv
<1> QED
  BY <1>4, <1>5, <1>6, <1>8 DEF IndInv

LEMMA LowClearInd ==
  ASSUME IndInv, LowClear
  PROVE  IndInv'
<1>0. Typed /\ Rest /\ pc[Low] = "clear" /\ Low \in Contexts /\ Place(Low)
  BY TypedNow, TypeParts, Kinds DEF IndInv, LowClear, PlaceInv
<1>1. /\ arg[Low].slot \in Slots /\ arg[Low].f # "null" /\ Fits(arg[Low].slot, arg[Low].f)
      /\ arg[Low].next # "hook"
  BY <1>0 DEF Place
<1>2. Only(Low) /\ Typed' /\ pc'[Low] = "call" /\ arg' = arg
  BY <1>0, Going DEF LowClear, Stages
<1>3. UNCHANGED <<cyw43_poll, cyw43_core_num, pending, force, enabled, wake, owner,
                  enter_count, nest, sem, left, owed>>
  BY DEF LowClear, irqVars, mutexVars
<1>4. /\ slots' \in [Slots -> Functions] /\ \A s \in Slots : Fits(s, slots'[s])
      /\ \A s \in Slots : s # arg[Low].slot => slots'[s] = slots[s]
  BY <1>0, <1>1 DEF LowClear, Rest, Functions, IndInv, SlotInv, Fits
<1>5. TypeInv'
  BY <1>0, <1>2, <1>3, <1>4, TypePartsNext DEF Rest
<1>6. PlaceInv'
  <2>1. Place(Low)'
    BY <1>1, <1>2, KindStages, Kinds DEF Place, Scheduling, Stages
  <2> QED
    BY <1>0, <1>2, <2>1, PlaceFrame DEF IndInv
<1>7. SlotInv' /\ MutexInv' /\ FreshInv'
  BY <1>0, <1>2, <1>3, <1>4, LowMoves DEF IndInv, SlotInv
<1>8. /\ ForceAhead => ForceAhead'
      /\ \A s \in Slots : OnItsWay(s) => OnItsWay(s)'
  BY <1>0, <1>2, <1>3, PlacementStays DEF ForceAhead, OnItsWay, Only
<1>9. \A s \in Slots : Kept(s) => Kept(s)'
  BY <1>0, <1>2, <1>4, <1>8 DEF Kept, InHand
<1>10. StaleInv'
  BY <1>0, <1>2, <1>3, <1>8, PlacementStays, Kinds DEF StaleInv, IndInv, Only
<1>11. WorkInv' /\ HostWakeHeard'
  BY <1>0, <1>1, <1>3, <1>8, <1>9, Names DEF WorkInv, HostWakeHeard, IndInv
<1> QED
  BY <1>5, <1>6, <1>7, <1>10, <1>11 DEF IndInv

\* Low calls what it has taken from a slot; what was owed there is served.
LEMMA Calling ==
  ASSUME IndInv, Only(Low), pc[Low] = "call", Served,
         UNCHANGED <<slots, cyw43_poll, cyw43_core_num, force>>
  PROVE  /\ arg[Low].slot \in Slots /\ arg[Low].f # "null" /\ Fits(arg[Low].slot, arg[Low].f)
         /\ arg[Low].next # "hook"
         /\ owed' \in [Slots -> BOOLEAN] /\ ~owed'[arg[Low].slot]
         /\ SlotInv' /\ StaleInv' /\ WorkInv'
         /\ \A s \in Slots \ {arg[Low].slot} : owed'[s] = owed[s]
         /\ \A s \in Slots : OnItsWay(s) => OnItsWay(s)'
         /\ ForceAhead => ForceAhead'
<1>0. Rest /\ Low \in Contexts /\ Place(Low)
  BY TypeParts, Kinds DEF IndInv, PlaceInv
<1>1. /\ arg[Low].slot \in Slots /\ arg[Low].f # "null" /\ Fits(arg[Low].slot, arg[Low].f)
      /\ arg[Low].next # "hook"
  BY <1>0 DEF Place
<1>2. /\ owed' \in [Slots -> BOOLEAN] /\ ~owed'[arg[Low].slot]
      /\ \A s \in Slots \ {arg[Low].slot} : owed'[s] = owed[s]
  BY <1>0, <1>1 DEF Served, Rest
<1>3. /\ \A s \in Slots : OnItsWay(s) => OnItsWay(s)'
      /\ ForceAhead => ForceAhead'
  BY PlacementStays DEF ForceAhead, OnItsWay, Only
<1>4. \A s \in Slots \ {arg[Low].slot} : Kept(s) => Kept(s)'
  BY <1>3 DEF Kept, InHand
<1>5. SlotInv'
  BY <1>1, <1>2, Names DEF IndInv, SlotInv
<1>6. WorkInv'
  BY <1>1, <1>2, <1>3, <1>4, Names DEF IndInv, WorkInv
<1>7. StaleInv'
  BY <1>3, PlacementStays, Kinds DEF StaleInv, IndInv, Only
<1> QED
  BY <1>1, <1>2, <1>3, <1>5, <1>6, <1>7

LEMMA PollIgnoredInd ==
  ASSUME IndInv, PollIgnored
  PROVE  IndInv'
<1>0. Typed /\ Rest /\ pc[Low] = "call" /\ Low \in Contexts
  BY TypedNow, TypeParts, Kinds DEF IndInv, PollIgnored
<1>1. /\ Only(Low) /\ Typed' /\ pc'[Low] \in {"scan", "release"}
      /\ arg'[Low].next = "off" /\ (pc'[Low] = "scan" => arg'[Low].slot \in Slots)
  BY <1>0, NextSlotMoves DEF PollIgnored
<1>2. UNCHANGED <<slots, cyw43_poll, cyw43_core_num, pending, force, enabled, wake, owner,
                  enter_count, nest, sem, left>>
  BY DEF PollIgnored, irqVars, mutexVars
<1>3. owed' \in [Slots -> BOOLEAN] /\ SlotInv' /\ StaleInv' /\ WorkInv'
  BY <1>0, <1>1, <1>2, Calling DEF PollIgnored
<1>4. TypeInv'
  BY <1>0, <1>1, <1>2, <1>3, TypePartsNext DEF Rest
<1>5. PlaceInv'
  <2>1. Place(Low)'
    BY <1>1, KindStages, Kinds DEF Place, Scheduling, Stages
  <2> QED
    BY <1>0, <1>1, <2>1, PlaceFrame DEF IndInv
<1>6. MutexInv' /\ FreshInv'
  BY <1>0, <1>1, <1>2, LowMoves
<1>7. HostWakeHeard'
  BY <1>2 DEF PollIgnored, HostWakeHeard
<1> QED
  BY <1>3, <1>4, <1>5, <1>6, <1>7 DEF IndInv

\* The poll goes to the hook, at once or after it has scheduled another.
LEMMA PollInd ==
  ASSUME IndInv, Poll
  PROVE  IndInv'
<1>0. Typed /\ Rest /\ pc[Low] = "call" /\ Low \in Contexts /\ cyw43_poll = "poll" /\ arg[Low].f = "poll"
  BY TypedNow, TypeParts, Kinds DEF IndInv, Poll
<1>1. /\ Only(Low) /\ Typed' /\ pc'[Low] \in {"hook", "store"}
      /\ pc'[Low] = "hook" => arg' = arg
      /\ pc'[Low] = "store" => /\ arg'[Low].slot = "CYW43" /\ arg'[Low].f = "poll"
                               /\ arg'[Low].next = "hook"
  <2>0. {"hook", "store"} \subseteq Stages
    BY DEF Stages
  <2>1. CASE Goto(Low, "hook")
    BY <1>0, <2>0, <2>1, Going
  <2>2. CASE GotoWith(Low, "store", Dispatch("CYW43", "poll", "hook"))
    <3> DEFINE a == Dispatch("CYW43", "poll", "hook")
    <3>1. a \in Args /\ a.slot = "CYW43" /\ a.f = "poll" /\ a.next = "hook"
      BY <2>0, DispatchRecord, Names DEF Functions
    <3>2. GotoWith(Low, "store", a)
      BY <2>2
    <3> HIDE DEF a
    <3> QED
      BY <1>0, <2>0, <3>1, <3>2, GoingWith
  <2> QED
    BY <2>1, <2>2 DEF Poll
<1>2. UNCHANGED <<slots, cyw43_poll, cyw43_core_num, pending, force, enabled, owner,
                  enter_count, nest, sem, left>> /\ wake' = FALSE
  BY DEF Poll, mutexVars
<1>3. owed' \in [Slots -> BOOLEAN] /\ SlotInv' /\ StaleInv' /\ WorkInv' /\ arg[Low].next # "hook"
  BY <1>0, <1>1, <1>2, Calling DEF Poll
<1>4. TypeInv'
  BY <1>0, <1>1, <1>2, <1>3, TypePartsNext DEF Rest
<1>5. PlaceInv'
  <2>1. Place(Low)'
    BY <1>1, <1>3, KindStages, Kinds DEF Place, Scheduling, Stages
  <2> QED
    BY <1>0, <1>1, <2>1, PlaceFrame DEF IndInv
<1>6. MutexInv' /\ FreshInv'
  BY <1>0, <1>1, <1>2, LowMoves
<1>7. HostWakeHeard'
  BY <1>1 DEF HostWakeHeard
<1> QED
  BY <1>3, <1>4, <1>5, <1>6, <1>7 DEF IndInv

LEMMA PollHookInd ==
  ASSUME IndInv, PollHook
  PROVE  IndInv'
<1>0. Typed /\ Rest /\ pc[Low] = "hook" /\ Low \in Contexts
  BY TypedNow, TypeParts, Kinds DEF IndInv, PollHook
<1>1. /\ Only(Low) /\ Typed' /\ pc'[Low] \in {"scan", "release"}
      /\ arg'[Low].next = "off" /\ (pc'[Low] = "scan" => arg'[Low].slot \in Slots)
  BY <1>0, NextSlotMoves DEF PollHook
<1>2. UNCHANGED <<slots, cyw43_poll, cyw43_core_num, pending, force, wake, owner,
                  enter_count, nest, sem, left, owed>> /\ enabled' = TRUE
  BY DEF PollHook, SlotsAtReturn, mutexVars
<1>3. TypeInv'
  BY <1>0, <1>1, <1>2, TypePartsNext DEF Rest
<1>4. PlaceInv'
  <2>1. Place(Low)'
    BY <1>1, KindStages, Kinds DEF Place, Scheduling, Stages
  <2> QED
    BY <1>0, <1>1, <2>1, PlaceFrame DEF IndInv
<1>5. SlotInv' /\ MutexInv' /\ FreshInv'
  BY <1>0, <1>1, <1>2, LowMoves DEF IndInv, SlotInv
<1>6. Quiet(Low)
  BY <1>0, <1>1, <1>2 DEF Quiet, Scheduling
<1>7. WorkInv' /\ StaleInv' /\ HostWakeHeard'
  BY <1>0, <1>2, <1>6, QuietWork, QuietStale, Kinds DEF IndInv, HostWakeHeard
<1> QED
  BY <1>3, <1>4, <1>5, <1>7 DEF IndInv

\* The alarm's worker: the driver's slot is not the one it serves.
LEMMA WorkerInd ==
  ASSUME IndInv, Worker
  PROVE  IndInv'
<1>0. Typed /\ Rest /\ pc[Low] = "call" /\ Low \in Contexts /\ arg[Low].f = "worker"
  BY TypedNow, TypeParts, Kinds DEF IndInv, Worker
<1>1. /\ Only(Low) /\ Typed' /\ pc'[Low] \in {"scan", "release", "load"}
      /\ arg'[Low].next \in {"off", "release"}
      /\ pc'[Low] = "scan" => arg'[Low].slot \in Slots
      /\ pc'[Low] = "load" => arg'[Low].slot = "CYW43" /\ arg'[Low].next = "release"
  <2>1. CASE NextSlot
    BY <1>0, <2>1, NextSlotMoves
  <2>2. CASE GotoWith(Low, "load", Dispatch("CYW43", "null", "release"))
    <3> DEFINE a == Dispatch("CYW43", "null", "release")
    <3>1. a \in Args /\ a.slot = "CYW43" /\ a.next = "release" /\ "load" \in Stages
      BY DispatchRecord, Names DEF Functions, Stages
    <3>2. GotoWith(Low, "load", a)
      BY <2>2
    <3> HIDE DEF a
    <3> QED
      BY <1>0, <3>1, <3>2, GoingWith
  <2> QED
    BY <2>1, <2>2 DEF Worker
<1>2. UNCHANGED <<slots, cyw43_poll, cyw43_core_num, pending, force, enabled, wake, owner,
                  enter_count, nest, sem, left>>
  BY DEF Worker, irqVars, mutexVars
<1>3. /\ owed' \in [Slots -> BOOLEAN] /\ SlotInv' /\ StaleInv' /\ WorkInv'
      /\ arg[Low].next # "hook" /\ arg[Low].slot = "ADAPTER"
      /\ owed'["CYW43"] = owed["CYW43"]
      /\ OnItsWay("CYW43") => OnItsWay("CYW43")'
      /\ ForceAhead => ForceAhead'
  <2>1. /\ arg[Low].slot \in Slots /\ Fits(arg[Low].slot, arg[Low].f) /\ arg[Low].next # "hook"
        /\ owed' \in [Slots -> BOOLEAN] /\ SlotInv' /\ StaleInv' /\ WorkInv'
        /\ \A s \in Slots \ {arg[Low].slot} : owed'[s] = owed[s]
        /\ \A s \in Slots : OnItsWay(s) => OnItsWay(s)'
        /\ ForceAhead => ForceAhead'
    BY <1>0, <1>1, <1>2, Calling DEF Worker
  <2>2. arg[Low].slot = "ADAPTER"
    BY <1>0, <2>1, Names DEF Fits
  <2> QED
    BY <2>1, <2>2, Names
<1>4. TypeInv'
  BY <1>0, <1>1, <1>2, <1>3, TypePartsNext DEF Rest
<1>5. PlaceInv'
  <2>1. Place(Low)'
    BY <1>1, KindStages, Kinds DEF Place, Scheduling, Stages
  <2> QED
    BY <1>0, <1>1, <2>1, PlaceFrame DEF IndInv
<1>6. MutexInv' /\ FreshInv'
  BY <1>0, <1>1, <1>2, LowMoves
<1>7. HostWakeHeard'
  BY <1>0, <1>2, <1>3 DEF HostWakeHeard, IndInv
<1> QED
  BY <1>3, <1>4, <1>5, <1>6, <1>7 DEF IndInv

LEMMA LowExitInd ==
  ASSUME IndInv, LowExit
  PROVE  IndInv'
<1>0. Typed /\ Rest /\ pc[Low] = "release" /\ Low \in Contexts /\ Place(Low)
  BY TypedNow, TypeParts, Kinds DEF IndInv, LowExit, PlaceInv
<1>1. Only(Low) /\ Typed' /\ pc'[Low] = "off" /\ arg'[Low].next = "off"
  <2>1. GotoWith(Low, "off", NoArg) /\ "off" \in Stages
    BY DEF LowExit, Stages
  <2> QED
    BY <1>0, <2>1, GoingWith, NoArgRecord
<1>2. UNCHANGED <<slots, cyw43_poll, cyw43_core_num, pending, force, enabled, wake, nest, left, owed>>
  BY DEF LowExit, irqVars
<1>3. enter_count' = 0 /\ owner' = NoOwner /\ sem' = 1 /\ \A t \in Threads : nest[t] = 0
  BY <1>0 DEF LowExit, IndInv, MutexInv, Active
<1>4. TypeInv'
  BY <1>0, <1>1, <1>2, <1>3, TypePartsNext, Cyw43Assumption DEF Rest
<1>5. PlaceInv'
  <2>1. Place(Low)'
    BY <1>1, KindStages, Kinds DEF Place, Scheduling, Stages
  <2> QED
    BY <1>0, <1>1, <2>1, PlaceFrame DEF IndInv
<1>6. MutexInv'
  <2>1. \A t \in Threads : pc'[t] = pc[t] /\ pc[t] = "idle"
    BY <1>1, <1>3, Kinds DEF IndInv, MutexInv, Only
  <2> QED
    BY <1>1, <1>2, <1>3, <2>1 DEF MutexInv, Active
<1>7. SlotInv' /\ FreshInv'
  BY <1>0, <1>1, <1>2, FreshFrame DEF IndInv, SlotInv
<1>8. Quiet(Low)
  BY <1>0, <1>1, <1>2 DEF Quiet, Scheduling
<1>9. arg[Low].next # "hook"
  BY <1>0 DEF Place
<1>10. WorkInv' /\ StaleInv' /\ HostWakeHeard'
  BY <1>0, <1>2, <1>8, <1>9, QuietWork, QuietStale, QuietHeard, Kinds DEF IndInv
<1> QED
  BY <1>4, <1>5, <1>6, <1>7, <1>10 DEF IndInv

-----------------------------------------------------------------------------
(* The threads and the chip *)

LEMMA ThreadEnterInd ==
  ASSUME IndInv, NEW t \in Threads, ThreadEnter(t)
  PROVE  IndInv'
<1>0. Typed /\ Rest /\ pc[t] = "idle" /\ t \in Contexts
  BY TypedNow, TypeParts, Kinds DEF IndInv, ThreadEnter, AtRest
<1>1. Only(t) /\ Typed' /\ pc' = pc /\ arg' = arg
  BY <1>0, Staying DEF ThreadEnter
<1>2. UNCHANGED <<slots, cyw43_poll, cyw43_core_num, pending, force, enabled, wake, sem, owed>>
  BY DEF ThreadEnter, irqVars
<1>3. /\ owner' = CoreOf(t) /\ enter_count' = enter_count + 1
      /\ nest' = [nest EXCEPT ![t] = @ + 1] /\ nest[t] < MaxNest
      /\ owner = NoOwner \/ owner = CoreOf(t)
  BY DEF ThreadEnter, CanEnter
\* Low, which owns the mutex while it is active, is not on this core, and
\* the mutex of another core cannot be entered.
<1>4. ~Active(Low)
  <2>1. Active(Low) => CoreOf(t) # cyw43_core_num
    BY Preempted DEF ThreadEnter, AtRest
  <2>2. cyw43_core_num # NoOwner
    BY <1>0, Cyw43Assumption DEF Rest
  <2> QED
    BY <1>3, <2>1, <2>2 DEF IndInv, MutexInv
<1>5. enter_count = nest[t] /\ \A u \in Threads : u # t => nest[u] = 0 /\ CoreOf(u) # CoreOf(t)
  <2>1. \A u \in Threads : CoreOf(u) \in Cores /\ (CoreOf(u) = CoreOf(t) => u = t) /\ nest[u] \in Nat
    BY <1>0, Placement, Cyw43Assumption DEF Rest
  <2> QED
    BY <1>0, <1>3, <1>4, <2>1, Cyw43Assumption DEF IndInv, MutexInv, Rest
<1>6. /\ nest' \in [Threads -> 0..MaxNest] /\ enter_count' \in 0..(MaxNest + 1)
      /\ nest'[t] = nest[t] + 1 /\ nest[t] \in Nat
      /\ \A u \in Threads : u # t => nest'[u] = nest[u]
  BY <1>0, <1>3, <1>5, Cyw43Assumption DEF Rest
<1>7. TypeInv'
  BY <1>0, <1>1, <1>2, <1>3, <1>6, Placement, TypePartsNext DEF Rest
<1>8. PlaceInv'
  BY <1>1 DEF PlaceInv, Place, StagesOf, IndInv
<1>9. MutexInv'
  <2>1. ~Active(Low)' /\ CoreOf(t)' = CoreOf(t) /\ \A u \in Threads : CoreOf(u)' = CoreOf(u)
    BY <1>1, <1>2, <1>4, PlacementStays DEF Active
  <2>2. owner' # NoOwner /\ enter_count' # 0 /\ enter_count' = nest'[t] /\ owner' = CoreOf(t)
    BY <1>3, <1>5, <1>6, Placement, Cyw43Assumption
  <2>3. \A u \in Threads : nest'[u] > 0 => owner' = CoreOf(u) /\ enter_count' = nest'[u]
    BY <1>5, <1>6, <2>2
  <2>4. \A u \in Threads : owner' = CoreOf(u) => enter_count' = nest'[u]
    BY <1>5, <2>2
  <2>5. \A u \in Threads : pc'[u] # "idle" => nest'[u] > 0
    BY <1>0, <1>1, <1>6 DEF IndInv, MutexInv
  <2> QED
    BY <2>1, <2>2, <2>3, <2>4, <2>5 DEF MutexInv
<1>10. SlotInv' /\ FreshInv'
  BY <1>0, <1>1, <1>2, FreshFrame DEF IndInv, SlotInv
<1>11. Quiet(t)
  BY <1>0, <1>1, <1>2, Kinds DEF Quiet, Scheduling
<1>12. WorkInv' /\ StaleInv' /\ HostWakeHeard'
  BY <1>0, <1>2, <1>11, QuietWork, QuietStale, QuietHeard, Kinds DEF IndInv
<1> QED
  BY <1>7, <1>8, <1>9, <1>10, <1>12 DEF IndInv

LEMMA ThreadExitInd ==
  ASSUME IndInv, NEW t \in Threads, ThreadExit(t)
  PROVE  IndInv'
<1>0. Typed /\ Rest /\ pc[t] = "idle" /\ nest[t] > 0 /\ t \in Contexts /\ Place(t)
  BY TypedNow, TypeParts, Kinds DEF IndInv, ThreadExit, AtRest, PlaceInv
<1>1. /\ Only(t) /\ Typed' /\ pc'[t] \in {"load", "release"} /\ arg'[t].next # "hook"
      /\ pc'[t] = "load" => arg'[t].slot = "CYW43" /\ arg'[t].next = "release"
  <2>0. {"load", "release"} \subseteq Stages
    BY DEF Stages
  <2>1. CASE GotoWith(t, "load", Dispatch("CYW43", "null", "release"))
    <3> DEFINE a == Dispatch("CYW43", "null", "release")
    <3>1. a \in Args /\ a.slot = "CYW43" /\ a.next = "release"
      BY <2>0, DispatchRecord, Names DEF Functions
    <3>2. GotoWith(t, "load", a)
      BY <2>1
    <3> HIDE DEF a
    <3> QED
      BY <1>0, <2>0, <3>1, <3>2, GoingWith
  <2>2. CASE Goto(t, "release")
    <3>1. arg[t].next # "hook"
      BY <1>0 DEF Place
    <3> QED
      BY <1>0, <2>0, <2>2, <3>1, Going
  <2> QED
    BY <2>1, <2>2 DEF ThreadExit
<1>2. UNCHANGED <<slots, cyw43_poll, cyw43_core_num, pending, force, enabled, wake, owner,
                  enter_count, nest, sem, left, owed>>
  BY DEF ThreadExit, irqVars, mutexVars
<1>3. TypeInv'
  BY <1>0, <1>1, <1>2, TypePartsNext DEF Rest
<1>4. PlaceInv'
  <2>1. Place(t)'
    BY <1>1, KindStages, Kinds DEF Place, Scheduling
  <2> QED
    BY <1>0, <1>1, <2>1, PlaceFrame DEF IndInv
<1>5. SlotInv' /\ MutexInv' /\ FreshInv'
  BY <1>0, <1>1, <1>2, MutexFrame, FreshFrame, Kinds DEF IndInv, SlotInv
<1>6. Quiet(t)
  BY <1>0, <1>1, <1>2, Kinds DEF Quiet, Scheduling
<1>7. WorkInv' /\ StaleInv' /\ HostWakeHeard'
  BY <1>0, <1>2, <1>6, QuietWork, QuietStale, QuietHeard, Kinds DEF IndInv
<1> QED
  BY <1>3, <1>4, <1>5, <1>7 DEF IndInv

LEMMA ThreadReleaseInd ==
  ASSUME IndInv, NEW t \in Threads, ThreadRelease(t)
  PROVE  IndInv'
<1>0. Typed /\ Rest /\ pc[t] = "release" /\ t \in Contexts
  BY TypedNow, TypeParts, Kinds DEF IndInv, ThreadRelease
<1>1. Only(t) /\ Typed' /\ pc'[t] = "idle" /\ arg'[t].next = "off"
  <2>1. GotoWith(t, "idle", NoArg) /\ "idle" \in Stages
    BY DEF ThreadRelease, Stages
  <2> QED
    BY <1>0, <2>1, GoingWith, NoArgRecord
<1>2. UNCHANGED <<slots, cyw43_poll, cyw43_core_num, pending, force, enabled, wake, sem, left, owed>>
  BY DEF ThreadRelease, irqVars
<1>3. /\ nest[t] > 0 /\ owner = CoreOf(t) /\ enter_count = nest[t]
      /\ enter_count' = enter_count - 1
      /\ owner' = IF enter_count = 1 THEN NoOwner ELSE owner
      /\ nest' = [nest EXCEPT ![t] = @ - 1]
      /\ ~Active(Low)
  BY <1>0 DEF ThreadRelease, IndInv, MutexInv
<1>4. \A u \in Threads : /\ u # t => nest[u] = 0 /\ pc[u] = "idle" /\ CoreOf(u) # CoreOf(t)
                         /\ CoreOf(u) \in Cores
  <2>1. \A u \in Threads : CoreOf(u) \in Cores /\ (CoreOf(u) = CoreOf(t) => u = t) /\ nest[u] \in Nat
    BY <1>0, Placement, Cyw43Assumption DEF Rest
  <2> QED
    BY <1>3, <2>1 DEF IndInv, MutexInv
<1>5. /\ nest' \in [Threads -> 0..MaxNest] /\ enter_count' \in 0..(MaxNest + 1)
      /\ nest'[t] = nest[t] - 1 /\ nest[t] \in Nat
      /\ \A u \in Threads : u # t => nest'[u] = nest[u]
  BY <1>0, <1>3, Cyw43Assumption DEF Rest
<1>6. TypeInv'
  BY <1>0, <1>1, <1>2, <1>3, <1>5, TypePartsNext DEF Rest
<1>7. PlaceInv'
  <2>1. Place(t)'
    BY <1>1, KindStages, Kinds DEF Place, Scheduling
  <2> QED
    BY <1>0, <1>1, <2>1, PlaceFrame DEF IndInv
<1>8. MutexInv'
  <2>1. ~Active(Low)' /\ \A u \in Threads : CoreOf(u)' = CoreOf(u)
    BY <1>1, <1>2, <1>3, Kinds, PlacementStays DEF Active, Only
  <2>2. enter_count' = nest'[t] /\ (enter_count' = 0 <=> owner' = NoOwner)
        /\ (enter_count' # 0 => owner' = CoreOf(t)) /\ NoOwner \notin Cores
    BY <1>0, <1>3, <1>4, <1>5, Cyw43Assumption DEF Rest
  <2>3. \A u \in Threads : nest'[u] > 0 => owner' = CoreOf(u) /\ enter_count' = nest'[u]
    BY <1>4, <1>5, <2>2
  <2>4. \A u \in Threads : owner' = CoreOf(u) => enter_count' = nest'[u]
    BY <1>4, <2>2
  <2>5. \A u \in Threads : pc'[u] = "idle"
    BY <1>1, <1>4, Kinds DEF Only
  <2> QED
    BY <2>1, <2>2, <2>3, <2>4, <2>5 DEF MutexInv
<1>9. SlotInv' /\ FreshInv'
  BY <1>0, <1>1, <1>2, FreshFrame DEF IndInv, SlotInv
<1>10. Quiet(t)
  BY <1>0, <1>1, <1>2, Kinds DEF Quiet, Scheduling
<1>11. WorkInv' /\ StaleInv' /\ HostWakeHeard'
  BY <1>0, <1>2, <1>10, QuietWork, QuietStale, QuietHeard, Kinds DEF IndInv
<1> QED
  BY <1>6, <1>7, <1>8, <1>9, <1>11 DEF IndInv

\* Nobody but a thread at rest and the host-wake handler on the other core is
\* in the middle of a dispatch when the driver starts or stops: the thread
\* that starts it is inside the mutex.
LEMMA InsideAlone ==
  ASSUME IndInv, NEW t \in Threads, AtRest(t), nest[t] > 0
  PROVE  \A x \in Contexts \ {Gpio, Alarm} : pc[x] # "store"
<1> SUFFICES ASSUME NEW x \in Contexts \ {Gpio, Alarm}, pc[x] = "store" PROVE FALSE
  OBVIOUS
<1>1. CASE x = Low
  BY <1>1 DEF IndInv, MutexInv, Active
<1>2. CASE x \in Threads
  <2>1. nest[x] > 0 /\ owner = CoreOf(x) /\ owner = CoreOf(t)
    BY <1>2 DEF IndInv, MutexInv
  <2> QED
    BY <1>2, <2>1, Placement DEF AtRest
<1> QED
  BY <1>1, <1>2, Kinds

LEMMA DriverUpInd ==
  ASSUME IndInv, NEW t \in Threads, DriverUp(t)
  PROVE  IndInv'
<1>0. /\ Typed /\ Rest /\ pc[t] = "idle" /\ t \in Contexts /\ nest[t] > 0
      /\ AtRest(t) /\ cyw43_poll = "null" /\ cyw43_poll' = "poll"
  BY TypedNow, TypeParts, Kinds DEF IndInv, DriverUp, AtRest
<1>1. /\ Only(t) /\ Typed' /\ pc'[t] = "store"
      /\ arg'[t].slot = "CYW43" /\ arg'[t].f = "poll" /\ arg'[t].next = "idle"
  <2> DEFINE a == Dispatch("CYW43", "poll", "idle")
  <2>1. a \in Args /\ a.slot = "CYW43" /\ a.f = "poll" /\ a.next = "idle" /\ "store" \in Stages
    BY DispatchRecord, Names DEF Functions, Stages
  <2>2. GotoWith(t, "store", a)
    BY DEF DriverUp, Kick
  <2> HIDE DEF a
  <2> QED
    BY <1>0, <2>1, <2>2, GoingWith
<1>2. UNCHANGED <<slots, cyw43_core_num, pending, force, enabled, wake, owner,
                  enter_count, nest, sem, owed>>
  BY DEF DriverUp, irqVars, mutexVars
<1>3. TypeInv'
  BY <1>0, <1>1, <1>2, TypePartsNext DEF Rest
<1>4. PlaceInv'
  <2>1. Place(t)'
    BY <1>1, KindStages, Kinds DEF Place, Scheduling
  <2> QED
    BY <1>0, <1>1, <2>1, PlaceFrame DEF IndInv
<1>5. MutexInv'
  BY <1>0, <1>1, <1>2, MutexFrame, Kinds DEF IndInv
<1>6. FreshInv'
  BY <1>0, <1>1, InsideAlone DEF FreshInv, Only
<1>7. SlotInv'
  BY <1>0, <1>2 DEF IndInv, SlotInv
<1>8. StaleInv'
  <2>1. pc'[Gpio] = "store" => CoreOf(t)' # cyw43_core_num'
    BY <1>0, <1>1, <1>2, Preempted, PlacementStays, Kinds DEF Only, Active, AtRest
  <2> QED
    BY <1>1, <2>1 DEF StaleInv
<1>9. OnItsWay("CYW43")'
  BY <1>0, <1>1 DEF OnItsWay
<1>10. Quiet(t)
  BY <1>0, <1>1, <1>2, Kinds DEF Quiet, Scheduling
<1>11. WorkInv' /\ HostWakeHeard'
  BY <1>0, <1>9, <1>10, QuietWork DEF IndInv, HostWakeHeard
<1> QED
  BY <1>3, <1>4, <1>5, <1>6, <1>7, <1>8, <1>11 DEF IndInv

LEMMA DriverDownInd ==
  ASSUME IndInv, NEW t \in Threads, DriverDown(t)
  PROVE  IndInv'
<1>0. /\ Typed /\ Rest /\ pc[t] = "idle" /\ t \in Contexts /\ nest[t] > 0
      /\ AtRest(t) /\ cyw43_poll' = "null"
  BY TypedNow, TypeParts, Kinds DEF IndInv, DriverDown, AtRest
<1>1. Only(t) /\ Typed' /\ pc' = pc /\ arg' = arg
  BY <1>0, Staying DEF DriverDown
<1>2. UNCHANGED <<slots, cyw43_core_num, pending, force, enabled, owner,
                  enter_count, nest, sem>> /\ wake' = FALSE
  BY DEF DriverDown, mutexVars
<1>3. owed' \in [Slots -> BOOLEAN] /\ ~owed'["CYW43"] /\ owed'["ADAPTER"] = owed["ADAPTER"]
  BY <1>0, Names DEF DriverDown, Rest
<1>4. TypeInv'
  BY <1>0, <1>1, <1>2, <1>3, TypePartsNext DEF Rest
<1>5. PlaceInv'
  BY <1>1 DEF PlaceInv, Place, StagesOf, IndInv
<1>6. MutexInv'
  BY <1>0, <1>1, <1>2, MutexFrame, Kinds DEF IndInv
<1>7. FreshInv'
  BY <1>0, <1>1, InsideAlone DEF FreshInv
<1>8. SlotInv'
  BY <1>2, <1>3 DEF IndInv, SlotInv
<1>9. StaleInv' /\ HostWakeHeard'
  BY <1>0 DEF StaleInv, HostWakeHeard
<1>10. Kept("ADAPTER") => Kept("ADAPTER")'
  <2>1. \A x \in Contexts : pc[x] = "load" => arg[x].slot = "CYW43"
    BY DEF IndInv, PlaceInv, Place
  <2>2. OnItsWay("ADAPTER") => OnItsWay("ADAPTER")'
    BY <1>1, <2>1 DEF OnItsWay
  <2> QED
    BY <1>1, <1>2, <2>2 DEF Kept, InHand
<1>11. WorkInv'
  BY <1>3, <1>10 DEF WorkInv, IndInv
<1> QED
  BY <1>4, <1>5, <1>6, <1>7, <1>8, <1>9, <1>11 DEF IndInv

LEMMA AwaitInd ==
  ASSUME IndInv, NEW t \in Threads, Await(t)
  PROVE  IndInv'
<1>1. UNCHANGED <<pc, arg, slots, cyw43_poll, cyw43_core_num, pending, force, enabled, wake,
                  owner, enter_count, nest, owed>> /\ sem' = 0
  BY DEF Await, irqVars, mutexVars
<1>2. TypeInv'
  BY <1>1, TypeParts, TypePartsNext DEF IndInv, Typed, Rest
<1> QED
  BY <1>1, <1>2, PlacementStays
     DEF IndInv, PlaceInv, Place, StagesOf, SlotInv, MutexInv, Active, FreshInv, StaleInv,
         WorkInv, HostWakeHeard, Kept, OnItsWay, InHand, ForceAhead

LEMMA HostWakeInd ==
  ASSUME IndInv, HostWake
  PROVE  IndInv'
<1>1. UNCHANGED <<pc, arg, slots, cyw43_poll, cyw43_core_num, pending, force, enabled,
                  owner, enter_count, nest, sem, owed>> /\ wake' = TRUE
  BY DEF HostWake, irqVars, mutexVars
<1>2. TypeInv'
  BY <1>1, TypeParts, TypePartsNext DEF IndInv, Typed, Rest
<1> QED
  BY <1>1, <1>2, PlacementStays
     DEF IndInv, PlaceInv, Place, StagesOf, SlotInv, MutexInv, Active, FreshInv, StaleInv,
         WorkInv, HostWakeHeard, Kept, OnItsWay, InHand, ForceAhead

LEMMA StutterInd ==
  ASSUME IndInv, UNCHANGED vars
  PROVE  IndInv'
<1>1. UNCHANGED <<pc, arg, slots, cyw43_poll, cyw43_core_num, pending, force, enabled, wake,
                  owner, enter_count, nest, sem, owed>>
  BY DEF vars, irqVars, mutexVars
<1>2. TypeInv'
  BY <1>1, TypeParts, TypePartsNext DEF IndInv, Typed, Rest
<1> QED
  BY <1>1, <1>2, PlacementStays
     DEF IndInv, PlaceInv, Place, StagesOf, SlotInv, MutexInv, Active, FreshInv, StaleInv,
         WorkInv, HostWakeHeard, Kept, OnItsWay, InHand, ForceAhead

-----------------------------------------------------------------------------
(* The theorems *)

LEMMA InitInd ==
  ASSUME Init
  PROVE  IndInv
<1>1. \A x \in Contexts : pc[x] = (IF x \in Threads THEN "idle" ELSE "off") /\ arg[x] = NoArg
  BY DEF Init
<1>2. Typed
  BY NoArgRecord DEF Init, Typed, Stages
<1>3. Rest
  <2>1. 0 \in 0..MaxNest /\ 0 \in 0..(MaxNest + 1)  /\ 0 \in 0..1
    BY Cyw43Assumption
  <2>2. slots \in [Slots -> Functions] /\ owed \in [Slots -> BOOLEAN] /\ pending \in [Cores -> BOOLEAN]
    BY DEF Init, Functions
  <2>3. nest \in [Threads -> 0..MaxNest]
    BY <2>1 DEF Init
  <2>4. /\ cyw43_poll \in {"null", "poll"} /\ cyw43_core_num \in Cores
        /\ force = FALSE /\ enabled = TRUE /\ wake = FALSE
        /\ owner \in Cores \cup {NoOwner} /\ enter_count \in 0..(MaxNest + 1) /\ sem \in 0..1
    BY <2>1 DEF Init
  <2> QED
    BY <2>1, <2>2, <2>3, <2>4 DEF Rest
<1>4. PlaceInv
  BY <1>1, KindStages, Kinds, NoArgRecord DEF PlaceInv, Place, Scheduling, Stages
<1>5. SlotInv
  BY Names DEF Init, SlotInv, Fits
<1>6. MutexInv
  <2>1. ~Active(Low) /\ \A t \in Threads : pc[t] = "idle" /\ nest[t] = 0 /\ CoreOf(t) \in Cores
    BY <1>1, Kinds, Placement DEF Active, Init
  <2>2. owner = NoOwner /\ enter_count = 0 /\ NoOwner \notin Cores
    BY Cyw43Assumption DEF Init
  <2> QED
    BY <2>1, <2>2 DEF MutexInv
<1>7. FreshInv /\ StaleInv
  BY <1>1, Kinds DEF FreshInv, StaleInv
<1>8. WorkInv /\ HostWakeHeard
  BY Names DEF Init, WorkInv, HostWakeHeard
<1> QED
  BY <1>2, <1>3, <1>4, <1>5, <1>6, <1>7, <1>8, TypeParts DEF IndInv

LEMMA NextInd ==
  ASSUME IndInv, [Next]_vars
  PROVE  IndInv'
<1>1. ASSUME NEW x \in Contexts, Schedule(x) PROVE IndInv'
  BY <1>1, LoadPollInd, StoreInd, NotifyInd DEF Schedule
<1>2. ASSUME NEW t \in Threads, ThreadStep(t) \/ ThreadExit(t) \/ Client(t) PROVE IndInv'
  BY <1>1, <1>2, Kinds, ThreadReleaseInd, ThreadExitInd, ThreadEnterInd, DriverUpInd,
     DriverDownInd, AwaitInd DEF ThreadStep, Client
<1>3. ASSUME LowStep PROVE IndInv'
  BY <1>1, <1>3, Kinds, LowEnterInd, LowMissedInd, LowScanInd, LowClearInd, PollIgnoredInd,
     PollInd, PollHookInd, WorkerInd, LowExitInd DEF LowStep
<1>4. ASSUME GpioEnter \/ Schedule(Gpio) \/ AlarmEnter \/ Schedule(Alarm) \/ HostWake PROVE IndInv'
  BY <1>1, <1>4, Kinds, GpioEnterInd, AlarmEnterInd, HostWakeInd
<1>5. ASSUME UNCHANGED vars PROVE IndInv'
  BY <1>5, StutterInd
<1> QED
  BY <1>2, <1>3, <1>4, <1>5 DEF Next

LEMMA Invariance == Spec => []IndInv
  BY InitInd, NextInd, PTL DEF Spec

\* Every reachable state is well typed, whatever the cores, the nesting and
\* the bounds of the runs.
THEOREM TypeCorrect == Spec => []TypeOK
<1>1. IndInv => TypeOK
  BY DEF IndInv, TypeInv
<1> QED
  BY <1>1, Invariance, PTL

\* The background handler never runs its work while a thread of either core
\* is inside the driver (low_priority_irq_handler enters cyw43_mutex and goes
\* on only when its count is one), and the mutex accounts for who is inside.
THEOREM Exclusion == Spec => []BackgroundAlone
<1>1. IndInv => BackgroundAlone
  BY DEF IndInv, TypeInv, MutexInv, BackgroundAlone
<1> QED
  BY <1>1, Invariance, PTL

\* Work put in a dispatch slot by low_prio_irq_schedule_dispatch is not lost
\* before its function is called.
THEOREM WorkKept == Spec => []NoWorkLost
<1>1. IndInv => NoWorkLost
  BY Names DEF IndInv, WorkInv, Kept, NoWorkLost
<1> QED
  BY <1>1, Invariance, PTL

\* While gpio_irq_handler has the host-wake interrupt disabled, the poll whose
\* hook enables it again is owed, running or on its way.
THEOREM ChipHeard == Spec => []HostWakeHeard
<1>1. IndInv => HostWakeHeard
  BY DEF IndInv
<1> QED
  BY <1>1, Invariance, PTL
=============================================================================
