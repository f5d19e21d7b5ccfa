------------------------------ MODULE Reactor ------------------------------
(***************************************************************************)
(* The reactor's table of resources: slots of a slab that are reused,      *)
(* tokens that carry an ABA guard besides the slot's key, events that wait *)
(* in a buffer while the resource they belong to is dropped, descriptor    *)
(* numbers that the kernel gives out again.  What holds the lock of        *)
(* io_dispatch is one step.                                                *)
(***************************************************************************)
EXTENDS Integers, FiniteSets

CONSTANTS
  Resources,     \* PollEvented values, each opened and dropped over and over
  Fds,           \* descriptor numbers
  MAX_SOURCES,   \* 2^22 - 1 in the code
  Guards,        \* how many guards there are: 2^(usize bits - 22)
  MaxAdds        \* bound: calls of add_source

ASSUME ReactorAssumption ==
  /\ MAX_SOURCES \in Nat \ {0}
  /\ Guards \in Nat \ {0}
  /\ MaxAdds \in Nat

VARIABLES
  pc,              \* resources: where between PollEvented::new and its drop
  fd,              \* resources: the descriptor
  serial,          \* resources: how many add_source calls came before its own
  key,             \* resources: registration::Inner.token
  next_aba_guard,  \* calls of add_source so far; the guard is its lower part
  slab,            \* io_dispatch: the serial of the ScheduledIo in each slot
  entries,         \* io_dispatch: slots ever used
  heard,           \* serials whose events a slot's readiness stands for
  leaked,          \* history: serials of slots whose io.register failed
  open,            \* kernel: descriptors in use
  epoll,           \* kernel: the token each descriptor is registered with
  edges,           \* kernel: epoll's ready list
  running,         \* the reactor thread is in run
  events           \* Reactor.events: tokens still to be dispatched

resourceVars == <<pc, fd, serial, key>>
slabVars     == <<slab, entries, heard, leaked>>
kernelVars   == <<open, epoll, edges>>
vars == <<resourceVars, next_aba_guard, slabVars, kernelVars, running, events>>

Keys   == 0 .. MAX_SOURCES
Vacant == -1
Token  == [serial : Nat, key : Keys]
None   == [serial |-> Vacant, key |-> 0]

\* The part of a token that tells the users of a slot apart.
Guard(s) == s % Guards

\* TOKEN_WAKEUP has the key MAX_SOURCES and the guard 0.
IsWakeup(t) == t.key = MAX_SOURCES /\ Guard(t.serial) = 0

TypeOK ==
  /\ pc \in [Resources -> {"none", "init", "insert", "ready", "error", "close", "drop"}]
  /\ fd \in [Resources -> Fds]
  /\ serial \in [Resources -> Nat]
  /\ key \in [Resources -> 0 .. MAX_SOURCES - 1]
  /\ next_aba_guard \in Nat
  /\ slab \in [Keys -> Nat \cup {Vacant}]
  /\ entries \in 0 .. MAX_SOURCES
  /\ heard \in [Keys -> SUBSET Nat]
  /\ leaked \subseteq Nat
  /\ open \subseteq Fds
  /\ epoll \in [Fds -> Token \cup {None}]
  /\ edges \subseteq Fds
  /\ running \in BOOLEAN
  /\ events \subseteq Token

Init ==
  /\ pc = [r \in Resources |-> "none"]
  /\ fd \in [Resources -> Fds]
  /\ serial = [r \in Resources |-> 0]
  /\ key = [r \in Resources |-> 0]
  /\ next_aba_guard = 0
  /\ slab = [k \in Keys |-> Vacant]
  /\ entries = 0
  /\ heard = [k \in Keys |-> {}]
  /\ leaked = {}
  /\ open = {}
  /\ epoll = [f \in Fds |-> None]
  /\ edges = {}
  /\ running = TRUE
  /\ events = {}

Goto(r, l) == pc' = [pc EXCEPT ![r] = l]

\* HandlePriv::inner() succeeds: the thread, or somebody inside add_source, has
\* an Arc<Inner>.
Alive == running \/ \E r \in Resources : pc[r] = "insert"

Occupied == {k \in Keys : slab[k] # Vacant}
-----------------------------------------------------------------------------
(* A resource is opened and registered. *)

Open(r) ==
  /\ pc[r] = "none"
  /\ \E f \in Fds \ open : fd' = [fd EXCEPT ![r] = f] /\ open' = open \cup {f}
  /\ Goto(r, "init")
  /\ UNCHANGED <<serial, key, next_aba_guard, slabVars, epoll, edges, running, events>>

\* registration::Inner::new finds no reactor.
RegisterGone(r) ==
  /\ pc[r] = "init"
  /\ ~Alive
  /\ Goto(r, "error")
  /\ UNCHANGED <<fd, serial, key, next_aba_guard, slabVars, kernelVars, running, events>>

\* add_source draws a guard before it takes the lock.
AddGuard(r) ==
  /\ pc[r] = "init"
  /\ Alive
  /\ next_aba_guard < MaxAdds
  /\ serial' = [serial EXCEPT ![r] = next_aba_guard]
  /\ next_aba_guard' = next_aba_guard + 1
  /\ Goto(r, "insert")
  /\ UNCHANGED <<fd, key, slabVars, kernelVars, running, events>>

\* Fault: one resource too many.
FullTooLate == Cardinality(Occupied) > MAX_SOURCES

Full == Cardinality(Occupied) = MAX_SOURCES

AddRefused(r) ==
  /\ pc[r] = "insert"
  /\ Full
  /\ Goto(r, "error")
  /\ UNCHANGED <<fd, serial, key, next_aba_guard, slabVars, kernelVars, running, events>>

\* Slab::insert: a vacated slot, else one more.
Insertable ==
  LET vacated == {k \in Keys : k < entries /\ slab[k] = Vacant}
  IN  IF vacated = {} THEN {entries} ELSE vacated

Insert(r, k) ==
  /\ slab' = [slab EXCEPT ![k] = serial[r]]
  /\ entries' = IF k = entries THEN entries + 1 ELSE entries
  /\ heard' = [heard EXCEPT ![k] = {}]

\* The rest of add_source: the descriptor may be ready when it is registered.
AddInsert(r) ==
  /\ pc[r] = "insert"
  /\ ~Full
  /\ \E k \in Insertable :
       /\ Insert(r, k)
       /\ key' = [key EXCEPT ![r] = k]
       /\ epoll' = [epoll EXCEPT ![fd[r]] = [serial |-> serial[r], key |-> k]]
  /\ edges' \in {edges, edges \cup {fd[r]}}
  /\ Goto(r, "ready")
  /\ UNCHANGED <<fd, serial, next_aba_guard, leaked, open, running, events>>

\* io.register fails; the slot is taken, and nobody knows its key.
AddFails(r) ==
  /\ pc[r] = "insert"
  /\ ~Full
  /\ \E k \in Insertable : Insert(r, k)
  /\ leaked' = leaked \cup {serial[r]}
  /\ Goto(r, "error")
  /\ UNCHANGED <<fd, serial, key, next_aba_guard, kernelVars, running, events>>
-----------------------------------------------------------------------------
(* It is used and dropped. *)

\* Inner::poll_ready consumes the readiness of the slot.
PollReady(r) ==
  /\ pc[r] = "ready"
  /\ Alive
  /\ heard' = [heard EXCEPT ![key[r]] = {}]
  /\ UNCHANGED <<resourceVars, next_aba_guard, slab, entries, leaked, kernelVars, running,
                 events>>

\* Fault: the drop of a registration that failed empties a slot as well.
DropUnregisteredRemoves(r) ==
  /\ pc[r] \in {"init", "error"}
  /\ open' = open \ {fd[r]}
  /\ slab' = [slab EXCEPT ![key[r]] = Vacant]
  /\ Goto(r, "none")
  /\ UNCHANGED <<fd, serial, key, next_aba_guard, entries, heard, leaked, epoll, edges,
                 running, events>>

\* PollEvented::drop without a token: deregister has nothing to do or returns
\* an error, and the descriptor is closed.
DropUnregistered(r) ==
  /\ pc[r] \in {"init", "error"}
  /\ open' = open \ {fd[r]}
  /\ Goto(r, "none")
  /\ UNCHANGED <<fd, serial, key, next_aba_guard, slabVars, epoll, edges, running, events>>

\* Fault: the descriptor is closed first.
CloseFirst(r) ==
  /\ pc[r] = "ready"
  /\ open' = open \ {fd[r]}
  /\ epoll' = [epoll EXCEPT ![fd[r]] = None]
  /\ edges' = edges \ {fd[r]}
  /\ Goto(r, "close")
  /\ UNCHANGED <<fd, serial, key, next_aba_guard, slabVars, running, events>>

\* PollEvented::drop: deregister; without a reactor its error is ignored.
Deregister(r) ==
  /\ pc[r] = "ready"
  /\ epoll' = IF Alive THEN [epoll EXCEPT ![fd[r]] = None] ELSE epoll
  /\ edges' = IF Alive THEN edges \ {fd[r]} ELSE edges
  /\ Goto(r, "close")
  /\ UNCHANGED <<fd, serial, key, next_aba_guard, slabVars, open, running, events>>

\* The local variable io of PollEvented::drop goes out of scope; the kernel
\* forgets a descriptor that is closed.
Close(r) ==
  /\ pc[r] = "close"
  /\ open' = open \ {fd[r]}
  /\ epoll' = [epoll EXCEPT ![fd[r]] = None]
  /\ edges' = edges \ {fd[r]}
  /\ Goto(r, "drop")
  /\ UNCHANGED <<fd, serial, key, next_aba_guard, slabVars, running, events>>

\* Fault: the slot stays.
DropSourceForgotten(r) ==
  /\ pc[r] = "drop"
  /\ Goto(r, "none")
  /\ UNCHANGED <<fd, serial, key, next_aba_guard, slabVars, kernelVars, running, events>>

\* The fields of PollEvented are dropped, registration::Inner among them.
DropSource(r) ==
  /\ pc[r] = "drop"
  /\ slab' = IF Alive THEN [slab EXCEPT ![key[r]] = Vacant] ELSE slab
  /\ Goto(r, "none")
  /\ UNCHANGED <<fd, serial, key, next_aba_guard, entries, heard, leaked, kernelVars,
                 running, events>>
-----------------------------------------------------------------------------
(* The kernel and the reactor thread. *)

Arrive(f) ==
  /\ epoll[f] # None
  /\ edges' = edges \cup {f}
  /\ UNCHANGED <<resourceVars, next_aba_guard, slabVars, open, epoll, running, events>>

\* Reactor::poll: io.poll puts as much of the ready list into the buffer as fits.
Poll(fs) ==
  /\ running
  /\ events = {}
  /\ fs # {}
  /\ events' = {epoll[f] : f \in fs}
  /\ edges' = edges \ fs
  /\ UNCHANGED <<resourceVars, next_aba_guard, slabVars, open, epoll, running>>

\* Fault: the guard is not looked at.
AcceptsAnyGuard(t) == ~IsWakeup(t) /\ slab[t.key] # Vacant

\* The token is that of a resource, its slot is in use, and the guard is right.
Accepts(t) ==
  /\ ~IsWakeup(t)
  /\ slab[t.key] # Vacant
  /\ Guard(t.serial) = Guard(slab[t.key])

\* Fault: an event of a resource that is gone ends the whole batch.
DispatchGivesUp(t) ==
  /\ t \in events
  /\ IF Accepts(t)
       THEN /\ heard' = [heard EXCEPT ![t.key] = @ \cup {t.serial}]
            /\ events' = events \ {t}
       ELSE UNCHANGED heard /\ events' = {}
  /\ UNCHANGED <<resourceVars, next_aba_guard, slab, entries, leaked, kernelVars, running>>

\* Reactor::poll's loop and Reactor::dispatch, up to the fetch_or.
Dispatch(t) ==
  /\ t \in events
  /\ heard' = IF Accepts(t) THEN [heard EXCEPT ![t.key] = @ \cup {t.serial}] ELSE heard
  /\ events' = events \ {t}
  /\ UNCHANGED <<resourceVars, next_aba_guard, slab, entries, leaked, kernelVars, running>>

\* The thread leaves run, or panics between two dispatches.
Stop ==
  /\ running
  /\ running' = FALSE
  /\ events' = {}
  /\ UNCHANGED <<resourceVars, next_aba_guard, slabVars, kernelVars>>
-----------------------------------------------------------------------------
ResourceStep(r) ==
  \/ Open(r)
  \/ RegisterGone(r)
  \/ AddGuard(r)
  \/ AddRefused(r)
  \/ AddInsert(r)
  \/ AddFails(r)
  \/ PollReady(r)
  \/ DropUnregistered(r)
  \/ Deregister(r)
  \/ Close(r)
  \/ DropSource(r)

Next ==
  \/ \E r \in Resources : ResourceStep(r)
  \/ \E f \in Fds : Arrive(f)
  \/ \E fs \in SUBSET edges : Poll(fs)
  \/ \E t \in events : Dispatch(t)
  \/ Stop

Spec == Init /\ [][Next]_vars

\* The thread keeps running, and the kernel's ready list is a queue: a descriptor
\* that stays on it is reported by some later poll.
Fairness ==
  /\ WF_vars(\E t \in events : Dispatch(t))
  /\ \A f \in Fds : SF_vars(\E fs \in SUBSET edges : f \in fs /\ Poll(fs))

FairSpec == Spec /\ Fairness
-----------------------------------------------------------------------------
(* Correctness. *)

\* The resource r has a slot and has not given it back.
Owns(r) == pc[r] \in {"ready", "close", "drop"}

\* The token of a registered resource leads to the ScheduledIo of this very
\* registration, so that io_dispatch[self.token] does not panic or meet another
\* resource's readiness, and is not taken for the wakeup of the reactor.
OwnSlot ==
  Alive => \A r \in Resources :
             Owns(r) => slab[key[r]] = serial[r]
                          /\ ~IsWakeup([serial |-> serial[r], key |-> key[r]])

\* The ABA guard: readiness in a slot is that of its own resource, whatever was
\* dropped and registered while an event waited in the buffer, or the guards
\* went all the way round in between.
GuardSeparates ==
  \A k \in Occupied : \A s \in heard[k] :
    s = slab[k] \/ s + Guards <= slab[k] \/ slab[k] + Guards <= s

\* A resource that is in use is registered with epoll under its own token, no
\* matter which resource with the same descriptor number was dropped meanwhile.
Armed ==
  Alive => \A r \in Resources :
             pc[r] = "ready" => epoll[fd[r]] = [serial |-> serial[r], key |-> key[r]]

\* A slot in use belongs to a resource, unless its io.register failed.
SlotsAccounted ==
  Alive => \A k \in Occupied :
             slab[k] \in leaked \/ \E r \in Resources : Owns(r) /\ key[r] = k

\* The event of r is in epoll's ready list or in the buffer.
Undelivered(r) == fd[r] \in edges \/ [serial |-> serial[r], key |-> key[r]] \in events

\* The event of a resource in use is nowhere dropped on its way through epoll, the
\* buffer and dispatch into its slot, and there only the resource's own poll_ready
\* consumes it, whichever others are registered, polled or dropped meanwhile.
EventKept ==
  [][\A r \in Resources :
       running' /\ pc[r] = "ready" /\ pc'[r] = "ready" =>
         /\ Undelivered(r) => Undelivered(r)' \/ serial[r] \in heard'[key[r]]
         /\ serial[r] \in heard[key[r]]
              => serial[r] \in heard'[key[r]] \/ PollReady(r)]_vars

\* An edge of a resource in use reaches its slot, though stale events share the
\* buffer with it and the buffer may be too small.
Delivered ==
  \A r \in Resources :
    (running /\ pc[r] = "ready" /\ fd[r] \in edges)
      ~> (~running \/ pc[r] # "ready" \/ serial[r] \in heard[key[r]])
=============================================================================
