---------------------------- MODULE ShardedRwLock ----------------------------
(***************************************************************************)
(* The reactor's RwLock: one parking_lot lock per shard.  read locks the   *)
(* shard of the calling thread, write locks all shards one after another.  *)
(* The shard comes from the thread's index, which a global registry hands  *)
(* out on the thread's first read and takes back while the thread's        *)
(* thread-local storage is torn down.  From then on the thread counts as   *)
(* index 0; it may still use the lock, from the destructors of other       *)
(* thread-locals.                                                          *)
(***************************************************************************)
EXTENDS Integers, Sequences, FiniteSets

CONSTANTS
  Threads,     \* the threads that exist at a time; an exited one is replaced
  NumShards,   \* num_cpus::get().next_power_of_two()
  NoThread     \* "not write-locked"

ASSUME ShardsAssumption ==
  /\ NumShards \in Nat \ {0}
  /\ \E k \in 0 .. NumShards : NumShards = 2 ^ k

ASSUME ThreadsAssumption == IsFiniteSet(Threads) /\ NoThread \notin Threads

VARIABLES
  writer,      \* shards: the thread that has it write-locked, or NoThread
  readers,     \* shards: the threads that have it read-locked
  pc,          \* threads: "idle" | "read" | "reading" | "write" | "parked" |
               \* "writing" | "unlock"
  shard,       \* threads: the shard its guard refers to, or its loop is at
  tls,         \* threads: REGISTRATION is "unset" | "set" | "gone"
  mapping,     \* THREAD_INDICES.mapping; a REGISTRATION's index is its entry
  free_list,   \* THREAD_INDICES.free_list
  next_index   \* THREAD_INDICES.next_index

lockVars  == <<writer, readers, pc, shard>>
indexVars == <<tls, mapping, free_list, next_index>>
vars      == <<lockVars, indexVars>>

Shards == 0 .. NumShards - 1

LockTypeOK ==
  /\ writer \in [Shards -> Threads \cup {NoThread}]
  /\ readers \in [Shards -> SUBSET Threads]
  /\ pc \in [Threads ->
              {"idle", "read", "reading", "write", "parked", "writing", "unlock"}]
  /\ shard \in [Threads -> Shards]

IndexTypeOK ==
  /\ tls \in [Threads -> {"unset", "set", "gone"}]
  /\ mapping \in [{t \in Threads : tls[t] = "set"} -> Nat]
  /\ free_list \in Seq(Nat)
  /\ next_index \in Nat

\* shards are indexed within bounds, and the threads with a REGISTRATION are
\* the ones THREAD_INDICES maps.
TypeOK == LockTypeOK /\ IndexTypeOK

Init ==
  /\ writer = [s \in Shards |-> NoThread]
  /\ readers = [s \in Shards |-> {}]
  /\ pc = [t \in Threads |-> "idle"]
  /\ shard = [t \in Threads |-> 0]
  /\ tls = [t \in Threads |-> "unset"]
  /\ mapping = [t \in {} |-> 0]
  /\ free_list = <<>>
  /\ next_index = 0
-----------------------------------------------------------------------------
(* The registry of thread indices, behind its mutex. *)

\* free_list.pop(), or a new index.
Allocated == IF free_list = <<>> THEN next_index ELSE free_list[Len(free_list)]

Insert(t, i) ==
  mapping' = [u \in DOMAIN mapping \cup {t} |-> IF u = t THEN i ELSE mapping[u]]

\* Fault: the index stays on the free list.
RegisterKeepsFree(t) ==
  /\ tls' = [tls EXCEPT ![t] = "set"]
  /\ Insert(t, Allocated)
  /\ next_index' = IF free_list = <<>> THEN next_index + 1 ELSE next_index
  /\ UNCHANGED free_list

\* The initialiser of the thread-local REGISTRATION.
Register(t) ==
  /\ tls' = [tls EXCEPT ![t] = "set"]
  /\ Insert(t, Allocated)
  /\ IF free_list = <<>>
       THEN next_index' = next_index + 1 /\ UNCHANGED free_list
       ELSE free_list' = SubSeq(free_list, 1, Len(free_list) - 1) /\ UNCHANGED next_index

\* Registration::drop: the thread's thread-locals are destroyed.
Unregister(t) ==
  /\ pc[t] = "idle"
  /\ tls[t] = "set"
  /\ tls' = [tls EXCEPT ![t] = "gone"]
  /\ mapping' = [u \in DOMAIN mapping \ {t} |-> mapping[u]]
  /\ free_list' = Append(free_list, mapping[t])
  /\ UNCHANGED <<lockVars, next_index>>

\* The thread exits and another one, with an id of its own, takes its place.
ThreadExit(t) ==
  /\ pc[t] = "idle"
  /\ tls[t] = "gone"
  /\ tls' = [tls EXCEPT ![t] = "unset"]
  /\ UNCHANGED <<lockVars, mapping, free_list, next_index>>

\* Fault: the index is not reduced to the number of shards.
ShardIndexUnmasked(t) ==
  CASE tls[t] = "set"   -> mapping[t]
    [] tls[t] = "unset" -> Allocated
    [] tls[t] = "gone"  -> 0

\* thread_index() & (self.shards.len() - 1), of a thread that has an index or
\* gets one.
ShardIndex(t) ==
  CASE tls[t] = "set"   -> mapping[t] % NumShards
    [] tls[t] = "unset" -> Allocated % NumShards
    [] tls[t] = "gone"  -> 0
-----------------------------------------------------------------------------
(* The lock. *)

\* RwLock::read, up to the lock of the shard.
Read(t) ==
  /\ pc[t] = "idle"
  /\ pc' = [pc EXCEPT ![t] = "read"]
  /\ shard' = [shard EXCEPT ![t] = ShardIndex(t)]
  /\ IF tls[t] = "unset" THEN Register(t) ELSE UNCHANGED indexVars
  /\ UNCHANGED <<writer, readers>>

\* Fault: read_recursive, which overtakes parked writers.
ReadLockRecursive(t) ==
  /\ pc[t] = "read"
  /\ writer[shard[t]] = NoThread
  /\ pc' = [pc EXCEPT ![t] = "reading"]
  /\ readers' = [readers EXCEPT ![shard[t]] = @ \cup {t}]
  /\ UNCHANGED <<writer, shard, indexVars>>

\* A reader lets the writers go first that are parked on the shard.
Open(s) ==
  /\ writer[s] = NoThread
  /\ \A u \in Threads : ~(pc[u] = "parked" /\ shard[u] = s)

\* parking_lot's RwLock::read of the shard.
ReadLock(t) ==
  /\ pc[t] = "read"
  /\ Open(shard[t])
  /\ pc' = [pc EXCEPT ![t] = "reading"]
  /\ readers' = [readers EXCEPT ![shard[t]] = @ \cup {t}]
  /\ UNCHANGED <<writer, shard, indexVars>>

\* RwLockReadGuard is dropped: the guard knows its shard.
ReadUnlock(t) ==
  /\ pc[t] = "reading"
  /\ pc' = [pc EXCEPT ![t] = "idle"]
  /\ readers' = [readers EXCEPT ![shard[t]] = @ \ {t}]
  /\ UNCHANGED <<writer, shard, indexVars>>

\* RwLock::write: enters the loop over the shards.
Write(t) ==
  /\ pc[t] = "idle"
  /\ pc' = [pc EXCEPT ![t] = "write"]
  /\ shard' = [shard EXCEPT ![t] = 0]
  /\ UNCHANGED <<writer, readers, indexVars>>

Free(s) == writer[s] = NoThread /\ readers[s] = {}

\* parking_lot's RwLock::write of a shard that is not free.
WritePark(t) ==
  /\ pc[t] = "write"
  /\ ~Free(shard[t])
  /\ pc' = [pc EXCEPT ![t] = "parked"]
  /\ UNCHANGED <<writer, readers, shard, indexVars>>

\* Fault: the loop ends before the last shard.
WriteLockShort(t) ==
  /\ pc[t] \in {"write", "parked"}
  /\ Free(shard[t])
  /\ writer' = [writer EXCEPT ![shard[t]] = t]
  /\ IF shard[t] >= NumShards - 2
       THEN pc' = [pc EXCEPT ![t] = "writing"] /\ UNCHANGED shard
       ELSE pc' = [pc EXCEPT ![t] = "write"] /\ shard' = [shard EXCEPT ![t] = @ + 1]
  /\ UNCHANGED <<readers, indexVars>>

\* One shard.write() of the loop, and on to the next.
WriteLock(t) ==
  /\ pc[t] \in {"write", "parked"}
  /\ Free(shard[t])
  /\ writer' = [writer EXCEPT ![shard[t]] = t]
  /\ IF shard[t] = NumShards - 1
       THEN pc' = [pc EXCEPT ![t] = "writing"] /\ UNCHANGED shard
       ELSE pc' = [pc EXCEPT ![t] = "write"] /\ shard' = [shard EXCEPT ![t] = @ + 1]
  /\ UNCHANGED <<readers, indexVars>>

\* RwLockWriteGuard::drop: enters the loop over the shards, in reverse.
WriteDrop(t) ==
  /\ pc[t] = "writing"
  /\ pc' = [pc EXCEPT ![t] = "unlock"]
  /\ shard' = [shard EXCEPT ![t] = NumShards - 1]
  /\ UNCHANGED <<writer, readers, indexVars>>

\* Fault: the loop ends before the first shard.
WriteUnlockShort(t) ==
  /\ pc[t] = "unlock"
  /\ writer' = [writer EXCEPT ![shard[t]] = NoThread]
  /\ IF shard[t] <= 1
       THEN pc' = [pc EXCEPT ![t] = "idle"] /\ UNCHANGED shard
       ELSE shard' = [shard EXCEPT ![t] = @ - 1] /\ UNCHANGED pc
  /\ UNCHANGED <<readers, indexVars>>

\* One force_unlock_write() of the loop.
WriteUnlock(t) ==
  /\ pc[t] = "unlock"
  /\ writer' = [writer EXCEPT ![shard[t]] = NoThread]
  /\ IF shard[t] = 0
       THEN pc' = [pc EXCEPT ![t] = "idle"] /\ UNCHANGED shard
       ELSE shard' = [shard EXCEPT ![t] = @ - 1] /\ UNCHANGED pc
  /\ UNCHANGED <<readers, indexVars>>
-----------------------------------------------------------------------------
Start(t) == Read(t) \/ Write(t) \/ Unregister(t) \/ ThreadExit(t)

Acquire(t) == ReadLock(t) \/ WritePark(t) \/ WriteLock(t)

Release(t) == ReadUnlock(t) \/ WriteDrop(t) \/ WriteUnlock(t)

Next == \E t \in Threads : Start(t) \/ Acquire(t) \/ Release(t)

Spec == Init /\ [][Next]_vars

\* Guards are dropped in the end, and a parking_lot lock that keeps becoming
\* available is handed to a thread that keeps waiting for it (parking_lot is
\* eventually fair).
Fairness == \A t \in Threads : WF_vars(Release(t)) /\ SF_vars(Acquire(t))

FairSpec == Spec /\ Fairness
-----------------------------------------------------------------------------
(* Correctness. *)

\* The sharded lock implements a reader-writer lock: "a number of readers or at
\* most one writer at any point in time", whichever shard readers went through.
Lock == INSTANCE RwLockSpec WITH
  readers <- {t \in Threads : pc[t] = "reading"},
  writers <- {t \in Threads : pc[t] = "writing"}

ImplementsRwLock == Lock!Spec

\* The registry neither loses an index nor gives it to two threads: registered
\* threads and the free list share out the indices below next_index, each to
\* one of them and once.
IndicesPartitioned ==
  /\ \A t, u \in DOMAIN mapping : mapping[t] = mapping[u] => t = u
  /\ \A j, k \in DOMAIN free_list : free_list[j] = free_list[k] => j = k
  /\ \A t \in DOMAIN mapping, k \in DOMAIN free_list : mapping[t] # free_list[k]
  /\ {mapping[t] : t \in DOMAIN mapping} \cup {free_list[k] : k \in DOMAIN free_list}
       = 0 .. next_index - 1

\* "Indices usually tend to be consecutive numbers between 0 and the number of
\* running threads": however many threads come and go, no more indices exist
\* than threads can exist at a time.
IndicesBounded == next_index <= Cardinality(Threads)

\* Threads that come and go in any order neither lose an index, nor share one,
\* nor make the registry grow.
IndicesKept == IndicesPartitioned /\ IndicesBounded

\* parking_lot does not let the thread on.
Blocked(t) ==
  \/ pc[t] = "read" /\ ~Open(shard[t])
  \/ pc[t] = "parked" /\ ~Free(shard[t])

\* The threads never wait for each other in a circle: while one waits, some
\* thread that uses the lock can take its next step.  Writers hold some shards
\* while they wait for others, and readers queue behind writers that only wait,
\* but all writers take the shards in the same order.
NoDeadlock ==
  \A t \in Threads : Blocked(t) => \E u \in Threads : pc[u] # "idle" /\ ~Blocked(u)

\* A writer, which needs all shards at once, gets them in the end, however many
\* readers and other writers keep coming: all writers take the shards in the
\* same order, and readers hold one shard only.
WriterGranted ==
  \A t \in Threads : pc[t] = "write" ~> pc[t] = "writing"
=============================================================================
