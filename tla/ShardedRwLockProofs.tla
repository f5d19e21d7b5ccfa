------------------------- MODULE ShardedRwLockProofs -------------------------
(***************************************************************************)
(* Proofs, for every number of threads and of shards, that the sharded     *)
(* lock implements a reader-writer lock and that the registry shares out   *)
(* the thread indices.                                                     *)
(***************************************************************************)
EXTENDS ShardedRwLock, SequenceTheorems, FiniteSetTheorems, WellFoundedInduction, TLAPS

\* The shards that a thread has write-locked, as its program counter tells.
HoldsWrite(t, s) ==
  \/ pc[t] \in {"write", "parked"} /\ s < shard[t]
  \/ pc[t] = "writing"
  \/ pc[t] = "unlock" /\ s <= shard[t]

\* The readers of a shard are those whose guard is its, a write-locked shard has no
\* readers, and the write locks are those the writers believe they have.
LockInv ==
  /\ \A t \in Threads : pc[t] = "reading" => t \in readers[shard[t]]
  /\ \A s \in Shards : \A t \in readers[s] : pc[t] = "reading" /\ shard[t] = s
  /\ \A s \in Shards : writer[s] # NoThread => readers[s] = {}
  /\ \A s \in Shards, t \in Threads : writer[s] = t <=> HoldsWrite(t, s)
-----------------------------------------------------------------------------
\* popping the free list, or bumping next_index, yields a number.
LEMMA AllocatedType == IndexTypeOK => Allocated \in Nat
  BY DEF IndexTypeOK, Allocated

\* thread_index() & (len - 1) is a shard, whatever the thread's state.
LEMMA ShardIndexType ==
  ASSUME IndexTypeOK, NEW t \in Threads
  PROVE  ShardIndex(t) \in Shards
<1>1. \A i \in Nat : i % NumShards \in Shards
  BY ShardsAssumption DEF Shards
<1>2. CASE tls[t] = "set"
  <2>1. mapping[t] \in Nat  BY <1>2 DEF IndexTypeOK
  <2>2. ShardIndex(t) = mapping[t] % NumShards  BY <1>2, Zenon DEF ShardIndex
  <2>3. QED  BY <1>1, <2>1, <2>2
<1>3. CASE tls[t] = "unset"
  <2>1. ShardIndex(t) = Allocated % NumShards  BY <1>3, Zenon DEF ShardIndex
  <2>2. QED  BY <1>1, <2>1, AllocatedType
<1>4. CASE tls[t] = "gone"
  <2>1. ShardIndex(t) = 0  BY <1>4, Zenon DEF ShardIndex
  <2>2. QED  BY <2>1, ShardsAssumption DEF Shards
<1>5. QED  BY <1>2, <1>3, <1>4 DEF IndexTypeOK

\* Vec::pop: what remains of the free list is its front.
LEMMA PopFacts ==
  ASSUME NEW f \in Seq(Nat), NEW n \in Nat, Len(f) = n + 1
  PROVE  /\ SubSeq(f, 1, n) \in Seq(Nat)
         /\ Len(SubSeq(f, 1, n)) = n
         /\ \A k \in 1 .. n : SubSeq(f, 1, n)[k] = f[k]
<1>1. \A k \in 1 .. n : f[k] \in Nat
  BY LenProperties
<1>2. /\ SubSeq(f, 1, n) \in Seq(Nat)
      /\ Len(SubSeq(f, 1, n)) = IF 1 <= n THEN n - 1 + 1 ELSE 0
      /\ \A k \in 1 .. n - 1 + 1 : SubSeq(f, 1, n)[k] = f[1 + k - 1]
  BY <1>1, SubSeqProperties
<1>3. n - 1 + 1 = n /\ (~(1 <= n) => n = 0) /\ \A k \in Int : 1 + k - 1 = k
  OBVIOUS
<1>4. QED  BY <1>2, <1>3

\* The registry's critical sections keep their types.
LEMMA IndexTypeNext ==
  ASSUME TypeOK, [Next]_vars
  PROVE  IndexTypeOK'
<1> USE DEF TypeOK, IndexTypeOK, indexVars
<1>1. ASSUME NEW t \in Threads, Register(t), tls[t] = "unset"
      PROVE  IndexTypeOK'
  <2>1. tls' \in [Threads -> {"unset", "set", "gone"}]
    BY <1>1 DEF Register
  <2>2. mapping' \in [{u \in Threads : tls'[u] = "set"} -> Nat]
    <3>1. DOMAIN mapping \cup {t} = {u \in Threads : tls'[u] = "set"}
      BY <1>1 DEF Register
    <3>2. QED  BY <1>1, <3>1, AllocatedType DEF Register, Insert
  <2>3. free_list' \in Seq(Nat) /\ next_index' \in Nat
    <3>1. CASE free_list = <<>>  BY <1>1, <3>1 DEF Register
    <3>2. CASE free_list # <<>>
      <4>1. PICK n \in Nat : Len(free_list) = n + 1  BY <3>2
      <4>2. Len(free_list) - 1 = n  BY <4>1
      <4>3. QED  BY <1>1, <3>2, <4>1, <4>2, PopFacts DEF Register
    <3>3. QED  BY <3>1, <3>2
  <2>4. QED  BY <2>1, <2>2, <2>3
<1>2. ASSUME NEW t \in Threads, Unregister(t)
      PROVE  IndexTypeOK'
  <2>1. DOMAIN mapping \ {t} = {u \in Threads : tls'[u] = "set"}
    BY <1>2 DEF Unregister
  <2>2. QED  BY <1>2, <2>1 DEF Unregister
<1>3. ASSUME NEW t \in Threads, ThreadExit(t)
      PROVE  IndexTypeOK'
  <2>1. DOMAIN mapping = {u \in Threads : tls'[u] = "set"}
    BY <1>3 DEF ThreadExit
  <2>2. QED  BY <1>3, <2>1 DEF ThreadExit
<1>4. CASE UNCHANGED indexVars
  BY <1>4
<1>5. QED
  BY <1>1, <1>2, <1>3, <1>4
  DEF Next, vars, Start, Acquire, Release, Read, Write, ReadLock, WritePark, WriteLock,
      ReadUnlock, WriteDrop, WriteUnlock

\* The lock's steps keep their types and the agreement between the shards and
\* the threads.
LEMMA LockNext ==
  ASSUME TypeOK, LockInv, [Next]_vars
  PROVE  LockTypeOK' /\ LockInv'
<1> USE ShardsAssumption, ThreadsAssumption
        DEF TypeOK, LockTypeOK, LockInv, HoldsWrite, Shards
<1>1. ASSUME NEW t \in Threads, Read(t)
      PROVE  LockTypeOK' /\ LockInv'
  BY <1>1, ShardIndexType DEF Read
<1>2. ASSUME NEW t \in Threads, ReadLock(t)
      PROVE  LockTypeOK' /\ LockInv'
  BY <1>2 DEF ReadLock, Open
<1>3. ASSUME NEW t \in Threads, ReadUnlock(t)
      PROVE  LockTypeOK' /\ LockInv'
  BY <1>3 DEF ReadUnlock
<1>4. ASSUME NEW t \in Threads, Write(t)
      PROVE  LockTypeOK' /\ LockInv'
  BY <1>4 DEF Write
<1>5. ASSUME NEW t \in Threads, WritePark(t)
      PROVE  LockTypeOK' /\ LockInv'
  BY <1>5 DEF WritePark
<1>6. ASSUME NEW t \in Threads, WriteLock(t)
      PROVE  LockTypeOK' /\ LockInv'
  <2>1. LockTypeOK'
    <3>1. CASE shard[t] = NumShards - 1  BY <1>6, <3>1 DEF WriteLock
    <3>2. CASE shard[t] # NumShards - 1
      <4>1. shard[t] + 1 \in Shards  BY <3>2
      <4>2. /\ writer' = [writer EXCEPT ![shard[t]] = t]
            /\ pc' = [pc EXCEPT ![t] = "write"]
            /\ shard' = [shard EXCEPT ![t] = @ + 1]
            /\ UNCHANGED readers
        BY <1>6, <3>2 DEF WriteLock
      <4>3. QED  BY <4>1, <4>2
    <3>3. QED  BY <3>1, <3>2
  <2>2. /\ \A u \in Threads : pc'[u] = "reading" => u \in readers'[shard'[u]]
        /\ \A s \in Shards : \A u \in readers'[s] : pc'[u] = "reading" /\ shard'[u] = s
        /\ \A s \in Shards : writer'[s] # NoThread => readers'[s] = {}
    BY <1>6 DEF WriteLock, Free
  <2>3. ASSUME NEW s \in Shards, NEW u \in Threads
        PROVE  writer'[s] = u <=> HoldsWrite(u, s)'
    <3>1. CASE u = t
      BY <1>6, <3>1 DEF WriteLock, Free
    <3>2. CASE u # t
      BY <1>6, <3>2 DEF WriteLock, Free
    <3>3. QED  BY <3>1, <3>2
  <2>4. QED  BY <2>1, <2>2, <2>3
<1>7. ASSUME NEW t \in Threads, WriteDrop(t)
      PROVE  LockTypeOK' /\ LockInv'
  BY <1>7 DEF WriteDrop
<1>8. ASSUME NEW t \in Threads, WriteUnlock(t)
      PROVE  LockTypeOK' /\ LockInv'
  <2>1. LockTypeOK'
    <3>1. CASE shard[t] = 0  BY <1>8, <3>1 DEF WriteUnlock
    <3>2. CASE shard[t] # 0
      <4>1. shard[t] - 1 \in Shards  BY <3>2
      <4>2. QED  BY <1>8, <3>2, <4>1 DEF WriteUnlock
    <3>3. QED  BY <3>1, <3>2
  <2>2. /\ \A u \in Threads : pc'[u] = "reading" => u \in readers'[shard'[u]]
        /\ \A s \in Shards : \A u \in readers'[s] : pc'[u] = "reading" /\ shard'[u] = s
        /\ \A s \in Shards : writer'[s] # NoThread => readers'[s] = {}
    <3>1. ASSUME NEW u \in Threads, pc'[u] = "reading"
          PROVE  u \in readers'[shard'[u]]
      <4>1. u # t /\ pc[u] = "reading" /\ shard'[u] = shard[u] /\ readers' = readers
        BY <1>8, <3>1 DEF WriteUnlock
      <4>2. QED  BY <4>1
    <3>2. ASSUME NEW s \in Shards, writer'[s] # NoThread
          PROVE  readers'[s] = {}
      <4>1. writer[s] # NoThread /\ readers' = readers
        BY <1>8, <3>2 DEF WriteUnlock
      <4>2. QED  BY <4>1
    <3>3. ASSUME NEW s \in Shards, NEW u \in readers'[s]
          PROVE  pc'[u] = "reading" /\ shard'[u] = s
      <4>1. u \in Threads /\ pc[u] = "reading" /\ shard[u] = s
        BY <1>8, <3>3 DEF WriteUnlock
      <4>2. QED  BY <1>8, <4>1 DEF WriteUnlock
    <3>4. QED  BY <3>1, <3>2, <3>3
  <2>3. ASSUME NEW s \in Shards, NEW u \in Threads
        PROVE  writer'[s] = u <=> HoldsWrite(u, s)'
    <3>1. CASE u = t
      BY <1>8, <3>1 DEF WriteUnlock
    <3>2. CASE u # t
      BY <1>8, <3>2 DEF WriteUnlock
    <3>3. QED  BY <3>1, <3>2
  <2>4. QED  BY <2>1, <2>2, <2>3
<1>9. CASE UNCHANGED lockVars
  BY <1>9 DEF lockVars
<1>10. QED
  BY <1>1, <1>2, <1>3, <1>4, <1>5, <1>6, <1>7, <1>8, <1>9
  DEF Next, vars, Start, Acquire, Release, Unregister, ThreadExit

\* The values of a function on a set and one point more.
LEMMA ExtendedRange ==
  ASSUME NEW f, NEW g, NEW D, NEW x, \A k \in D : g[k] = f[k]
  PROVE  {g[k] : k \in D \cup {x}} = {f[k] : k \in D} \cup {g[x]}
  OBVIOUS

\* Registering takes an index off the free list or the next new one.
LEMMA RegisterPartition ==
  ASSUME TypeOK, IndicesPartitioned, NEW t \in Threads, tls[t] = "unset", Register(t)
  PROVE  IndicesPartitioned'
<1> USE DEF TypeOK, IndexTypeOK, IndicesPartitioned
<1>1. /\ t \notin DOMAIN mapping
      /\ DOMAIN mapping' = DOMAIN mapping \cup {t}
      /\ mapping'[t] = Allocated
      /\ \A u \in DOMAIN mapping : mapping'[u] = mapping[u]
  BY DEF Register, Insert
<1>2. {mapping'[u] : u \in DOMAIN mapping'} = {mapping[u] : u \in DOMAIN mapping} \cup {Allocated}
  BY <1>1
<1>3. CASE free_list = <<>>
  <2>1. /\ DOMAIN free_list = {}
        /\ Allocated = next_index
        /\ next_index' = next_index + 1
        /\ free_list' = free_list
    BY <1>3 DEF Register, Allocated
  <2>2. \A u \in DOMAIN mapping : mapping[u] \in 0 .. next_index - 1
    OBVIOUS
  <2>3. {mapping[u] : u \in DOMAIN mapping} = 0 .. next_index - 1
    BY <2>1
  <2>4. (0 .. next_index - 1) \cup {next_index} = 0 .. next_index' - 1
    BY <2>1
  <2>5. QED  BY <1>1, <1>2, <2>1, <2>2, <2>3, <2>4
<1>4. CASE free_list # <<>>
  <2>1. PICK n \in Nat : Len(free_list) = n + 1  BY <1>4
  <2>2. /\ DOMAIN free_list = 1 .. n + 1
        /\ DOMAIN free_list' = 1 .. n
        /\ \A k \in 1 .. n : free_list'[k] = free_list[k]
        /\ Allocated = free_list[n + 1]
        /\ next_index' = next_index
    <3>1. Len(free_list) - 1 = n  BY <2>1
    <3>2. QED  BY <1>4, <2>1, <3>1, PopFacts DEF Register, Allocated
  <2>3. {free_list[k] : k \in DOMAIN free_list}
          = {free_list'[k] : k \in DOMAIN free_list'} \cup {Allocated}
    <3>1. DOMAIN free_list = DOMAIN free_list' \cup {n + 1}  BY <2>2
    <3>2. \A k \in DOMAIN free_list' : free_list[k] = free_list'[k]  BY <2>2
    <3>3. Allocated = free_list[n + 1]  BY <2>2
    <3>4. QED  BY <3>1, <3>2, <3>3, ExtendedRange
  <2>4. n + 1 \in DOMAIN free_list /\ \A k \in 1 .. n : k # n + 1 /\ k \in DOMAIN free_list
    BY <2>2
  <2>5. /\ \A u, v \in DOMAIN mapping' : mapping'[u] = mapping'[v] => u = v
        /\ \A j, k \in DOMAIN free_list' : free_list'[j] = free_list'[k] => j = k
        /\ \A u \in DOMAIN mapping', k \in DOMAIN free_list' : mapping'[u] # free_list'[k]
    BY <1>1, <2>2, <2>4
  <2>6. QED  BY <1>2, <2>2, <2>3, <2>5
<1>5. QED  BY <1>3, <1>4

\* A new index is made only when every old one is held by another thread.
LEMMA RegisterBounded ==
  ASSUME TypeOK, IndicesPartitioned, IndicesBounded,
         NEW t \in Threads, tls[t] = "unset", Register(t)
  PROVE  IndicesBounded'
<1> USE DEF TypeOK, IndexTypeOK
<1>1. CASE free_list # <<>>
  BY <1>1 DEF Register, IndicesBounded
<1>2. CASE free_list = <<>>
  <2> DEFINE D == DOMAIN mapping
  <2>1. /\ D \in SUBSET (Threads \ {t})
        /\ IsFiniteSet(Threads \ {t})
        /\ Cardinality(Threads \ {t}) = Cardinality(Threads) - 1
    BY ThreadsAssumption, FS_RemoveElement
  <2>2. IsFiniteSet(D) /\ Cardinality(D) <= Cardinality(Threads \ {t})
    BY <2>1, FS_Subset
  <2>3. DOMAIN free_list = {} /\ next_index' = next_index + 1
    BY <1>2 DEF Register
  <2>4. {mapping[u] : u \in D} = 0 .. next_index - 1
    BY <2>3 DEF IndicesPartitioned
  <2>5. mapping \in Bijection(D, 0 .. next_index - 1)
    BY <2>4 DEF IndicesPartitioned, Bijection, Injection, Surjection, IsInjective
  <2>6. Cardinality(0 .. next_index - 1) = Cardinality(D)
    BY <2>2, <2>5, FS_Bijection DEF ExistsBijection
  <2>7. Cardinality(0 .. next_index - 1) = next_index
    BY FS_Interval
  <2>8. Cardinality(Threads) \in Nat /\ Cardinality(D) \in Nat
    BY <2>2, ThreadsAssumption, FS_CardinalityType
  <2> HIDE DEF D
  <2>9. QED  BY <2>1, <2>2, <2>3, <2>6, <2>7, <2>8 DEF IndicesBounded
<1>3. QED  BY <1>1, <1>2

\* Unregistering moves the thread's index to the free list.
LEMMA UnregisterPartition ==
  ASSUME TypeOK, IndicesPartitioned, NEW t \in Threads, Unregister(t)
  PROVE  IndicesPartitioned'
<1> USE DEF TypeOK, IndexTypeOK, IndicesPartitioned
<1>1. /\ t \in DOMAIN mapping
      /\ DOMAIN mapping' = DOMAIN mapping \ {t}
      /\ \A u \in DOMAIN mapping' : mapping'[u] = mapping[u]
      /\ next_index' = next_index
  BY DEF Unregister
<1>2. PICK n \in Nat : n = Len(free_list)  OBVIOUS
<1>3. /\ DOMAIN free_list = 1 .. n
      /\ DOMAIN free_list' = 1 .. n + 1
      /\ \A k \in 1 .. n : free_list'[k] = free_list[k]
      /\ free_list'[n + 1] = mapping[t]
  BY <1>1, <1>2 DEF Unregister
<1>4. {mapping[u] : u \in DOMAIN mapping}
        = {mapping'[u] : u \in DOMAIN mapping'} \cup {mapping[t]}
  BY <1>1
<1>5. DOMAIN free_list' = DOMAIN free_list \cup {n + 1} /\ n + 1 \notin DOMAIN free_list
  BY <1>3
<1>6. {free_list'[k] : k \in DOMAIN free_list'}
        = {free_list[k] : k \in DOMAIN free_list} \cup {mapping[t]}
  <2>1. \A k \in DOMAIN free_list : free_list'[k] = free_list[k]  BY <1>3
  <2>2. free_list'[n + 1] = mapping[t]  BY <1>3
  <2>3. QED  BY <1>5, <2>1, <2>2, ExtendedRange
<1>7. /\ \A u, v \in DOMAIN mapping' : mapping'[u] = mapping'[v] => u = v
      /\ \A j, k \in DOMAIN free_list' : free_list'[j] = free_list'[k] => j = k
      /\ \A u \in DOMAIN mapping', k \in DOMAIN free_list' : mapping'[u] # free_list'[k]
  <2>1. \A k \in DOMAIN free_list : free_list'[k] = free_list[k] /\ mapping[t] # free_list[k]
    BY <1>1, <1>3
  <2>2. \A k \in DOMAIN free_list' : k \in DOMAIN free_list \/ k = n + 1
    BY <1>5
  <2>3. free_list'[n + 1] = mapping[t]  BY <1>3
  <2>4. \A j, k \in DOMAIN free_list' : free_list'[j] = free_list'[k] => j = k
    BY <2>1, <2>2, <2>3
  <2>5. \A u \in DOMAIN mapping', k \in DOMAIN free_list' : mapping'[u] # free_list'[k]
    BY <1>1, <2>1, <2>2, <2>3
  <2>6. QED  BY <1>1, <2>4, <2>5
<1>8. QED  BY <1>1, <1>4, <1>6, <1>7

\* Every step keeps the registry's indices shared out and few.
LEMMA IndexNext ==
  ASSUME TypeOK, IndicesPartitioned, IndicesBounded, [Next]_vars
  PROVE  IndicesPartitioned' /\ IndicesBounded'
<1>1. ASSUME NEW t \in Threads, tls[t] = "unset", Register(t)
      PROVE  IndicesPartitioned' /\ IndicesBounded'
  BY <1>1, RegisterPartition, RegisterBounded
<1>2. ASSUME NEW t \in Threads, Unregister(t)
      PROVE  IndicesPartitioned' /\ IndicesBounded'
  BY <1>2, UnregisterPartition DEF Unregister, IndicesBounded
<1>3. CASE UNCHANGED <<mapping, free_list, next_index>>
  BY <1>3 DEF IndicesPartitioned, IndicesBounded
<1>4. QED
  BY <1>1, <1>2, <1>3
  DEF Next, vars, indexVars, Start, Acquire, Release, Read, Write, ReadLock, WritePark,
      WriteLock, ReadUnlock, WriteDrop, WriteUnlock, ThreadExit
-----------------------------------------------------------------------------
\* The inductive invariant.
IInv == TypeOK /\ LockInv /\ IndicesPartitioned /\ IndicesBounded

\* The invariant holds initially.
LEMMA InitInv == Init => IInv
<1> SUFFICES ASSUME Init PROVE IInv
  OBVIOUS
<1>1. TypeOK
  BY ShardsAssumption DEF Init, TypeOK, LockTypeOK, IndexTypeOK, Shards
<1>2. LockInv
  BY ThreadsAssumption DEF Init, LockInv, HoldsWrite, Shards
<1>3. IndicesPartitioned
  BY DEF Init, IndicesPartitioned
<1>4. IndicesBounded
  BY ThreadsAssumption, FS_CardinalityType DEF Init, IndicesBounded
<1>5. QED  BY <1>1, <1>2, <1>3, <1>4 DEF IInv

\* Every reachable state satisfies the invariant.
LEMMA InvHolds == Spec => []IInv
<1>1. IInv /\ [Next]_vars => IInv'
  BY IndexTypeNext, LockNext, IndexNext DEF IInv, TypeOK
<1>2. QED  BY <1>1, InitInv, PTL DEF Spec

\* Type correctness: RwLock::read never indexes shards out of bounds, and the
\* registry maps exactly the threads that have a REGISTRATION.
THEOREM TypeCorrect == Spec => []TypeOK
<1>1. IInv => TypeOK  BY DEF IInv
<1>2. QED  BY <1>1, InvHolds, PTL

\* The registry of thread indices leaks none, hands none out twice and has never
\* more than there can be threads at a time, for any history of threads that start,
\* use the lock and exit.
THEOREM IndicesShared == Spec => []IndicesKept
<1>1. IInv => IndicesKept  BY DEF IInv, IndicesKept
<1>2. QED  BY <1>1, InvHolds, PTL

\* Of any parked writers, one waits for a shard as high as those of the others.
LEMMA HighestParked ==
  ASSUME LockTypeOK, NEW W \in SUBSET Threads, W # {}
  PROVE  \E u \in W : \A v \in W : shard[v] <= shard[u]
<1> DEFINE Below(u) == NumShards - 1 - shard[u]
           T        == {Below(u) : u \in W}
<1>1. T # {} /\ T \subseteq Nat
  BY ShardsAssumption DEF LockTypeOK, Shards
<1>2. PICK x \in T : \A y \in T : ~(<<y, x>> \in OpToRel(<, Nat))
  <2> HIDE DEF T
  <2>1. QED  BY <1>1, NatLessThanWellFounded, WFMin
<1>3. \A y \in T : ~(y < x)
  BY <1>1, <1>2 DEF OpToRel
<1>4. PICK u \in W : x = Below(u)
  OBVIOUS
<1>5. ASSUME NEW v \in W
      PROVE  shard[v] <= shard[u]
  <2>1. ~(Below(v) < Below(u))
    BY <1>3, <1>4
  <2>2. shard[u] \in Int /\ shard[v] \in Int /\ NumShards \in Int
    BY ShardsAssumption DEF LockTypeOK, Shards
  <2>3. QED  BY <2>1, <2>2
<1>6. QED  BY <1>5

\* Whoever holds the lock of a shard that nobody may enter has not come to rest.
LEMMA HolderBusy ==
  ASSUME LockTypeOK, LockInv, NEW s \in Shards, ~Free(s),
         \A u \in Threads : pc[u] # "idle" => Blocked(u)
  PROVE  \E v \in Threads : pc[v] = "parked" /\ s < shard[v]
<1>1. \A u \in Threads : pc[u] \in {"idle", "read", "parked"}
  BY DEF Blocked, LockTypeOK
<1>2. readers[s] = {}
  BY <1>1 DEF LockInv, LockTypeOK
<1>3. PICK v \in Threads : writer[s] = v
  BY <1>2 DEF Free, LockTypeOK
<1>4. QED  BY <1>1, <1>3 DEF LockInv, HoldsWrite

\* Neither readers behind parked writers nor writers that hold some of the shards
\* wait in a circle, for any number of threads and of shards: the parked writer
\* that has come furthest waits for nobody who waits.
THEOREM DeadlockFree == Spec => []NoDeadlock
<1>1. ASSUME IInv  PROVE NoDeadlock
  <2> SUFFICES ASSUME NEW t \in Threads, Blocked(t),
                      \A u \in Threads : pc[u] # "idle" => Blocked(u)
               PROVE  FALSE
    BY DEF NoDeadlock
  <2>0. LockTypeOK /\ LockInv
    BY <1>1 DEF IInv, TypeOK
  <2> DEFINE W == {u \in Threads : pc[u] = "parked"}
  <2>1. W # {}
    <3>1. CASE pc[t] = "parked"
      BY <3>1
    <3>2. CASE pc[t] = "read" /\ writer[shard[t]] = NoThread
      BY <3>2 DEF Blocked, Open
    <3>3. CASE pc[t] = "read" /\ writer[shard[t]] # NoThread
      BY <2>0, <3>3, HolderBusy DEF Free, LockTypeOK
    <3>4. QED  BY <3>1, <3>2, <3>3 DEF Blocked
  <2>2. PICK u \in W : \A v \in W : shard[v] <= shard[u]
    BY <2>0, <2>1, HighestParked
  <2>3. shard[u] \in Shards /\ ~Free(shard[u])
    BY <2>0 DEF Blocked, LockTypeOK
  <2>4. PICK v \in W : shard[u] < shard[v]
    BY <2>0, <2>3, HolderBusy
  <2>5. shard[u] \in Int /\ shard[v] \in Int
    BY <2>0 DEF LockTypeOK, Shards
  <2>6. QED  BY <2>2, <2>4, <2>5
<1>2. IInv => NoDeadlock
  BY <1>1
<1>3. QED  BY <1>2, InvHolds, PTL

\* A step of the sharded lock is a step of the reader-writer lock, or none.
LEMMA Simulation ==
  ASSUME IInv, IInv', [Next]_vars
  PROVE  [Lock!Next]_(Lock!vars)
<1> USE DEF Lock!Next, Lock!vars, Lock!AcquireRead, Lock!ReleaseRead, Lock!AcquireWrite,
            Lock!ReleaseWrite
<1>0. LockTypeOK /\ LockInv /\ LockInv'
  BY DEF IInv, TypeOK
<1>1. ASSUME NEW t \in Threads, ReadLock(t)
      PROVE  Lock!AcquireRead(t)
  BY <1>0, <1>1, ThreadsAssumption DEF LockTypeOK, LockInv, HoldsWrite, ReadLock, Open
<1>2. ASSUME NEW t \in Threads, ReadUnlock(t)
      PROVE  Lock!ReleaseRead(t)
  BY <1>0, <1>2 DEF LockTypeOK, ReadUnlock
<1>3. ASSUME NEW t \in Threads, WriteLock(t), shard[t] = NumShards - 1
      PROVE  Lock!AcquireWrite(t)
  <2>1. pc' = [pc EXCEPT ![t] = "writing"] /\ readers' = readers /\ pc[t] \in {"write", "parked"}
    BY <1>3 DEF WriteLock
  <2>2. \A s \in Shards : writer'[s] = t /\ readers[s] = {}
    BY <1>0, <2>1, ThreadsAssumption DEF LockTypeOK, LockInv, HoldsWrite
  <2>3. \A u \in Threads : pc[u] # "reading"
    BY <1>0, <2>2 DEF LockTypeOK, LockInv
  <2>4. \A u \in Threads : pc[u] # "writing"
    BY <1>0, <1>3, ThreadsAssumption DEF LockTypeOK, LockInv, HoldsWrite, WriteLock, Free
  <2>5. QED  BY <1>0, <2>1, <2>3, <2>4 DEF LockTypeOK
<1>4. ASSUME NEW t \in Threads, WriteDrop(t)
      PROVE  Lock!ReleaseWrite(t)
  BY <1>0, <1>4 DEF LockTypeOK, WriteDrop
<1>5. ASSUME NEW t \in Threads,
             \/ Start(t) \/ WritePark(t) \/ WriteUnlock(t)
             \/ WriteLock(t) /\ shard[t] # NumShards - 1
      PROVE  UNCHANGED Lock!vars
  BY <1>0, <1>5
  DEF LockTypeOK, Start, Read, Write, Unregister, ThreadExit, WritePark, WriteUnlock,
      WriteLock, lockVars
<1>6. CASE UNCHANGED vars
  BY <1>6 DEF vars, lockVars
<1>7. QED
  BY <1>1, <1>2, <1>3, <1>4, <1>5, <1>6 DEF Next, Acquire, Release

\* The sharded RwLock implements a reader-writer lock for any number of threads
\* and shards: readers that lock one shard and writers that lock all of them,
\* one by one, exclude each other.
THEOREM Implementation == Spec => ImplementsRwLock
<1>1. Init => Lock!Init
  BY DEF Init, Lock!Init
<1>2. IInv /\ IInv' /\ [Next]_vars => [Lock!Next]_(Lock!vars)
  BY Simulation
<1>3. QED  BY <1>1, <1>2, InvHolds, PTL DEF Spec, ImplementsRwLock, Lock!Spec

=============================================================================
