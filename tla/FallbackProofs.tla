--------------------------- MODULE FallbackProofs ---------------------------
(***************************************************************************)
(* Proofs about Fallback, for any number of callers.                       *)
(***************************************************************************)
EXTENDS Fallback, FiniteSetTheorems, TLAPS

\* What the position of a caller says about the global, its handle and its
\* reactor.
PcInv ==
  \A c \in Callers :
    /\ pc[c] \in {"spawn", "has", "holds", "waits", "gone"} <=> handle[c] # NoReactor
    /\ pc[c] \in {"ret", "spawn"} => HANDLE_FALLBACK = c
    /\ pc[c] \in {"reload", "clone"} => HANDLE_FALLBACK # NoReactor
    /\ pc[c] \in {"new", "set", "reload"} => HANDLE_FALLBACK # c
    /\ runner[c] = "stack" => pc[c] \in {"set", "ret", "spawn", "reload"}
    /\ runner[c] = "thread" => HANDLE_FALLBACK = c

\* The inductive invariant.
IInv ==
  TypeOK /\ PcInv /\ WeakCounted /\ LoadedIsGlobal /\ HandlesAgree /\ NobodyStranded

\* The handles that lead to r.
Users(r) == {c \in Callers : handle[c] = r}
-----------------------------------------------------------------------------
\* A caller that had no handle and gets one is one user more.
LEMMA UserAdded ==
  ASSUME TypeOK, WeakCounted, NEW c \in Callers, NEW r \in Callers,
         handle[c] = NoReactor,
         handle' = [handle EXCEPT ![c] = r],
         weak' = [weak EXCEPT ![r] = @ + 1],
         UNCHANGED HANDLE_FALLBACK
  PROVE  WeakCounted'
<1> USE CallersAssumption DEF TypeOK, Handles
<1>1. Users(r)' = Users(r) \cup {c} /\ c \notin Users(r)
  BY DEF Users
<1>2. IsFiniteSet(Users(r)) /\ Cardinality(Users(r)) \in Nat
  BY FS_Subset, FS_CardinalityType DEF Users
<1>3. Cardinality(Users(r)') = Cardinality(Users(r)) + 1
  BY <1>1, <1>2, FS_AddElement
<1>4. ASSUME NEW q \in Callers, q # r
      PROVE  Users(q)' = Users(q) /\ weak'[q] = weak[q]
  BY <1>4 DEF Users
<1>5. ASSUME NEW q \in Callers
      PROVE  weak'[q] = Cardinality(Users(q)')
                          + (IF HANDLE_FALLBACK' = q THEN 1 ELSE 0)
  <2>1. CASE q = r
    BY <1>2, <1>3, <2>1 DEF WeakCounted, Users
  <2>2. CASE q # r
    BY <1>4, <2>2 DEF WeakCounted, Users
  <2>3. QED  BY <2>1, <2>2
<1>6. QED
  BY <1>5 DEF WeakCounted, Users

\* A caller that gives its handle up is one user less, and was counted.
LEMMA UserRemoved ==
  ASSUME TypeOK, WeakCounted, NEW c \in Callers, NEW r \in Callers,
         handle[c] = r,
         handle' = [handle EXCEPT ![c] = NoReactor],
         weak' = [weak EXCEPT ![r] = @ - 1],
         UNCHANGED HANDLE_FALLBACK
  PROVE  WeakCounted' /\ weak' \in [Callers -> Nat]
<1> USE CallersAssumption DEF TypeOK, Handles
<1>1. Users(r)' = Users(r) \ {c} /\ c \in Users(r)
  BY DEF Users
<1>2. IsFiniteSet(Users(r)) /\ IsFiniteSet(Users(r)')
  BY FS_Subset DEF Users
<1>3. Cardinality(Users(r)) \in Nat /\ Cardinality(Users(r)') \in Nat
  BY <1>2, FS_CardinalityType
<1>4. Cardinality(Users(r)') = Cardinality(Users(r)) - 1
  BY <1>1, <1>2, <1>3, FS_RemoveElement
<1>5. ASSUME NEW q \in Callers, q # r
      PROVE  Users(q)' = Users(q) /\ weak'[q] = weak[q]
  BY <1>5 DEF Users
<1>6. weak'[r] = Cardinality(Users(r)') + (IF HANDLE_FALLBACK' = r THEN 1 ELSE 0)
  BY <1>3, <1>4 DEF WeakCounted, Users
<1>7. ASSUME NEW q \in Callers
      PROVE  weak'[q] = Cardinality(Users(q)')
                          + (IF HANDLE_FALLBACK' = q THEN 1 ELSE 0)
  <2>1. CASE q = r
    BY <1>6, <2>1
  <2>2. CASE q # r
    BY <1>5, <2>2 DEF WeakCounted, Users
  <2>3. QED  BY <2>1, <2>2
<1>8. weak'[r] \in Nat
  BY <1>3, <1>6
<1>9. QED
  BY <1>7, <1>8 DEF WeakCounted, Users

\* The invariant holds initially.
LEMMA InitInv == Init => IInv
<1> SUFFICES ASSUME Init  PROVE IInv
  OBVIOUS
<1> USE CallersAssumption DEF Init
<1>1. TypeOK /\ PcInv /\ LoadedIsGlobal /\ NobodyStranded
  BY DEF TypeOK, Handles, PcInv, LoadedIsGlobal, NobodyStranded
<1>2. HandlesAgree
  BY DEF HandlesAgree, Alive, AliveIn
<1>3. WeakCounted
  <2>1. \A r \in Callers : {c \in Callers : handle[c] = r} = {}
    OBVIOUS
  <2>2. QED  BY <2>1, FS_EmptySet DEF WeakCounted
<1>4. QED
  BY <1>1, <1>2, <1>3 DEF IInv

\* Every step keeps the invariant.
LEMMA NextInv == IInv /\ [Next]_vars => IInv'
<1> SUFFICES ASSUME TypeOK, PcInv, WeakCounted, LoadedIsGlobal, HandlesAgree, NobodyStranded,
                    [Next]_vars
             PROVE  IInv'
  BY DEF IInv
<1> USE CallersAssumption DEF Handles, Goto
<1>1. ASSUME NEW c \in Callers, Load(c)
     PROVE  IInv'
  <2>1. TypeOK'
    BY <1>1 DEF Load, TypeOK
  <2>2. PcInv'
    BY <1>1 DEF Load, TypeOK, PcInv, HandlesAgree, LoadedIsGlobal
  <2>3. WeakCounted'
    BY <1>1 DEF Load, WeakCounted
  <2>4. LoadedIsGlobal'
    BY <1>1 DEF Load, TypeOK, PcInv, LoadedIsGlobal
  <2>5. HandlesAgree'
    BY <1>1, <2>2 DEF Load, TypeOK, PcInv, HandlesAgree, LoadedIsGlobal, Alive, AliveIn
  <2>6. NobodyStranded'
    BY <1>1 DEF Load, TypeOK, PcInv, HandlesAgree, NobodyStranded, Alive, AliveIn
  <2>7. QED  BY <2>1, <2>2, <2>3, <2>4, <2>5, <2>6 DEF IInv
<1>2. ASSUME NEW c \in Callers, New(c)
     PROVE  IInv'
  <2>1. TypeOK'
    BY <1>2 DEF New, TypeOK
  <2>2. PcInv'
    BY <1>2 DEF New, TypeOK, PcInv, HandlesAgree, LoadedIsGlobal
  <2>3. WeakCounted'
    BY <1>2 DEF New, WeakCounted
  <2>4. LoadedIsGlobal'
    BY <1>2 DEF New, TypeOK, PcInv, LoadedIsGlobal
  <2>5. HandlesAgree'
    BY <1>2, <2>2 DEF New, TypeOK, PcInv, HandlesAgree, LoadedIsGlobal, Alive, AliveIn
  <2>6. NobodyStranded'
    BY <1>2 DEF New, TypeOK, PcInv, HandlesAgree, NobodyStranded, Alive, AliveIn
  <2>7. QED  BY <2>1, <2>2, <2>3, <2>4, <2>5, <2>6 DEF IInv
<1>3. ASSUME NEW c \in Callers, NewFails(c)
     PROVE  IInv'
  <2>1. TypeOK'
    BY <1>3 DEF NewFails, TypeOK
  <2>2. PcInv'
    BY <1>3 DEF NewFails, TypeOK, PcInv, HandlesAgree, LoadedIsGlobal
  <2>3. WeakCounted'
    BY <1>3 DEF NewFails, WeakCounted
  <2>4. LoadedIsGlobal'
    BY <1>3 DEF NewFails, TypeOK, PcInv, LoadedIsGlobal
  <2>5. HandlesAgree'
    BY <1>3, <2>2 DEF NewFails, TypeOK, PcInv, HandlesAgree, LoadedIsGlobal, Alive, AliveIn
  <2>6. NobodyStranded'
    BY <1>3 DEF NewFails, TypeOK, PcInv, HandlesAgree, NobodyStranded, Alive, AliveIn
  <2>7. QED  BY <2>1, <2>2, <2>3, <2>4, <2>5, <2>6 DEF IInv
<1>4. ASSUME NEW c \in Callers, SetFallback(c)
     PROVE  IInv'
  <2>1. TypeOK'
    BY <1>4 DEF SetFallback, TypeOK
  <2>2. PcInv'
    BY <1>4 DEF SetFallback, TypeOK, PcInv, HandlesAgree, LoadedIsGlobal
  <2>3. WeakCounted'
    <3>1. CASE HANDLE_FALLBACK = NoReactor
      <4>1. ASSUME NEW r \in Callers
            PROVE  Cardinality({d \in Callers : handle[d] = r}) \in Nat
        BY FS_Subset, FS_CardinalityType
      <4>2. QED  BY <1>4, <3>1, <4>1 DEF SetFallback, TypeOK, WeakCounted
    <3>2. CASE HANDLE_FALLBACK # NoReactor
      BY <1>4, <3>2 DEF SetFallback, WeakCounted
    <3>3. QED  BY <3>1, <3>2
  <2>4. LoadedIsGlobal'
    BY <1>4 DEF SetFallback, TypeOK, PcInv, LoadedIsGlobal
  <2>5. HandlesAgree'
    BY <1>4, <2>2 DEF SetFallback, TypeOK, PcInv, HandlesAgree, LoadedIsGlobal, Alive, AliveIn
  <2>6. NobodyStranded'
    BY <1>4 DEF SetFallback, TypeOK, PcInv, HandlesAgree, NobodyStranded, Alive, AliveIn
  <2>7. QED  BY <2>1, <2>2, <2>3, <2>4, <2>5, <2>6 DEF IInv
<1>5. ASSUME NEW c \in Callers, Ret(c)
     PROVE  IInv'
  <2>1. TypeOK'
    BY <1>5 DEF Ret, TypeOK
  <2>2. PcInv'
    BY <1>5 DEF Ret, TypeOK, PcInv, HandlesAgree, LoadedIsGlobal
  <2>3. WeakCounted'
    BY <1>5, UserAdded DEF Ret, TypeOK, PcInv
  <2>4. LoadedIsGlobal'
    BY <1>5 DEF Ret, TypeOK, PcInv, LoadedIsGlobal
  <2>5. HandlesAgree'
    BY <1>5, <2>2 DEF Ret, TypeOK, PcInv, HandlesAgree, LoadedIsGlobal, Alive, AliveIn
  <2>6. NobodyStranded'
    BY <1>5 DEF Ret, TypeOK, PcInv, HandlesAgree, NobodyStranded, Alive, AliveIn
  <2>7. QED  BY <2>1, <2>2, <2>3, <2>4, <2>5, <2>6 DEF IInv
<1>6. ASSUME NEW c \in Callers, Spawn(c)
     PROVE  IInv'
  <2>1. TypeOK'
    BY <1>6 DEF Spawn, TypeOK
  <2>2. PcInv'
    BY <1>6 DEF Spawn, TypeOK, PcInv, HandlesAgree, LoadedIsGlobal
  <2>3. WeakCounted'
    BY <1>6 DEF Spawn, WeakCounted
  <2>4. LoadedIsGlobal'
    BY <1>6 DEF Spawn, TypeOK, PcInv, LoadedIsGlobal
  <2>5. HandlesAgree'
    BY <1>6, <2>2 DEF Spawn, TypeOK, PcInv, HandlesAgree, LoadedIsGlobal, Alive, AliveIn
  <2>6. NobodyStranded'
    BY <1>6 DEF Spawn, TypeOK, PcInv, HandlesAgree, NobodyStranded, Alive, AliveIn
  <2>7. QED  BY <2>1, <2>2, <2>3, <2>4, <2>5, <2>6 DEF IInv
<1>7. ASSUME NEW c \in Callers, SpawnFails(c)
     PROVE  IInv'
  <2>1. TypeOK'
    BY <1>7 DEF SpawnFails, Release, TypeOK
  <2>2. PcInv'
    BY <1>7 DEF SpawnFails, Release, TypeOK, PcInv, HandlesAgree, LoadedIsGlobal
  <2>3. WeakCounted'
    BY <1>7 DEF SpawnFails, Release, WeakCounted
  <2>4. LoadedIsGlobal'
    BY <1>7 DEF SpawnFails, Release, TypeOK, PcInv, LoadedIsGlobal
  <2>5. HandlesAgree'
    BY <1>7, <2>2 DEF SpawnFails, Release, TypeOK, PcInv, HandlesAgree, LoadedIsGlobal, Alive, AliveIn
  <2>6. NobodyStranded'
    BY <1>7 DEF SpawnFails, Release, TypeOK, PcInv, HandlesAgree, NobodyStranded, Alive, AliveIn
  <2>7. QED  BY <2>1, <2>2, <2>3, <2>4, <2>5, <2>6 DEF IInv
<1>8. ASSUME NEW c \in Callers, Reload(c)
     PROVE  IInv'
  <2>1. TypeOK'
    BY <1>8 DEF Reload, TypeOK
  <2>2. PcInv'
    BY <1>8 DEF Reload, TypeOK, PcInv, HandlesAgree, LoadedIsGlobal
  <2>3. WeakCounted'
    BY <1>8 DEF Reload, WeakCounted
  <2>4. LoadedIsGlobal'
    BY <1>8 DEF Reload, TypeOK, PcInv, LoadedIsGlobal
  <2>5. HandlesAgree'
    BY <1>8, <2>2 DEF Reload, TypeOK, PcInv, HandlesAgree, LoadedIsGlobal, Alive, AliveIn
  <2>6. NobodyStranded'
    BY <1>8 DEF Reload, TypeOK, PcInv, HandlesAgree, NobodyStranded, Alive, AliveIn
  <2>7. QED  BY <2>1, <2>2, <2>3, <2>4, <2>5, <2>6 DEF IInv
<1>9. ASSUME NEW c \in Callers, Clone(c)
     PROVE  IInv'
  <2>1. TypeOK'
    BY <1>9 DEF Clone, TypeOK
  <2>2. PcInv'
    BY <1>9 DEF Clone, TypeOK, PcInv, HandlesAgree, LoadedIsGlobal
  <2>3. WeakCounted'
    BY <1>9, UserAdded DEF Clone, TypeOK, PcInv
  <2>4. LoadedIsGlobal'
    BY <1>9 DEF Clone, TypeOK, PcInv, LoadedIsGlobal
  <2>5. HandlesAgree'
    BY <1>9, <2>2 DEF Clone, TypeOK, PcInv, HandlesAgree, LoadedIsGlobal, Alive, AliveIn
  <2>6. NobodyStranded'
    BY <1>9 DEF Clone, TypeOK, PcInv, HandlesAgree, NobodyStranded, Alive, AliveIn
  <2>7. QED  BY <2>1, <2>2, <2>3, <2>4, <2>5, <2>6 DEF IInv
<1>10. ASSUME NEW c \in Callers, Upgrade(c)
     PROVE  IInv'
  <2>1. TypeOK'
    BY <1>10 DEF Upgrade, TypeOK
  <2>2. PcInv'
    BY <1>10 DEF Upgrade, TypeOK, PcInv, HandlesAgree, LoadedIsGlobal
  <2>3. WeakCounted'
    BY <1>10 DEF Upgrade, WeakCounted
  <2>4. LoadedIsGlobal'
    BY <1>10 DEF Upgrade, TypeOK, PcInv, LoadedIsGlobal
  <2>5. HandlesAgree'
    BY <1>10, <2>2 DEF Upgrade, TypeOK, PcInv, HandlesAgree, LoadedIsGlobal, Alive, AliveIn
  <2>6. NobodyStranded'
    BY <1>10 DEF Upgrade, TypeOK, PcInv, HandlesAgree, NobodyStranded, Alive, AliveIn
  <2>7. QED  BY <2>1, <2>2, <2>3, <2>4, <2>5, <2>6 DEF IInv
<1>11. ASSUME NEW c \in Callers, Park(c)
     PROVE  IInv'
  <2>1. TypeOK'
    BY <1>11 DEF Park, Release, TypeOK
  <2>2. PcInv'
    BY <1>11 DEF Park, Release, TypeOK, PcInv, HandlesAgree, LoadedIsGlobal
  <2>3. WeakCounted'
    BY <1>11 DEF Park, Release, WeakCounted
  <2>4. LoadedIsGlobal'
    BY <1>11 DEF Park, Release, TypeOK, PcInv, LoadedIsGlobal
  <2>5. HandlesAgree'
    BY <1>11, <2>2 DEF Park, Release, TypeOK, PcInv, HandlesAgree, LoadedIsGlobal, Alive, AliveIn
  <2>6. NobodyStranded'
    BY <1>11 DEF Park, Release, TypeOK, PcInv, HandlesAgree, NobodyStranded, Alive, AliveIn
  <2>7. QED  BY <2>1, <2>2, <2>3, <2>4, <2>5, <2>6 DEF IInv
<1>12. ASSUME NEW c \in Callers, DropHandle(c)
     PROVE  IInv'
  <2>0. handle[c] \in Callers /\ WeakCounted' /\ weak' \in [Callers -> Nat]
    <3>1. handle[c] \in Callers
      BY <1>12 DEF DropHandle, TypeOK, PcInv
    <3>2. QED  BY <1>12, <3>1, UserRemoved DEF DropHandle
  <2>1. TypeOK'
    BY <1>12, <2>0 DEF DropHandle, TypeOK
  <2>2. PcInv'
    BY <1>12, <2>0 DEF DropHandle, TypeOK, PcInv
  <2>3. WeakCounted'
    BY <2>0
  <2>4. LoadedIsGlobal'
    BY <1>12 DEF DropHandle, TypeOK, PcInv, LoadedIsGlobal
  <2>5. HandlesAgree'
    BY <1>12, <2>2 DEF DropHandle, TypeOK, PcInv, HandlesAgree, LoadedIsGlobal, Alive, AliveIn
  <2>6. NobodyStranded'
    BY <1>12 DEF DropHandle, TypeOK, PcInv, HandlesAgree, NobodyStranded, Alive, AliveIn
  <2>7. QED  BY <2>1, <2>2, <2>3, <2>4, <2>5, <2>6 DEF IInv
<1>13. ASSUME NEW c \in Callers, ThreadPanics(c)
     PROVE  IInv'
  <2>1. TypeOK'
    BY <1>13 DEF ThreadPanics, Release, TypeOK
  <2>2. PcInv'
    BY <1>13 DEF ThreadPanics, Release, TypeOK, PcInv, HandlesAgree, LoadedIsGlobal
  <2>3. WeakCounted'
    BY <1>13 DEF ThreadPanics, Release, WeakCounted
  <2>4. LoadedIsGlobal'
    BY <1>13 DEF ThreadPanics, Release, TypeOK, PcInv, LoadedIsGlobal
  <2>5. HandlesAgree'
    BY <1>13, <2>2 DEF ThreadPanics, Release, TypeOK, PcInv, HandlesAgree, LoadedIsGlobal, Alive, AliveIn
  <2>6. NobodyStranded'
    BY <1>13 DEF ThreadPanics, Release, TypeOK, PcInv, HandlesAgree, NobodyStranded, Alive, AliveIn
  <2>7. QED  BY <2>1, <2>2, <2>3, <2>4, <2>5, <2>6 DEF IInv
<1>14. CASE UNCHANGED vars
  <2>1. TypeOK'
    BY <1>14 DEF vars, TypeOK
  <2>2. PcInv'
    BY <1>14 DEF vars, TypeOK, PcInv, HandlesAgree, LoadedIsGlobal
  <2>3. WeakCounted'
    BY <1>14 DEF vars, WeakCounted
  <2>4. LoadedIsGlobal'
    BY <1>14 DEF vars, TypeOK, PcInv, LoadedIsGlobal
  <2>5. HandlesAgree'
    BY <1>14, <2>2 DEF vars, TypeOK, PcInv, HandlesAgree, LoadedIsGlobal, Alive, AliveIn
  <2>6. NobodyStranded'
    BY <1>14 DEF vars, TypeOK, PcInv, HandlesAgree, NobodyStranded, Alive, AliveIn
  <2>7. QED  BY <2>1, <2>2, <2>3, <2>4, <2>5, <2>6 DEF IInv
<1>15. QED
  BY <1>1, <1>2, <1>3, <1>4, <1>5, <1>6, <1>7, <1>8, <1>9, <1>10, <1>11, <1>12, <1>13, <1>14 DEF Next, FallbackStep

\* Every reachable state satisfies the invariant.
LEMMA InvHolds == Spec => []IInv
  BY InitInv, NextInv, PTL DEF Spec

\* Type correctness: in particular no count of weak references goes below zero.
THEOREM TypeCorrect == Spec => []TypeOK
<1>1. IInv => TypeOK  BY DEF IInv
<1>2. QED  BY <1>1, InvHolds, PTL

\* The raw handle in HANDLE_FALLBACK is counted, and so is every clone of it.
THEOREM ReferencesCounted == Spec => []WeakCounted
<1>1. IInv => WeakCounted  BY DEF IInv
<1>2. QED  BY <1>1, InvHolds, PTL

\* One reactor wins the race, and everybody uses it; the assertion of fallback holds.
THEOREM RaceDecided == Spec => []OneReactor
<1>1. IInv => OneReactor  BY DEF IInv, OneReactor
<1>2. QED  BY <1>1, InvHolds, PTL

\* The winner stays: once HANDLE_FALLBACK is set, every handle anybody gets is the
\* one found in it, whichever reactors are created, fail or are dropped.
THEOREM WinnerStays ==
  Spec => [][HANDLE_FALLBACK # NoReactor =>
               /\ HANDLE_FALLBACK' = HANDLE_FALLBACK
               /\ \A c \in Callers : handle'[c] \in {NoReactor, HANDLE_FALLBACK}]_vars
<1>1. IInv /\ IInv' /\ [Next]_vars
        => [HANDLE_FALLBACK # NoReactor =>
              /\ HANDLE_FALLBACK' = HANDLE_FALLBACK
              /\ \A c \in Callers : handle'[c] \in {NoReactor, HANDLE_FALLBACK}]_vars
  <2> SUFFICES ASSUME IInv', [Next]_vars, HANDLE_FALLBACK # NoReactor
               PROVE  /\ HANDLE_FALLBACK' = HANDLE_FALLBACK
                      /\ \A c \in Callers : handle'[c] \in {NoReactor, HANDLE_FALLBACK}
    OBVIOUS
  <2>1. HANDLE_FALLBACK' = HANDLE_FALLBACK
    BY DEF vars, Next, FallbackStep, Load, New, NewFails, SetFallback, Ret, Spawn, SpawnFails,
       Reload, Clone, Upgrade, Park, DropHandle, ThreadPanics
  <2>2. QED  BY <2>1 DEF IInv, HandlesAgree
<1>2. QED  BY <1>1, InvHolds, PTL DEF Spec

\* Nobody waits for a reactor that is gone, though its thread may have failed to
\* start after its handle was given out.
THEOREM WaitersTold == Spec => []NobodyStranded
<1>1. IInv => NobodyStranded  BY DEF IInv
<1>2. QED  BY <1>1, InvHolds, PTL
=============================================================================
