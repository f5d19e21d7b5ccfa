--------------------------- MODULE ReactorProofs ---------------------------
(***************************************************************************)
(* Proofs about Reactor, for any number of resources, slots, descriptors   *)
(* and guards.                                                             *)
(***************************************************************************)
EXTENDS Reactor, FiniteSetTheorems, TLAPS

\* A resource between its fetch_add and the end of its life.
Drawn(r) == pc[r] \in {"insert", "ready", "close", "drop"}

\* Serials are never drawn twice, and a slot in use is below entries.
SerialInv ==
  /\ \A r \in Resources : Drawn(r) => serial[r] < next_aba_guard
  /\ \A r, q \in Resources : Drawn(r) /\ Drawn(q) /\ serial[r] = serial[q] => r = q
  /\ \A k \in Keys : slab[k] # Vacant => k < entries /\ slab[k] < next_aba_guard
  /\ \A r \in Resources, k \in Keys : pc[r] = "insert" => slab[k] # serial[r]

\* Resources that are open have descriptors of their own, and only registered
\* descriptors are on the ready list.
FdInv ==
  /\ \A r \in Resources : pc[r] \notin {"none", "drop"} => fd[r] \in open
  /\ \A r, q \in Resources :
       pc[r] \notin {"none", "drop"} /\ pc[q] \notin {"none", "drop"} /\ fd[r] = fd[q]
         => r = q
  /\ \A f \in edges : epoll[f] # None

\* What a slot heard passed the comparison of the guards.
GuardInv == \A k \in Keys : slab[k] # Vacant => \A s \in heard[k] : Guard(s) = Guard(slab[k])

\* The inductive invariant.
IInv ==
  TypeOK /\ SerialInv /\ FdInv /\ GuardInv /\ OwnSlot /\ Armed /\ SlotsAccounted
-----------------------------------------------------------------------------
\* Different numbers with the same guard are Guards apart.
LEMMA GuardDistance ==
  ASSUME NEW s \in Nat, NEW t \in Nat, Guard(s) = Guard(t), s < t
  PROVE  s + Guards <= t
<1> DEFINE p == s \div Guards
           q == t \div Guards
<1>1. p \in Int /\ q \in Int /\ Guards \in Int /\ Guards > 0
  BY ReactorAssumption
<1>2. s = Guards * p + (s % Guards) /\ t = Guards * q + (t % Guards)
  BY ReactorAssumption
<1>3. s % Guards = t % Guards /\ s % Guards \in Int
  BY ReactorAssumption DEF Guard
<1> HIDE DEF p, q
<1>4. Guards * p < Guards * q
  BY <1>1, <1>2, <1>3
<1>5. p < q
  <2>1. SUFFICES ASSUME q <= p  PROVE FALSE
    BY <1>1
  <2>2. Guards * q <= Guards * p
    BY <1>1, <2>1
  <2>3. QED  BY <1>1, <1>4, <2>2
<1>6. PICK d \in Nat : q = p + 1 + d
  <2>1. q - p - 1 \in Nat /\ q = p + 1 + (q - p - 1)  BY <1>1, <1>5
  <2>2. QED  BY <2>1
<1>7. Guards * q = Guards * p + Guards + Guards * d /\ Guards * d >= 0
  BY <1>1, <1>6
<1>8. QED
  BY <1>1, <1>2, <1>3, <1>7

\* Slab::insert yields the key of a vacant slot, below MAX_SOURCES, unless the
\* slab is full.
LEMMA InsertableVacant ==
  ASSUME TypeOK, SerialInv, ~Full, NEW k \in Insertable
  PROVE  k \in 0 .. MAX_SOURCES - 1 /\ slab[k] = Vacant /\ k <= entries
<1> USE ReactorAssumption
<1> DEFINE vacated == {i \in Keys : i < entries /\ slab[i] = Vacant}
<1>1. CASE vacated = {}
  <2>1. k = entries  BY <1>1 DEF Insertable
  <2>2. Occupied = 0 .. entries - 1
    BY <1>1 DEF Occupied, Keys, TypeOK, SerialInv
  <2>3. Cardinality(Occupied) = entries
    <3>1. entries \in Nat  BY DEF TypeOK
    <3>2. Cardinality(0 .. entries - 1)
            = IF 0 > entries - 1 THEN 0 ELSE entries - 1 - 0 + 1
      BY <3>1, FS_Interval
    <3>3. QED  BY <2>2, <3>1, <3>2
  <2>4. entries # MAX_SOURCES  BY <2>3 DEF Full
  <2>5. QED  BY <2>1, <2>4 DEF TypeOK, SerialInv, Keys
<1>2. CASE vacated # {}
  <2>1. k \in vacated  BY <1>2 DEF Insertable
  <2>2. QED  BY <2>1 DEF TypeOK, Keys
<1>3. QED  BY <1>1, <1>2

\* The invariant holds initially.
LEMMA InitInv == Init => IInv
<1> SUFFICES ASSUME Init  PROVE IInv
  OBVIOUS
<1> USE ReactorAssumption DEF Init, Keys, Vacant
<1>1. TypeOK
  BY DEF TypeOK
<1>2. SerialInv /\ FdInv /\ GuardInv
  BY DEF SerialInv, FdInv, GuardInv, Drawn
<1>3. OwnSlot /\ Armed /\ SlotsAccounted
  BY DEF OwnSlot, Armed, SlotsAccounted, Owns, Occupied
<1>4. QED
  BY <1>1, <1>2, <1>3 DEF IInv

\* A reactor that is gone does not come back.
LEMMA AliveStays ==
  ASSUME TypeOK, [Next]_vars, Alive'
  PROVE  Alive
  BY DEF TypeOK, Alive, Next, ResourceStep, Goto, vars, resourceVars, slabVars, kernelVars,
     Open, RegisterGone, AddGuard, AddRefused, AddInsert, AddFails, PollReady,
     DropUnregistered, Deregister, Close, DropSource, Arrive, Poll, Dispatch, Stop

\* Every step keeps the invariant.
LEMMA NextInv == IInv /\ [Next]_vars => IInv'
<1> SUFFICES ASSUME TypeOK, SerialInv, FdInv, GuardInv, OwnSlot, Armed, SlotsAccounted,
                    [Next]_vars
             PROVE  IInv'
  BY DEF IInv
<1> USE ReactorAssumption, AliveStays
        DEF resourceVars, slabVars, kernelVars, Goto, Drawn, Owns, Vacant, Token
<1>1. ASSUME NEW r \in Resources, Open(r)
     PROVE  IInv'
  <2>1. TypeOK'
    BY <1>1 DEF Open, TypeOK, Keys
  <2>2. SerialInv'
    BY <1>1 DEF Open, TypeOK, SerialInv
  <2>3. FdInv' /\ GuardInv'
    BY <1>1 DEF Open, TypeOK, FdInv, GuardInv, SerialInv, None
  <2>4. OwnSlot'
    BY <1>1 DEF Open, TypeOK, OwnSlot, SerialInv, IsWakeup, Keys
  <2>5. Armed'
    BY <1>1 DEF Open, TypeOK, Armed, FdInv
  <2>6. SlotsAccounted'
    BY <1>1 DEF Open, TypeOK, SlotsAccounted, OwnSlot, Occupied
  <2>7. QED  BY <2>1, <2>2, <2>3, <2>4, <2>5, <2>6 DEF IInv
<1>2. ASSUME NEW r \in Resources, RegisterGone(r)
     PROVE  IInv'
  <2>1. TypeOK'
    BY <1>2 DEF RegisterGone, TypeOK, Keys
  <2>2. SerialInv'
    BY <1>2 DEF RegisterGone, TypeOK, SerialInv
  <2>3. FdInv' /\ GuardInv'
    BY <1>2 DEF RegisterGone, TypeOK, FdInv, GuardInv, SerialInv, None
  <2>4. OwnSlot'
    BY <1>2 DEF RegisterGone, TypeOK, OwnSlot, SerialInv, IsWakeup, Keys
  <2>5. Armed'
    BY <1>2 DEF RegisterGone, TypeOK, Armed, FdInv
  <2>6. SlotsAccounted'
    BY <1>2 DEF RegisterGone, TypeOK, SlotsAccounted, OwnSlot, Occupied
  <2>7. QED  BY <2>1, <2>2, <2>3, <2>4, <2>5, <2>6 DEF IInv
<1>3. ASSUME NEW r \in Resources, AddGuard(r)
     PROVE  IInv'
  <2>1. TypeOK'
    BY <1>3 DEF AddGuard, TypeOK, Keys
  <2>2. SerialInv'
    BY <1>3 DEF AddGuard, TypeOK, SerialInv
  <2>3. FdInv' /\ GuardInv'
    BY <1>3 DEF AddGuard, TypeOK, FdInv, GuardInv, SerialInv, None
  <2>4. OwnSlot'
    BY <1>3 DEF AddGuard, TypeOK, OwnSlot, SerialInv, IsWakeup, Keys
  <2>5. Armed'
    BY <1>3 DEF AddGuard, TypeOK, Armed, FdInv
  <2>6. SlotsAccounted'
    BY <1>3 DEF AddGuard, TypeOK, SlotsAccounted, OwnSlot, Occupied
  <2>7. QED  BY <2>1, <2>2, <2>3, <2>4, <2>5, <2>6 DEF IInv
<1>4. ASSUME NEW r \in Resources, AddRefused(r)
     PROVE  IInv'
  <2>1. TypeOK'
    BY <1>4 DEF AddRefused, TypeOK, Keys
  <2>2. SerialInv'
    BY <1>4 DEF AddRefused, TypeOK, SerialInv
  <2>3. FdInv' /\ GuardInv'
    BY <1>4 DEF AddRefused, TypeOK, FdInv, GuardInv, SerialInv, None
  <2>4. OwnSlot'
    BY <1>4 DEF AddRefused, TypeOK, OwnSlot, SerialInv, IsWakeup, Keys
  <2>5. Armed'
    BY <1>4 DEF AddRefused, TypeOK, Armed, FdInv
  <2>6. SlotsAccounted'
    BY <1>4 DEF AddRefused, TypeOK, SlotsAccounted, OwnSlot, Occupied
  <2>7. QED  BY <2>1, <2>2, <2>3, <2>4, <2>5, <2>6 DEF IInv
<1>5. ASSUME NEW r \in Resources, AddInsert(r)
     PROVE  IInv'
  <2> PICK k \in Insertable : Insert(r, k)
                               /\ key' = [key EXCEPT ![r] = k]
                               /\ epoll' = [epoll EXCEPT ![fd[r]]
                                              = [serial |-> serial[r], key |-> k]]
    BY <1>5 DEF AddInsert
  <2>0. k \in Keys /\ k \in 0 .. MAX_SOURCES - 1 /\ slab[k] = Vacant /\ k <= entries
    BY <1>5, InsertableVacant DEF AddInsert, Keys
  <2>1. TypeOK'
    <3>1. /\ slab' \in [Keys -> Nat \cup {Vacant}]
          /\ entries' \in 0 .. MAX_SOURCES
          /\ heard' \in [Keys -> SUBSET Nat]
      BY <2>0 DEF Insert, TypeOK
    <3>2. key' \in [Resources -> 0 .. MAX_SOURCES - 1] /\ epoll' \in [Fds -> Token \cup {None}]
      BY <2>0 DEF TypeOK
    <3>3. QED
      BY <1>5, <3>1, <3>2 DEF AddInsert, TypeOK
  <2>2. SerialInv'
    BY <1>5, <2>0 DEF AddInsert, Insert, TypeOK, SerialInv
  <2>3. FdInv' /\ GuardInv'
    BY <1>5, <2>0 DEF AddInsert, Insert, TypeOK, FdInv, GuardInv, SerialInv, None
  <2>4. OwnSlot'
    BY <1>5, <2>0 DEF AddInsert, Insert, TypeOK, OwnSlot, SerialInv, IsWakeup, Keys
  <2>5. Armed'
    BY <1>5, <2>0 DEF AddInsert, Insert, TypeOK, Armed, FdInv
  <2>6. SlotsAccounted'
    <3> SUFFICES ASSUME Alive', NEW i \in Keys, slab'[i] # Vacant
                 PROVE  slab'[i] \in leaked' \/ \E q \in Resources : Owns(q)' /\ key'[q] = i
      BY DEF SlotsAccounted, Occupied
    <3>1. pc' = [pc EXCEPT ![r] = "ready"] /\ pc[r] = "insert" /\ leaked' = leaked
      BY <1>5 DEF AddInsert
    <3>2. CASE i = k
      BY <2>0, <3>1, <3>2 DEF TypeOK
    <3>3. CASE i # k
      <4>1. slab'[i] = slab[i] /\ i \in Occupied
        BY <2>0, <3>3 DEF Insert, TypeOK, Occupied
      <4>2. QED  BY <3>1, <4>1 DEF SlotsAccounted, TypeOK
    <3>4. QED  BY <3>2, <3>3
  <2>7. QED  BY <2>1, <2>2, <2>3, <2>4, <2>5, <2>6 DEF IInv
<1>6. ASSUME NEW r \in Resources, AddFails(r)
     PROVE  IInv'
  <2> PICK k \in Insertable : Insert(r, k)
    BY <1>6 DEF AddFails
  <2>0. k \in Keys /\ k \in 0 .. MAX_SOURCES - 1 /\ slab[k] = Vacant /\ k <= entries
    BY <1>6, InsertableVacant DEF AddFails, Keys
  <2>1. TypeOK'
    <3>1. /\ slab' \in [Keys -> Nat \cup {Vacant}]
          /\ entries' \in 0 .. MAX_SOURCES
          /\ heard' \in [Keys -> SUBSET Nat]
      BY <2>0 DEF Insert, TypeOK
    <3>2. QED
      BY <1>6, <3>1 DEF AddFails, TypeOK
  <2>2. SerialInv'
    BY <1>6, <2>0 DEF AddFails, Insert, TypeOK, SerialInv
  <2>3. FdInv' /\ GuardInv'
    BY <1>6, <2>0 DEF AddFails, Insert, TypeOK, FdInv, GuardInv, SerialInv, None
  <2>4. OwnSlot'
    BY <1>6, <2>0 DEF AddFails, Insert, TypeOK, OwnSlot, SerialInv, IsWakeup, Keys
  <2>5. Armed'
    BY <1>6, <2>0 DEF AddFails, Insert, TypeOK, Armed, FdInv
  <2>6. SlotsAccounted'
    BY <1>6, <2>0 DEF AddFails, Insert, TypeOK, SlotsAccounted, OwnSlot, Occupied
  <2>7. QED  BY <2>1, <2>2, <2>3, <2>4, <2>5, <2>6 DEF IInv
<1>7. ASSUME NEW r \in Resources, PollReady(r)
     PROVE  IInv'
  <2>1. TypeOK'
    BY <1>7 DEF PollReady, TypeOK, Keys
  <2>2. SerialInv'
    BY <1>7 DEF PollReady, TypeOK, SerialInv
  <2>3. FdInv' /\ GuardInv'
    BY <1>7 DEF PollReady, TypeOK, FdInv, GuardInv, SerialInv, None
  <2>4. OwnSlot'
    BY <1>7 DEF PollReady, TypeOK, OwnSlot, SerialInv, IsWakeup, Keys
  <2>5. Armed'
    BY <1>7 DEF PollReady, TypeOK, Armed, FdInv
  <2>6. SlotsAccounted'
    BY <1>7 DEF PollReady, TypeOK, SlotsAccounted, OwnSlot, Occupied
  <2>7. QED  BY <2>1, <2>2, <2>3, <2>4, <2>5, <2>6 DEF IInv
<1>8. ASSUME NEW r \in Resources, DropUnregistered(r)
     PROVE  IInv'
  <2>1. TypeOK'
    BY <1>8 DEF DropUnregistered, TypeOK, Keys
  <2>2. SerialInv'
    BY <1>8 DEF DropUnregistered, TypeOK, SerialInv
  <2>3. FdInv' /\ GuardInv'
    BY <1>8 DEF DropUnregistered, TypeOK, FdInv, GuardInv, SerialInv, None
  <2>4. OwnSlot'
    BY <1>8 DEF DropUnregistered, TypeOK, OwnSlot, SerialInv, IsWakeup, Keys
  <2>5. Armed'
    BY <1>8 DEF DropUnregistered, TypeOK, Armed, FdInv
  <2>6. SlotsAccounted'
    BY <1>8 DEF DropUnregistered, TypeOK, SlotsAccounted, OwnSlot, Occupied
  <2>7. QED  BY <2>1, <2>2, <2>3, <2>4, <2>5, <2>6 DEF IInv
<1>9. ASSUME NEW r \in Resources, Deregister(r)
     PROVE  IInv'
  <2>1. TypeOK'
    BY <1>9 DEF Deregister, TypeOK, Keys
  <2>2. SerialInv'
    BY <1>9 DEF Deregister, TypeOK, SerialInv
  <2>3. FdInv' /\ GuardInv'
    BY <1>9 DEF Deregister, TypeOK, FdInv, GuardInv, SerialInv, None
  <2>4. OwnSlot'
    BY <1>9 DEF Deregister, TypeOK, OwnSlot, SerialInv, IsWakeup, Keys
  <2>5. Armed'
    BY <1>9 DEF Deregister, TypeOK, Armed, FdInv
  <2>6. SlotsAccounted'
    BY <1>9 DEF Deregister, TypeOK, SlotsAccounted, OwnSlot, Occupied
  <2>7. QED  BY <2>1, <2>2, <2>3, <2>4, <2>5, <2>6 DEF IInv
<1>10. ASSUME NEW r \in Resources, Close(r)
     PROVE  IInv'
  <2>1. TypeOK'
    BY <1>10 DEF Close, TypeOK, Keys
  <2>2. SerialInv'
    BY <1>10 DEF Close, TypeOK, SerialInv
  <2>3. FdInv' /\ GuardInv'
    BY <1>10 DEF Close, TypeOK, FdInv, GuardInv, SerialInv, None
  <2>4. OwnSlot'
    BY <1>10 DEF Close, TypeOK, OwnSlot, SerialInv, IsWakeup, Keys
  <2>5. Armed'
    BY <1>10 DEF Close, TypeOK, Armed, FdInv
  <2>6. SlotsAccounted'
    BY <1>10 DEF Close, TypeOK, SlotsAccounted, OwnSlot, Occupied
  <2>7. QED  BY <2>1, <2>2, <2>3, <2>4, <2>5, <2>6 DEF IInv
<1>11. ASSUME NEW r \in Resources, DropSource(r)
     PROVE  IInv'
  <2>1. TypeOK'
    BY <1>11 DEF DropSource, TypeOK, Keys
  <2>2. SerialInv'
    BY <1>11 DEF DropSource, TypeOK, SerialInv
  <2>3. FdInv' /\ GuardInv'
    BY <1>11 DEF DropSource, TypeOK, FdInv, GuardInv, SerialInv, None
  <2>4. OwnSlot'
    BY <1>11 DEF DropSource, TypeOK, OwnSlot, SerialInv, IsWakeup, Keys
  <2>5. Armed'
    BY <1>11 DEF DropSource, TypeOK, Armed, FdInv
  <2>6. SlotsAccounted'
    BY <1>11 DEF DropSource, TypeOK, SlotsAccounted, OwnSlot, Occupied
  <2>7. QED  BY <2>1, <2>2, <2>3, <2>4, <2>5, <2>6 DEF IInv
<1>12. ASSUME NEW f \in Fds, Arrive(f)
     PROVE  IInv'
  <2>1. TypeOK'
    BY <1>12 DEF Arrive, TypeOK, Keys
  <2>2. SerialInv'
    BY <1>12 DEF Arrive, TypeOK, SerialInv
  <2>3. FdInv' /\ GuardInv'
    BY <1>12 DEF Arrive, TypeOK, FdInv, GuardInv, SerialInv, None
  <2>4. OwnSlot'
    BY <1>12 DEF Arrive, TypeOK, OwnSlot, SerialInv, IsWakeup, Keys
  <2>5. Armed'
    BY <1>12 DEF Arrive, TypeOK, Armed, FdInv
  <2>6. SlotsAccounted'
    BY <1>12 DEF Arrive, TypeOK, SlotsAccounted, OwnSlot, Occupied
  <2>7. QED  BY <2>1, <2>2, <2>3, <2>4, <2>5, <2>6 DEF IInv
<1>13. ASSUME NEW t \in events, Dispatch(t)
     PROVE  IInv'
  <2>1. TypeOK'
    BY <1>13 DEF Dispatch, TypeOK, Keys
  <2>2. SerialInv'
    BY <1>13 DEF Dispatch, TypeOK, SerialInv
  <2>3. FdInv' /\ GuardInv'
    BY <1>13 DEF Dispatch, Accepts, TypeOK, FdInv, GuardInv
  <2>4. OwnSlot'
    BY <1>13 DEF Dispatch, TypeOK, OwnSlot, SerialInv, IsWakeup, Keys
  <2>5. Armed'
    BY <1>13 DEF Dispatch, TypeOK, Armed, FdInv
  <2>6. SlotsAccounted'
    BY <1>13 DEF Dispatch, TypeOK, SlotsAccounted, OwnSlot, Occupied
  <2>7. QED  BY <2>1, <2>2, <2>3, <2>4, <2>5, <2>6 DEF IInv
<1>14. ASSUME NEW fs \in SUBSET edges, Poll(fs)
     PROVE  IInv'
  <2>1. TypeOK'
    <3>1. events' \subseteq Token
      BY <1>14 DEF Poll, TypeOK, FdInv
    <3>2. QED
      BY <1>14, <3>1 DEF Poll, TypeOK
  <2>2. SerialInv'
    BY <1>14 DEF Poll, TypeOK, SerialInv
  <2>3. FdInv' /\ GuardInv'
    BY <1>14 DEF Poll, TypeOK, FdInv, GuardInv, SerialInv, None
  <2>4. OwnSlot'
    BY <1>14 DEF Poll, TypeOK, OwnSlot, SerialInv, IsWakeup, Keys
  <2>5. Armed'
    BY <1>14 DEF Poll, TypeOK, Armed, FdInv
  <2>6. SlotsAccounted'
    BY <1>14 DEF Poll, TypeOK, SlotsAccounted, OwnSlot, Occupied
  <2>7. QED  BY <2>1, <2>2, <2>3, <2>4, <2>5, <2>6 DEF IInv
<1>15. CASE Stop
  <2>1. TypeOK'
    BY <1>15 DEF Stop, TypeOK, Keys
  <2>2. SerialInv'
    BY <1>15 DEF Stop, TypeOK, SerialInv
  <2>3. FdInv' /\ GuardInv'
    BY <1>15 DEF Stop, TypeOK, FdInv, GuardInv, SerialInv, None
  <2>4. OwnSlot'
    BY <1>15 DEF Stop, TypeOK, OwnSlot, SerialInv, IsWakeup, Keys
  <2>5. Armed'
    BY <1>15 DEF Stop, TypeOK, Armed, FdInv
  <2>6. SlotsAccounted'
    BY <1>15 DEF Stop, TypeOK, SlotsAccounted, OwnSlot, Occupied
  <2>7. QED  BY <2>1, <2>2, <2>3, <2>4, <2>5, <2>6 DEF IInv
<1>16. CASE UNCHANGED vars
  <2>1. TypeOK'
    BY <1>16 DEF vars, TypeOK, Keys
  <2>2. SerialInv'
    BY <1>16 DEF vars, TypeOK, SerialInv
  <2>3. FdInv' /\ GuardInv'
    BY <1>16 DEF vars, TypeOK, FdInv, GuardInv, SerialInv, None
  <2>4. OwnSlot'
    BY <1>16 DEF vars, TypeOK, OwnSlot, SerialInv, IsWakeup, Keys
  <2>5. Armed'
    BY <1>16 DEF vars, TypeOK, Armed, FdInv
  <2>6. SlotsAccounted'
    BY <1>16 DEF vars, TypeOK, SlotsAccounted, OwnSlot, Occupied
  <2>7. QED  BY <2>1, <2>2, <2>3, <2>4, <2>5, <2>6 DEF IInv
<1>17. QED
  BY <1>1, <1>2, <1>3, <1>4, <1>5, <1>6, <1>7, <1>8, <1>9, <1>10, <1>11, <1>12, <1>13, <1>14, <1>15, <1>16 DEF Next, ResourceStep

\* Every reachable state satisfies the invariant.
LEMMA InvHolds == Spec => []IInv
  BY InitInv, NextInv, PTL DEF Spec

\* Type correctness: in particular no slot has the key of TOKEN_WAKEUP.
THEOREM TypeCorrect == Spec => []TypeOK
<1>1. IInv => TypeOK  BY DEF IInv
<1>2. QED  BY <1>1, InvHolds, PTL

\* A registered resource always finds its own ScheduledIo under its token.
THEOREM SlotsOwned == Spec => []OwnSlot
<1>1. IInv => OwnSlot  BY DEF IInv
<1>2. QED  BY <1>1, InvHolds, PTL

\* An event reaches another resource than its own only after the guards have
\* gone round.
THEOREM NoEarlyMisdelivery == Spec => []GuardSeparates
<1>1. IInv => GuardSeparates
  <2> SUFFICES ASSUME IInv, NEW k \in Occupied, NEW s \in heard[k], s # slab[k]
               PROVE  s + Guards <= slab[k] \/ slab[k] + Guards <= s
    BY DEF GuardSeparates
  <2>1. k \in Keys /\ s \in Nat /\ slab[k] \in Nat /\ Guard(s) = Guard(slab[k])
    BY DEF IInv, TypeOK, GuardInv, Occupied
  <2>2. s < slab[k] \/ slab[k] < s
    BY <2>1
  <2>3. QED
    BY <2>1, <2>2, GuardDistance
<1>2. QED  BY <1>1, InvHolds, PTL

\* Closing and reopening descriptors leaves the other resources' registrations
\* with epoll alone.
THEOREM StaysArmed == Spec => []Armed
<1>1. IInv => Armed  BY DEF IInv
<1>2. QED  BY <1>1, InvHolds, PTL

\* The slots in use are those of the resources and those that failed
\* registrations left behind.
THEOREM SlotsKept == Spec => []SlotsAccounted
<1>1. IInv => SlotsAccounted  BY DEF IInv
<1>2. QED  BY <1>1, InvHolds, PTL

\* No step loses the event of a resource in use.
LEMMA EventStep ==
  ASSUME IInv, [Next]_vars, NEW r \in Resources,
         running', pc[r] = "ready", pc'[r] = "ready"
  PROVE  /\ Undelivered(r) => Undelivered(r)' \/ serial[r] \in heard'[key[r]]
         /\ serial[r] \in heard[key[r]]
              => serial[r] \in heard'[key[r]] \/ PollReady(r)
<1> DEFINE own == [serial |-> serial[r], key |-> key[r]]
           Kept == /\ Undelivered(r) => Undelivered(r)' \/ serial[r] \in heard'[key[r]]
                   /\ serial[r] \in heard[key[r]]
                        => serial[r] \in heard'[key[r]] \/ PollReady(r)
<1> USE DEF resourceVars, slabVars, kernelVars, Goto, Undelivered
<1>0. running
  BY DEF IInv, TypeOK, vars, Next, ResourceStep, Open, RegisterGone, AddGuard, AddRefused,
     AddInsert, AddFails, PollReady, DropUnregistered, Deregister, Close, DropSource, Arrive,
     Poll, Dispatch, Stop
<1>1. /\ key[r] \in Keys /\ slab[key[r]] = serial[r] /\ slab[key[r]] # Vacant
      /\ ~IsWakeup(own) /\ epoll[fd[r]] = own /\ own \in Token
  BY <1>0, ReactorAssumption
     DEF IInv, TypeOK, OwnSlot, Armed, Alive, Owns, Keys, Vacant, Token
<1>2. ASSUME NEW q \in Resources, q # r, pc[q] \notin {"none", "drop"}
     PROVE  fd[q] # fd[r]
  BY <1>2 DEF IInv, FdInv
<1>3. ASSUME NEW q \in Resources, pc[q] = "ready", key[q] = key[r]
     PROVE  q = r
  <2>1. slab[key[q]] = serial[q]
    BY <1>0, <1>3 DEF IInv, OwnSlot, Alive, Owns
  <2>2. serial[q] = serial[r]
    BY <1>1, <1>3, <2>1
  <2>3. Drawn(q) /\ Drawn(r)
    BY <1>3 DEF Drawn
  <2>4. QED  BY <2>2, <2>3 DEF IInv, SerialInv
<1>4. ASSUME NEW q \in Resources,
             Open(q) \/ RegisterGone(q) \/ AddGuard(q) \/ AddRefused(q)
               \/ DropUnregistered(q) \/ DropSource(q)
     PROVE  Kept
  BY <1>4 DEF IInv, TypeOK, Open, RegisterGone, AddGuard, AddRefused, DropUnregistered,
     DropSource
<1>5. ASSUME NEW q \in Resources, AddInsert(q) \/ AddFails(q)
     PROVE  Kept
  <2>1. PICK k \in Insertable : Insert(q, k)
    BY <1>5 DEF AddInsert, AddFails
  <2>2. slab[k] = Vacant
    BY <1>5, InsertableVacant DEF AddInsert, AddFails, IInv
  <2>3. heard'[key[r]] = heard[key[r]]
    BY <1>1, <2>1, <2>2 DEF Insert, IInv, TypeOK
  <2>4. q # r /\ fd' = fd /\ serial' = serial /\ key'[r] = key[r] /\ edges \subseteq edges'
        /\ events' = events
    BY <1>5 DEF AddInsert, AddFails, IInv, TypeOK
  <2>5. QED  BY <2>3, <2>4
<1>6. ASSUME NEW q \in Resources, PollReady(q)
     PROVE  Kept
  <2>1. CASE q = r
    BY <1>6, <2>1 DEF PollReady
  <2>2. CASE q # r
    <3>1. heard'[key[r]] = heard[key[r]]
      BY <1>1, <1>3, <1>6, <2>2 DEF PollReady, IInv, TypeOK
    <3>2. QED  BY <1>6, <3>1 DEF PollReady
  <2>3. QED  BY <2>1, <2>2
<1>7. ASSUME NEW q \in Resources, Deregister(q) \/ Close(q)
     PROVE  Kept
  <2>1. q # r /\ fd[q] # fd[r]
    BY <1>2, <1>7 DEF Deregister, Close, IInv, TypeOK
  <2>2. QED  BY <1>7, <2>1 DEF Deregister, Close
<1>8. ASSUME NEW f \in Fds, Arrive(f)
     PROVE  Kept
  BY <1>8 DEF Arrive
<1>9. ASSUME NEW fs \in SUBSET edges, Poll(fs)
     PROVE  Kept
  <2>1. heard' = heard /\ fd' = fd /\ serial' = serial /\ key' = key
    BY <1>9 DEF Poll
  <2>2. CASE fd[r] \in fs
    <3>1. own \in events'  BY <1>1, <1>9, <2>2 DEF Poll
    <3>2. QED  BY <2>1, <3>1
  <2>3. CASE fd[r] \notin fs
    BY <1>9, <2>1, <2>3 DEF Poll
  <2>4. QED  BY <2>2, <2>3
<1>10. ASSUME NEW t \in events, Dispatch(t)
     PROVE  Kept
  <2>1. heard[key[r]] \subseteq heard'[key[r]]
    BY <1>1, <1>10 DEF Dispatch, IInv, TypeOK
  <2>2. CASE t = own
    <3>1. Accepts(t)
      BY <1>1, <2>2 DEF Accepts
    <3>2. serial[r] \in heard'[key[r]]
      BY <1>1, <1>10, <2>2, <3>1 DEF Dispatch, IInv, TypeOK
    <3>3. QED  BY <3>2
  <2>3. CASE t # own
    BY <1>10, <2>1, <2>3 DEF Dispatch
  <2>4. QED  BY <2>2, <2>3
<1>11. CASE Stop
  BY <1>11 DEF Stop
<1>12. CASE UNCHANGED vars
  BY <1>12 DEF vars
<1>13. QED
  BY <1>4, <1>5, <1>6, <1>7, <1>8, <1>9, <1>10, <1>11, <1>12 DEF Next, ResourceStep

\* An event is on its way, or in its slot, until its resource consumes it: with the
\* fairness of the thread and the kernel that is all Delivered needs.
THEOREM EventsKept == Spec => EventKept
<1>1. IInv /\ [Next]_vars =>
        [\A r \in Resources :
           running' /\ pc[r] = "ready" /\ pc'[r] = "ready" =>
             /\ Undelivered(r) => Undelivered(r)' \/ serial[r] \in heard'[key[r]]
             /\ serial[r] \in heard[key[r]]
                  => serial[r] \in heard'[key[r]] \/ PollReady(r)]_vars
  BY EventStep
<1>2. QED  BY <1>1, InvHolds, PTL DEF Spec, EventKept
=============================================================================
