------------------------- MODULE GrpLockChainProofs -------------------------
(***************************************************************************)
(* The chained locks of the group lock, for any finite set of threads, any  *)
(* locks and any nesting.  Of a chain without locks before the own one      *)
(* (Positions > 0) the own mutex is the first item, so only the thread that *)
(* holds it changes the list or is past the first item of a walk.           *)
(***************************************************************************)
EXTENDS GrpLockProofs

LEMMA CallChains ==
  ASSUME GrpTypes, ChainInv, NEW t \in Threads, NEW f \in Calls, Worthwhile(f), Call(t, f)
  PROVE  ChainInv'
<1>1. /\ pc[t] = Idle /\ lock_list' = lock_list /\ mutex' = mutex /\ depth' = depth
      /\ pc' = [pc EXCEPT ![t] = [f |-> f, at |-> "acquire", lck |-> NextItem(ListHead)]]
      /\ UNCHANGED <<list, ownership, depth>>
  BY DEF Call, MayUse, list
<1>2. Moves(t) /\ pc'[t].f = f /\ pc'[t].at = "acquire" /\ pc'[t].lck = NextItem(ListHead)
  BY <1>1, PhaseSet, Zenon DEF Moves
<1>3. Chain /\ Places /\ Mutexes
  BY DEF ChainInv
<1>4. /\ NextItem(ListHead) = lock_list[1] /\ lock_list[1] \in Range(lock_list)
      /\ 1 \in 1 .. Len(lock_list)
  <2>1. 1 \in 1 .. Len(lock_list) /\ Own = lock_list[1] /\ Own \in Range(lock_list)
    BY <1>3, ListFacts
  <2>2. NextItem(ListHead) = Own
    BY <1>3, <2>1, Neighbours, Zenon
  <2> QED BY <2>1, <2>2
<1>5. IsAt(pc'[t].lck, 1)
  BY <1>2, <1>4 DEF IsAt
<1>6. pc[t].at = "idle" /\ pc'[t].at \in Walking
  BY <1>1, <1>2 DEF Idle, Walking
<1>7. Mutexes'
  <2>1. Even(pc[t], depth[t], depth[t]) /\ Even(pc'[t], depth'[t], depth[t])
    BY <1>1, <1>3, <1>5, <1>6, Ends
  <2> QED BY <1>1, <1>2, <1>3, <2>1, LevelKept DEF Even
<1>8. Places'
  <2>1. pc'[t].lck \in Range(lock_list) /\ pc'[t].at # "external"
    BY <1>2, <1>4
  <2>2. ASSUME Chains(t)'
        PROVE  /\ pc'[t].f.lock \notin Range(lock_list)
               /\ \A s \in Threads : Chains(s) => pc[s].f.lock # pc'[t].f.lock
    BY <1>2, <2>2 DEF Worthwhile, Chains
  <2> QED BY <1>1, <1>2, <1>3, <2>1, <2>2, PlacesKept
<1> QED BY <1>1, <1>7, <1>8, Quiet

LEMMA AcquireItemChains ==
  ASSUME GrpTypes, ChainInv, NEW t \in Threads, AcquireItem(t)
  PROVE  ChainInv'
<1>0. PICK l : l = pc[t].lck
  OBVIOUS
<1>1. /\ pc[t].at = "acquire" /\ l # ListHead /\ Available(l, t)
      /\ lock_list' = lock_list /\ depth' = depth
      /\ mutex' = [mutex EXCEPT ![l] = Locked(@, t, 1)]
      /\ Goto(t, "acquire", NextItem(l)) /\ UNCHANGED <<list, ownership, depth>>
  BY <1>0 DEF AcquireItem, list
<1>2. Moves(t) /\ pc'[t].f = pc[t].f /\ pc'[t].at = "acquire" /\ pc'[t].lck = NextItem(l)
  BY <1>1, PhaseGoto, Zenon DEF Moves
<1>3. Chain /\ Places /\ Mutexes
  BY DEF ChainInv
<1>4. pc[t].at \in Walking /\ pc'[t].at \in Walking /\ l \in Range(lock_list) \cup {ListHead}
  BY <1>0, <1>1, <1>2, <1>3 DEF Walking, Places
<1>5. PICK n \in 1 .. Len(lock_list) + 1 : IsAt(l, n)
  BY <1>3, <1>4, WalkAt
<1>6. n \in 1 .. Len(lock_list) /\ l = lock_list[n] /\ IsAt(NextItem(l), n + 1)
  BY <1>1, <1>3, <1>5, StepAt
<1>7. l \in Locks /\ depth[t] \in Nat /\ n + 1 \in {n, n + 1} /\ n + 1 # n
  BY <1>3, <1>6, ListFacts, GrpLockAssumption DEF GrpTypes
<1>8. SameHolds(t, l) /\ Holds(t, l) = depth[t] /\ Holds(t, l)' = depth[t] + 1
  <2>1. IsAt(pc[t].lck, n) /\ IsAt(pc'[t].lck, n + 1)
    BY <1>0, <1>2, <1>5, <1>6
  <2>2. ASSUME NEW a \in {n}, NEW b \in {n + 1}
        PROVE  /\ SameHolds(t, l) /\ Holds(t, l) = IF a = n THEN depth[t] ELSE depth[t] + 1
               /\ Holds(t, l)' = IF b = n THEN depth[t] ELSE depth[t] + 1
    BY <1>1, <1>2, <1>3, <1>4, <1>6, <1>7, <2>1, ItemHolds
  <2> QED BY <1>7, <2>2
<1>9. Mutexes'
  <2>1. 1 \in Nat \ {0}
    OBVIOUS
  <2> QED BY <1>1, <1>3, <1>7, <1>8, <2>1, HoldsMore
<1>10. Places'
  <2>1. pc'[t].lck \in Range(lock_list) \cup {ListHead}
    BY <1>2, <1>3, <1>6, ListFacts DEF IsAt
  <2>2. Chains(t)' => Chains(t)
    BY <1>1, <1>2 DEF Chains
  <2>3. pc'[t].f \in Calls \cup {Release, Idle.f} /\ pc'[t].at # "external"
    BY <1>2, <1>3 DEF Places
  <2> QED BY <1>1, <1>2, <1>3, <2>1, <2>2, <2>3, PlacesKept
<1> QED BY <1>1, <1>9, <1>10, Quiet

(* The roll-back of a failed try starts from where the walk got to. *)
LEMMA TryFailsChains ==
  ASSUME GrpTypes, ChainInv, NEW t \in Threads, TryFails(t)
  PROVE  ChainInv'
<1>1. /\ pc[t].at = "acquire" /\ Goto(t, "rollback", pc[t].lck)
      /\ lock_list' = lock_list /\ mutex' = mutex /\ depth' = depth
      /\ UNCHANGED <<list, ownership, depth>>
  BY DEF TryFails, list
<1>2. Moves(t) /\ pc'[t].f = pc[t].f /\ pc'[t].at = "rollback" /\ pc'[t].lck = pc[t].lck
  BY <1>1, PhaseGoto, Zenon DEF Moves
<1>3. Chain /\ Places /\ Mutexes
  BY DEF ChainInv
<1>4. \A k \in Locks : Level(pc'[t], depth'[t], k) = Level(pc[t], depth[t], k)
  BY <1>1, <1>2 DEF Level, Walking
<1>5. Mutexes'
  BY <1>1, <1>2, <1>3, <1>4, LevelKept
<1>6. Places'
  <2>1. pc'[t].lck \in Range(lock_list) \cup {ListHead} /\ pc'[t].f \in Calls \cup {Release, Idle.f}
    BY <1>1, <1>2, <1>3 DEF Places, Walking
  <2>2. ~Chains(t)' /\ pc'[t].at # "external"
    BY <1>2 DEF Chains
  <2> QED BY <1>1, <1>2, <1>3, <2>1, <2>2, PlacesKept
<1> QED BY <1>1, <1>5, <1>6, Quiet

(* A walk back is at an item, or the head, below which all is still held. *)
LEMMA ReleaseItemChains ==
  ASSUME GrpTypes, ChainInv, NEW t \in Threads, ReleaseItem(t)
  PROVE  ChainInv'
<1>0. PICK l : l = PrevItem(pc[t].lck)
  OBVIOUS
<1>1. /\ pc[t].at \in {"release", "rollback"} /\ l # ListHead
      /\ lock_list' = lock_list /\ depth' = depth
      /\ mutex' = [mutex EXCEPT ![l] = Unlocked(@, t, 1)]
      /\ Goto(t, pc[t].at, l) /\ UNCHANGED <<list, ownership, depth>>
  BY <1>0 DEF ReleaseItem, list
<1>2. Moves(t) /\ pc'[t].f = pc[t].f /\ pc'[t].at = pc[t].at /\ pc'[t].lck = l
  BY <1>1, PhaseGoto, Zenon DEF Moves
<1>3. Chain /\ Places /\ Mutexes
  BY DEF ChainInv
<1>4. pc[t].at \in Walking /\ pc'[t].at \in Walking /\ pc[t].lck \in Range(lock_list) \cup {ListHead}
  BY <1>1, <1>2, <1>3 DEF Walking, Places
<1>5. PICK m \in 1 .. Len(lock_list) + 1 : IsAt(pc[t].lck, m)
  BY <1>3, <1>4, WalkAt
<1>6. PICK n \in 1 .. Len(lock_list) : m = n + 1 /\ l = lock_list[n] /\ IsAt(l, n)
  <2>1. m > 1
    BY <1>0, <1>1, <1>3, <1>5, StepAt
  <2>2. m - 1 \in 1 .. Len(lock_list) /\ l = lock_list[m - 1] /\ IsAt(l, m - 1)
    BY <1>0, <1>3, <1>5, <2>1, StepAt
  <2>3. m = (m - 1) + 1
    OBVIOUS
  <2> QED BY <2>2, <2>3
<1>7. l \in Locks /\ depth[t] \in Nat /\ n + 1 \in {n, n + 1} /\ n + 1 # n
  BY <1>3, <1>6, ListFacts, GrpLockAssumption DEF GrpTypes
<1>8. SameHolds(t, l) /\ Holds(t, l) = depth[t] + 1 /\ Holds(t, l)' = depth[t]
  <2>1. IsAt(pc[t].lck, n + 1) /\ IsAt(pc'[t].lck, n)
    BY <1>2, <1>5, <1>6
  <2>2. ASSUME NEW a \in {n + 1}, NEW b \in {n}
        PROVE  /\ SameHolds(t, l) /\ Holds(t, l) = IF a = n THEN depth[t] ELSE depth[t] + 1
               /\ Holds(t, l)' = IF b = n THEN depth[t] ELSE depth[t] + 1
    BY <1>1, <1>2, <1>3, <1>4, <1>6, <1>7, <2>1, ItemHolds
  <2> QED BY <1>7, <2>2
<1>9. Mutexes'
  <2>1. 1 \in Nat \ {0} /\ Holds(t, l) >= 1 /\ Holds(t, l)' = Holds(t, l) - 1
    BY <1>7, <1>8
  <2> QED BY <1>1, <1>3, <1>7, <1>8, <2>1, HoldsLess
<1>10. Places'
  <2>1. pc'[t].lck \in Range(lock_list) \cup {ListHead}
    BY <1>2, <1>3, <1>6, ListFacts
  <2>2. ~Chains(t)' /\ pc'[t].at # "external"
    BY <1>1, <1>2 DEF Chains
  <2>3. pc'[t].f \in Calls \cup {Release, Idle.f}
    BY <1>2, <1>3 DEF Places
  <2> QED BY <1>1, <1>2, <1>3, <2>1, <2>2, <2>3, PlacesKept
<1> QED BY <1>1, <1>9, <1>10, Quiet

(* Back at the first item, a walk has released what it acquired. *)
LEMMA WalkedBack ==
  ASSUME GrpTypes, ChainInv, NEW t \in Threads, pc[t].at \in {"release", "rollback"},
         PrevItem(pc[t].lck) = ListHead, Return(t), lock_list' = lock_list, depth' = depth, mutex' = mutex
  PROVE  Places' /\ Mutexes'
<1>1. Moves(t) /\ pc'[t].f = Idle.f /\ pc'[t].at = "idle"
  BY PhaseReturn, Zenon DEF Moves
<1>2. Chain /\ Places /\ Mutexes
  BY DEF ChainInv
<1>3. pc[t].at \in Walking /\ pc[t].lck \in Range(lock_list) \cup {ListHead}
  BY <1>2 DEF Walking, Places
<1>4. PICK n \in 1 .. Len(lock_list) + 1 : IsAt(pc[t].lck, n)
  BY <1>2, <1>3, WalkAt
<1>5. n = 1
  <2>1. ~(n > 1)
    BY <1>2, <1>4, StepAt
  <2> QED BY <2>1
<1>6. Even(pc[t], depth[t], depth[t]) /\ Even(pc'[t], depth'[t], depth[t])
  BY <1>1, <1>2, <1>3, <1>4, <1>5, Ends
<1>7. Mutexes'
  BY <1>1, <1>2, <1>6, LevelKept DEF Even
<1>8. Places'
  <2>1. ~Chains(t)' /\ pc'[t].at # "external" /\ pc'[t].at \notin Walking
    BY <1>1 DEF Chains, Walking
  <2> QED BY <1>1, <1>2, <2>1, PlacesKept
<1> QED BY <1>7, <1>8

(* Nobody is inside when the lock is destroyed, and so nothing is unlocked. *)
LEMMA DestroyUnlocksNothing ==
  ASSUME ChainInv, NEW t \in Threads, grp_lock_dec_ref(t), NoUseAfterDestroy', depth' = depth
  PROVE  mutex' = mutex
<1>1. mutex \in [Locks -> [owner : Threads \cup {NoThread}, count : Nat]]
  BY DEF ChainInv, Mutexes
<1>2. CASE ref_cnt = 1 /\ alive
  <2>1. /\ ~alive'
        /\ mutex' = [l \in Locks |-> IF l \in Range(lock_list) \ {Own}
                                     THEN Unlocked(mutex[l], t, owner_cnt) ELSE mutex[l]]
    BY <1>2 DEF grp_lock_dec_ref, grp_lock_destroy
  <2>2. owner_cnt = 0
    BY <2>1 DEF NoUseAfterDestroy, ChainInv, Owned
  <2>3. ASSUME NEW l \in Locks PROVE Unlocked(mutex[l], t, owner_cnt) = mutex[l]
    <3>1. mutex[l].count \in Nat /\ mutex[l] = [owner |-> mutex[l].owner, count |-> mutex[l].count]
      BY <1>1
    <3>2. mutex[l].owner = t => mutex[l].count > 0
      BY GrpLockAssumption DEF ChainInv, Mutexes
    <3> QED BY <2>2, <3>1, <3>2 DEF Unlocked
  <2> QED BY <1>1, <2>1, <2>3
<1>3. CASE ref_cnt # 1 \/ ~alive
  BY <1>3 DEF grp_lock_dec_ref, grp_lock_destroy
<1> QED BY <1>2, <1>3

LEMMA ReleaseDoneChains ==
  ASSUME GrpTypes, ChainInv, NoUseAfterDestroy', NEW t \in Threads, ReleaseDone(t) \/ RollbackDone(t)
  PROVE  ChainInv'
<1>1. /\ pc[t].at \in {"release", "rollback"} /\ PrevItem(pc[t].lck) = ListHead /\ Return(t)
      /\ grp_lock_dec_ref(t) \/ mutex' = mutex
      /\ UNCHANGED <<list, ownership, depth>> /\ lock_list' = lock_list /\ depth' = depth
  BY DEF ReleaseDone, RollbackDone, list
<1>2. mutex' = mutex
  BY <1>1, DestroyUnlocksNothing
<1> QED BY <1>1, <1>2, WalkedBack, Quiet

(* Steps that change references only. *)
LEMMA ReferencesChain ==
  ASSUME ChainInv, NoUseAfterDestroy', NEW t \in Threads,
         pj_grp_lock_add_ref(t) \/ pj_grp_lock_dec_ref(t)
  PROVE  ChainInv'
<1>1. /\ grp_lock_dec_ref(t) \/ mutex' = mutex
      /\ UNCHANGED <<list, ownership, depth>> /\ lock_list' = lock_list /\ depth' = depth /\ pc' = pc
  BY DEF pj_grp_lock_add_ref, pj_grp_lock_dec_ref, list
<1>2. mutex' = mutex
  BY <1>1, DestroyUnlocksNothing
<1>3. Mutexes'
  <2>1. \A s, k : Holds(s, k)' = Holds(s, k)
    BY <1>1, ListSame DEF Holds
  <2> QED BY <1>2, <2>1, HoldsKept DEF ChainInv
<1>4. Places'
  BY <1>1 DEF ChainInv, Places, Chains, Calls, Release, Idle, Acquire, TryAcquire
<1> QED BY <1>1, <1>3, <1>4, Quiet

LEMMA AcquireDoneChains ==
  ASSUME GrpTypes, ChainInv, NEW t \in Threads, AcquireDone(t)
  PROVE  ChainInv'
<1>1. /\ pc[t].at = "acquire" /\ pc[t].lck = ListHead /\ grp_lock_set_owner_thread(t)
      /\ depth' = [depth EXCEPT ![t] = @ + 1]
      /\ Return(t) \/ Goto(t, "body", ListHead)
      /\ mutex' = mutex /\ lock_list' = lock_list /\ prio' = prio
  BY DEF AcquireDone, list
<1>2. /\ Moves(t) /\ pc'[t].at \in {"idle", "body"}
      /\ pc'[t].f \in {pc[t].f, Idle.f}
      /\ pc'[t].at = "body" => pc'[t].f = pc[t].f
  <2>1. CASE Return(t)
    BY <2>1, PhaseReturn, Zenon DEF Moves
  <2>2. CASE Goto(t, "body", ListHead)
    BY <2>2, PhaseGoto, Zenon DEF Moves
  <2> QED BY <1>1, <2>1, <2>2
<1>3. Chain /\ Places /\ Mutexes /\ Owned
  BY DEF ChainInv
<1>4. /\ depth'[t] = depth[t] + 1 /\ depth[t] \in Nat
      /\ \A s \in Threads : depth[s] \in Nat /\ (s # t => depth'[s] = depth[s])
  BY <1>1, GrpLockAssumption DEF GrpTypes
<1>5. Even(pc[t], depth[t], depth[t] + 1) /\ Even(pc'[t], depth'[t], depth[t] + 1)
  BY <1>1, <1>2, <1>3, <1>4, Ends DEF Walking
<1>6. Mutexes'
  BY <1>1, <1>2, <1>3, <1>4, <1>5, LevelKept DEF Even
<1>7. Places'
  <2>1. Chains(t)' => Chains(t) /\ pc'[t].f = pc[t].f
    BY <1>1, <1>2 DEF Chains
  <2>2. pc'[t].f \in Calls \cup {Release, Idle.f} /\ pc'[t].at # "external" /\ pc'[t].at \notin Walking
    BY <1>2, <1>3 DEF Places, Walking
  <2> QED BY <1>1, <1>2, <1>3, <1>4, <2>1, <2>2, PlacesKept
<1>8. Owned'
  <2>1. Holds(t, Own) # 0
    <3>1. Own \in Locks /\ Own \in Range(lock_list)
      BY <1>3, ListFacts DEF Locks
    <3>2. Holds(t, Own) = depth[t] + 1
      BY <1>5, <3>1 DEF Even, Holds
    <3> QED BY <1>4, <3>2
  <2>2. \A s \in Threads : s # t => depth[s] = 0
    BY <2>1, Inside
  <2>3. CASE depth[t] = 0
    <3>1. owner = NoThread /\ owner_cnt = 0
      BY <1>3, <2>2, <2>3 DEF Owned
    <3> QED BY <1>1, <1>4, <2>2, <2>3, <3>1 DEF Owned, grp_lock_set_owner_thread
  <2>4. CASE depth[t] # 0
    <3>1. owner = t /\ owner_cnt = depth[t] /\ t # NoThread
      BY <1>3, <1>4, <2>4, GrpLockAssumption DEF Owned
    <3> QED BY <1>1, <1>4, <2>2, <3>1 DEF Owned, grp_lock_set_owner_thread
  <2> QED BY <2>3, <2>4
<1> QED BY <1>1, <1>3, <1>6, <1>7, <1>8 DEF ChainInv, Chain, Locks

(* The nesting goes down by one, with every lock still held. *)
LEMMA ReleaseStarts ==
  ASSUME GrpTypes, ChainInv, NEW t \in Threads, NEW f, StartRelease(t, f),
         pc[t].at \in {"idle", "body"}, depth[t] > 0
  PROVE  /\ Moves(t) /\ pc'[t].f = f /\ pc'[t].at = "release" /\ pc'[t].lck = ListHead
         /\ depth[t] \in Nat /\ depth'[t] = depth[t] - 1 /\ depth'[t] + 1 = depth[t]
         /\ \A s \in Threads : s # t => depth'[s] = depth[s] /\ depth[s] = 0
         /\ Even(pc[t], depth[t], depth[t])
         /\ owner = t /\ owner_cnt = depth[t]
         /\ Owned'
<1>1. /\ grp_lock_unset_owner_thread(t) /\ depth' = [depth EXCEPT ![t] = @ - 1]
      /\ pc' = [pc EXCEPT ![t] = [f |-> f, at |-> "release", lck |-> ListHead]]
  BY DEF StartRelease
<1>2. Moves(t) /\ pc'[t].f = f /\ pc'[t].at = "release" /\ pc'[t].lck = ListHead
  BY <1>1, PhaseSet, Zenon DEF Moves
<1>3. /\ depth[t] \in Nat /\ depth'[t] = depth[t] - 1 /\ depth'[t] + 1 = depth[t]
      /\ \A s \in Threads : s # t => depth'[s] = depth[s]
  BY <1>1, GrpLockAssumption DEF GrpTypes
<1>4. Even(pc[t], depth[t], depth[t])
  BY Ends DEF ChainInv
<1>5. Holds(t, Own) # 0
  BY <1>3, <1>4, HoldsOwn DEF ChainInv
<1>6. \A s \in Threads : s # t => depth[s] = 0
  BY <1>5, Inside
<1>7. owner = t /\ owner_cnt = depth[t]
  BY DEF ChainInv, Owned
<1>8. Owned'
  <2>1. CASE depth[t] = 1
    <3>1. owner' = NoThread /\ owner_cnt' = 0 /\ \A s \in Threads : depth'[s] = 0
      BY <1>1, <1>3, <1>6, <1>7, <2>1 DEF grp_lock_unset_owner_thread
    <3> QED BY <3>1 DEF Owned
  <2>2. CASE depth[t] # 1
    <3>1. owner' = t /\ owner_cnt' = depth[t] - 1 /\ depth'[t] # 0
      BY <1>1, <1>3, <1>7, <2>2 DEF grp_lock_unset_owner_thread
    <3> QED BY <1>3, <1>6, <3>1 DEF Owned
  <2> QED BY <2>1, <2>2
<1> QED BY <1>2, <1>3, <1>4, <1>6, <1>7, <1>8

LEMMA ReleaseChains ==
  ASSUME GrpTypes, ChainInv, NEW t \in Threads, NEW f \in Calls \cup {Release, Idle.f}, StartRelease(t, f),
         pc[t].at \in {"idle", "body"}, depth[t] > 0, UNCHANGED <<list, mutex>>
  PROVE  ChainInv'
<1>1. lock_list' = lock_list /\ prio' = prio /\ mutex' = mutex
  BY DEF list
<1>2. /\ Moves(t) /\ pc'[t].f = f /\ pc'[t].at = "release" /\ pc'[t].lck = ListHead
      /\ depth[t] \in Nat /\ depth'[t] + 1 = depth[t]
      /\ \A s \in Threads : s # t => depth'[s] = depth[s]
      /\ Even(pc[t], depth[t], depth[t]) /\ Owned'
  BY ReleaseStarts
<1>3. Chain /\ Places /\ Mutexes
  BY DEF ChainInv
<1>4. Mutexes'
  <2>1. Even(pc'[t], depth'[t], depth'[t] + 1)
    BY <1>2, <1>3, Ends DEF Walking
  <2> QED BY <1>1, <1>2, <1>3, <2>1, LevelKept DEF Even
<1>5. Places'
  <2>1. ~Chains(t)' /\ pc'[t].at # "external"
    BY <1>2 DEF Chains
  <2> QED BY <1>1, <1>2, <1>3, <2>1, PlacesKept
<1> QED BY <1>1, <1>2, <1>3, <1>4, <1>5 DEF ChainInv, Chain, Locks

LEMMA ExternalChains ==
  ASSUME GrpTypes, ChainInv, NEW t \in Threads, NEW l \in ExtLocks, LockExternal(t, l)
  PROVE  ChainInv'
<1>1. /\ pc[t] = Idle /\ depth[t] = 0 /\ Available(l, t) /\ Goto(t, "external", l)
      /\ mutex' = [mutex EXCEPT ![l] = Locked(@, t, 1)]
      /\ UNCHANGED <<list, ownership, depth>> /\ lock_list' = lock_list /\ depth' = depth
  BY DEF LockExternal, Goto, list
<1>2. Moves(t) /\ pc'[t].f = pc[t].f /\ pc'[t].at = "external" /\ pc'[t].lck = l
  BY <1>1, PhaseGoto, Zenon DEF Moves
<1>3. Chain /\ Places /\ Mutexes /\ l \in Locks /\ 1 \in Nat \ {0}
  BY DEF ChainInv, Locks
<1>4. \A k \in Locks : Holds(t, k) = 0
  <2>1. Even(pc[t], depth[t], depth[t])
    BY <1>1, <1>3, Ends DEF Idle
  <2> QED BY <1>1, <2>1 DEF Even, Holds
<1>5. \A k : Holds(t, k)' = IF k = l THEN 1 ELSE 0
  BY <1>1, <1>2, ListSame DEF Level
<1>6. SameHolds(t, l) /\ Holds(t, l)' = Holds(t, l) + 1
  <2>1. Holds(t, l) = 0 /\ Holds(t, l)' = 1
    BY <1>3, <1>4, <1>5
  <2>2. \A s \in Threads \ {t}, k \in Locks : Holds(s, k)' = Holds(s, k)
    BY <1>1, <1>2, OthersHold
  <2>3. SameHolds(t, l)
    BY <1>4, <1>5, <2>2 DEF SameHolds
  <2> QED BY <2>1, <2>3
<1>7. Mutexes'
  BY <1>1, <1>3, <1>6, HoldsMore
<1>8. Places'
  <2>1. ~Chains(t)' /\ pc'[t].at \notin Walking /\ pc'[t].f \in Calls \cup {Release, Idle.f}
    BY <1>2, <1>3 DEF Chains, Walking, Places
  <2> QED BY <1>1, <1>2, <1>3, <2>1, PlacesKept
<1> QED BY <1>1, <1>7, <1>8, Quiet

LEMMA ExternalReturns ==
  ASSUME GrpTypes, ChainInv, NEW t \in Threads, UnlockExternal(t)
  PROVE  ChainInv'
<1>0. PICK l : l = pc[t].lck
  OBVIOUS
<1>1. /\ pc[t].at = "external" /\ Return(t)
      /\ mutex' = [mutex EXCEPT ![l] = Unlocked(@, t, 1)]
      /\ UNCHANGED <<list, ownership, depth>> /\ lock_list' = lock_list /\ depth' = depth
  BY <1>0 DEF UnlockExternal, list
<1>2. Moves(t) /\ pc'[t].f = Idle.f /\ pc'[t].at = "idle"
  BY <1>1, PhaseReturn, Zenon DEF Moves
<1>3. Chain /\ Places /\ Mutexes /\ l \in Locks /\ depth[t] = 0 /\ 1 \in Nat \ {0}
  <2>1. Chain /\ Places /\ Mutexes
    BY DEF ChainInv
  <2>2. l \in ExtLocks /\ depth[t] = 0
    BY <1>0, <1>1, <2>1 DEF Places
  <2> QED BY <2>1, <2>2 DEF Locks
<1>4. \A k \in Locks : Holds(t, k)' = 0
  <2>1. Even(pc'[t], depth'[t], depth'[t])
    BY <1>2, <1>3, Ends
  <2> QED BY <1>1, <1>3, <2>1, ListSame DEF Even
<1>5. \A k : Holds(t, k) = IF k = l THEN 1 ELSE 0
  BY <1>0, <1>1 DEF Holds, Level
<1>6. SameHolds(t, l) /\ Holds(t, l) >= 1 /\ Holds(t, l)' = Holds(t, l) - 1
  <2>1. Holds(t, l) = 1 /\ Holds(t, l)' = 0
    BY <1>3, <1>4, <1>5
  <2>2. \A s \in Threads \ {t}, k \in Locks : Holds(s, k)' = Holds(s, k)
    BY <1>1, <1>2, OthersHold
  <2>3. SameHolds(t, l)
    BY <1>4, <1>5, <2>2 DEF SameHolds
  <2> QED BY <2>1, <2>3
<1>7. Mutexes'
  BY <1>1, <1>3, <1>6, HoldsLess
<1>8. Places'
  <2>1. ~Chains(t)' /\ pc'[t].at \notin Walking /\ pc'[t].at # "external"
    BY <1>2 DEF Chains, Walking
  <2> QED BY <1>1, <1>2, <1>3, <2>1, PlacesKept
<1> QED BY <1>1, <1>7, <1>8, Quiet
-----------------------------------------------------------------------------
(* While t holds the own mutex another thread has passed no item, so that   *)
(* a change of the list behind the own lock makes no difference to it.      *)
LEMMA OutsidersKeep ==
  ASSUME GrpTypes, ChainInv, Chain', NEW t \in Threads, Moves(t), Holds(t, Own) # 0,
         \A s \in Threads : s # t => depth'[s] = depth[s],
         NEW s \in Threads, s # t
  PROVE  /\ \A k \in Locks : Holds(s, k)' = Holds(s, k)
         /\ pc[s].at \in Walking => pc[s].lck = Own
<1>1. pc'[s] = pc[s] /\ depth'[s] = depth[s] /\ depth[s] = 0 /\ Holds(s, Own) = 0
  BY Inside DEF Moves
<1>2. Chain /\ Places
  BY DEF ChainInv
<1>3. ASSUME pc[s].at \in Walking PROVE IsAt(pc[s].lck, 1) /\ pc[s].lck = Own
  <2>1. PICK n \in 1 .. Len(lock_list) + 1 : IsAt(pc[s].lck, n)
    BY <1>2, <1>3, WalkAt DEF Places
  <2>2. 1 \in 1 .. Len(lock_list) /\ lock_list[1] = Own
    BY <1>2, ListFacts
  <2> DEFINE level(k) == Level(pc[s], depth[s], k)
  <2>3. /\ \A i \in 1 .. Len(lock_list) : level(lock_list[i]) = IF i < n THEN depth[s] + 1 ELSE depth[s]
        /\ \A k \in Locks \ Range(lock_list) : level(k) = 0
    BY <1>2, <1>3, <2>1, LevelAt
  <2>4. n = 1
    <3>1. Holds(s, Own) = IF 1 < n THEN depth[s] + 1 ELSE depth[s]
      BY <2>2, <2>3 DEF Holds
    <3>2. ~(1 < n)
      BY <1>1, <3>1
    <3> QED BY <3>2
  <2>5. IsAt(pc[s].lck, 1)
    BY <2>1, <2>4
  <2>6. 1 # Len(lock_list) + 1
    BY <2>2
  <2> QED BY <2>2, <2>5, <2>6, Zenon DEF IsAt
<1>4. CASE pc[s].at = "external"
  BY <1>1, <1>3, <1>4 DEF Holds, Level, Walking
<1>5. CASE pc[s].at # "external" /\ pc[s].at \notin Walking
  BY <1>1, <1>5 DEF Holds, Level
<1>6. CASE pc[s].at \in Walking
  <2>1. pc[s].at # "external" /\ pc[s].lck = Own /\ Own # ListHead
    BY <1>3, <1>6, GrpLockAssumption DEF Walking
  <2>2. ASSUME NEW k \in Locks PROVE Holds(s, k) = 0
    <3>1. Even(pc[s], depth[s], depth[s])
      BY <1>2, <1>3, <1>6, Ends
    <3> QED BY <1>1, <3>1 DEF Even, Holds
  <2>3. ASSUME NEW k \in Locks PROVE Holds(s, k)' = 0
    <3>1. ~Before(k, Own)'
      <4>1. /\ lock_list' \in Seq(Locks) /\ lock_list' # <<>> /\ lock_list'[1] = Own
            /\ \A i, j \in DOMAIN lock_list' : lock_list'[i] = lock_list'[j] => i = j
        BY DEF Chain
      <4>2. 1 \in DOMAIN lock_list' /\ DOMAIN lock_list' \subseteq Nat /\ \A i \in DOMAIN lock_list' : ~(i < 1)
        BY <4>1
      <4>3. \A j \in DOMAIN lock_list' : lock_list'[j] = Own => j = 1
        BY <4>1, <4>2
      <4> QED BY <2>1, <4>2, <4>3 DEF Before
    <3> QED BY <1>1, <2>1, <3>1 DEF Holds, Level
  <2> QED BY <1>3, <1>6, <2>2, <2>3
<1> QED BY <1>4, <1>5, <1>6

(* The places after the list changed, l being the lock put in or taken out. *)
LEMMA PlacesChanged ==
  ASSUME GrpTypes, ChainInv, Chain', NEW t \in Threads, Moves(t), Holds(t, Own) # 0,
         \A s \in Threads : s # t => depth'[s] = depth[s],
         pc'[t].at = "release", pc'[t].lck = ListHead, pc'[t].f = pc[t].f,
         NEW l, Range(lock_list') \subseteq Range(lock_list) \cup {l},
         l \in Range(lock_list) \/ (Chains(t) /\ pc[t].f.lock = l)
  PROVE  Places'
<1>1. ASSUME NEW s \in Threads, s # t
      PROVE  pc'[s] = pc[s] /\ (Chains(s)' <=> Chains(s)) /\ (pc[s].at \in Walking => pc[s].lck = Own)
  BY <1>1, OutsidersKeep DEF Moves, Chains
<1>2. Own \in Range(lock_list') /\ Places /\ ~Chains(t)' /\ pc'[t].at # "external"
  <2>1. 1 \in DOMAIN lock_list' /\ lock_list'[1] = Own
    BY DEF Chain
  <2> QED BY <2>1 DEF Range, ChainInv, Chains
<1>3. ASSUME NEW s \in Threads, Chains(s)'
      PROVE  /\ pc'[s].f.lock \notin Range(lock_list')
             /\ \A r \in Threads \ {s} : Chains(r)' => pc'[r].f.lock # pc'[s].f.lock
  <2>1. s # t /\ Chains(s) /\ pc'[s] = pc[s]
    BY <1>1, <1>2, <1>3
  <2>p. \A r \in Threads : Chains(r) => /\ pc[r].f.lock \notin Range(lock_list)
                                         /\ \A u \in Threads \ {r} : Chains(u) => pc[u].f.lock # pc[r].f.lock
    BY <1>2 DEF Places
  <2>2. pc[s].f.lock \notin Range(lock_list) /\ pc[s].f.lock # l
    BY <2>p, <2>1, Zenon
  <2>3. ASSUME NEW r \in Threads \ {s}, Chains(r)' PROVE pc'[r].f.lock # pc'[s].f.lock
    <3>1. Chains(r) /\ pc'[r] = pc[r]
      BY <1>1, <1>2, <2>3
    <3> QED BY <2>p, <2>1, <3>1, Zenon
  <2> QED BY <2>1, <2>2, <2>3
<1>4. ASSUME NEW s \in Threads
      PROVE  /\ pc'[s].f \in Calls \cup {Release, Idle.f}
             /\ pc'[s].at \in Walking => pc'[s].lck \in Range(lock_list') \cup {ListHead}
             /\ pc'[s].at = "external" => pc'[s].lck \in ExtLocks /\ depth'[s] = 0
  <2>0. /\ pc[s].f \in Calls \cup {Release, Idle.f}
        /\ pc[s].at = "external" => pc[s].lck \in ExtLocks /\ depth[s] = 0
    BY <1>2 DEF Places
  <2>1. CASE s = t
    BY <1>2, <2>0, <2>1, Zenon
  <2>2. CASE s # t
    BY <1>1, <1>2, <2>0, <2>2, Zenon
  <2> QED BY <2>1, <2>2
<1> QED BY <1>3, <1>4 DEF Places, Calls, Release, Idle, Acquire, TryAcquire

(* After a change of the list t holds what is listed as often as before. *)
LEMMA HoldsListed ==
  ASSUME GrpTypes, ChainInv, Chain', NEW t \in Threads, Moves(t), Holds(t, Own) # 0,
         \A s \in Threads : s # t => depth'[s] = depth[s],
         pc'[t].at = "release", pc'[t].lck = ListHead, depth'[t] + 1 = depth[t],
         Even(pc[t], depth[t], depth[t]),
         NEW l \in Locks, \A k \in Locks : k # l => (k \in Range(lock_list') <=> k \in Range(lock_list))
  PROVE  /\ SameHolds(t, l)
         /\ Holds(t, l) = IF l \in Range(lock_list) THEN depth[t] ELSE 0
         /\ Holds(t, l)' = IF l \in Range(lock_list') THEN depth[t] ELSE 0
<1>2. \A k \in Locks : Holds(t, k)' = IF k \in Range(lock_list') THEN depth[t] ELSE 0
  BY Zenon DEF Holds, Level, Walking, Before
<1>3. \A k \in Locks : Holds(t, k) = IF k \in Range(lock_list) THEN depth[t] ELSE 0
  BY DEF Even, Holds
<1>4. \A s \in Threads, k \in Locks : s # t => Holds(s, k)' = Holds(s, k)
  BY OutsidersKeep
<1> QED BY <1>2, <1>3, <1>4 DEF SameHolds

(* An item goes in behind the own lock, whose prio is 0. *)
LEMMA ChainLockChains ==
  ASSUME \A p \in Positions : p > 0,
         GrpInv, ChainInv, NEW t \in Threads, pj_grp_lock_chain_lock(t)
  PROVE  ChainInv'
<1> DEFINE before == {i \in DOMAIN lock_list : \A j \in 1 .. i : prio[lock_list[j]] < pc[t].f.pos}
<1>0. PICK l, n : l = pc[t].f.lock /\ n = Cardinality(before) + 1
  OBVIOUS
<1>1. /\ pc[t].at = "body" /\ pc[t].f.name = "chain_lock" /\ Available(l, t)
      /\ mutex' = [mutex EXCEPT ![l] = Locked(@, t, owner_cnt)]
      /\ lock_list' = pj_list_insert_before(lock_list, n, l)
      /\ prio' = [prio EXCEPT ![l] = pc[t].f.pos]
      /\ StartRelease(t, pc[t].f)
  BY <1>0 DEF pj_grp_lock_chain_lock
<1>2. GrpTypes /\ depth[t] > 0 /\ Chain /\ Places /\ Mutexes /\ Chains(t)
  BY <1>1, InBody DEF ChainInv, Chains
<1>3. /\ l \in ExtLocks /\ pc[t].f.pos \in Int /\ pc[t].f.pos > 0
      /\ l \notin Range(lock_list)
  <2>1. pc[t].f \in Calls \cup {Release, Idle.f} /\ l \notin Range(lock_list)
    BY <1>0, <1>2 DEF Places
  <2>2. l \in ExtLocks /\ pc[t].f.pos \in Positions
    BY <1>0, <1>1, <2>1, LockNames
  <2> QED BY <2>1, <2>2, GrpLockAssumption
<1>4. l \in Locks \ Range(lock_list) /\ l # Own
  BY <1>3, GrpLockAssumption DEF Locks
<1>5. n \in 2 .. Len(lock_list) + 1
  <2>1. DOMAIN lock_list = 1 .. Len(lock_list) /\ Len(lock_list) \in Nat /\ 1 \in 1 .. Len(lock_list)
    BY <1>2, ListFacts
  <2>2. 1 \in before
    BY <1>2, <1>3, <2>1 DEF Chain
  <2>3. before \subseteq 1 .. Len(lock_list)
    BY <2>1
  <2> HIDE DEF before
  <2>4. IsFiniteSet(1 .. Len(lock_list)) /\ Cardinality(1 .. Len(lock_list)) = Len(lock_list)
    BY <2>1, FS_Interval
  <2>5. IsFiniteSet(before) /\ Cardinality(before) \in Nat /\ Cardinality(before) <= Len(lock_list)
    BY <2>3, <2>4, FS_Subset, FS_CardinalityType
  <2>6. Cardinality(before) # 0
    BY <2>2, <2>5, FS_EmptySet
  <2> QED BY <1>0, <2>1, <2>5, <2>6
<1>6. Listed(lock_list') /\ Range(lock_list') = Range(lock_list) \cup {l}
  BY <1>1, <1>2, <1>4, <1>5, Inserted
<1>7. Chain'
  <2>1. prio' \in [Locks -> Int] /\ prio'[Own] = 0
    BY <1>1, <1>2, <1>3, <1>4, GrpLockAssumption DEF Chain, Locks
  <2> QED BY <1>6, <2>1 DEF Chain, Listed, Locks
<1>8. /\ Moves(t) /\ pc'[t].f = pc[t].f /\ pc'[t].at = "release" /\ pc'[t].lck = ListHead
      /\ depth[t] \in Nat /\ depth'[t] + 1 = depth[t]
      /\ \A s \in Threads : s # t => depth'[s] = depth[s]
      /\ Even(pc[t], depth[t], depth[t]) /\ owner_cnt = depth[t] /\ Owned'
  BY <1>1, <1>2, ReleaseStarts
<1>9. Holds(t, Own) # 0
  BY <1>2, <1>8, HoldsOwn
<1>10. /\ SameHolds(t, l)
       /\ Holds(t, l) = IF l \in Range(lock_list) THEN depth[t] ELSE 0
       /\ Holds(t, l)' = IF l \in Range(lock_list') THEN depth[t] ELSE 0
  BY <1>2, <1>4, <1>6, <1>7, <1>8, <1>9, HoldsListed
<1>11. Mutexes'
  <2>0. Holds(t, l) = 0 /\ Holds(t, l)' = depth[t]
    BY <1>4, <1>6, <1>10
  <2>1. depth[t] \in Nat /\ depth[t] > 0
    BY <1>2, <1>8
  <2>2. Holds(t, l)' = Holds(t, l) + depth[t] /\ depth[t] \in Nat \ {0}
    BY <2>0, <2>1
  <2> QED BY <1>1, <1>2, <1>4, <1>8, <1>10, <2>2, HoldsMore
<1>12. Places'
  BY <1>0, <1>2, <1>6, <1>7, <1>8, <1>9, PlacesChanged
<1> QED BY <1>7, <1>8, <1>11, <1>12 DEF ChainInv

LEMMA UnchainLockChains ==
  ASSUME GrpInv, ChainInv, NEW t \in Threads, pj_grp_lock_unchain_lock(t)
  PROVE  ChainInv'
<1>0. PICK l : l = pc[t].f.lock
  OBVIOUS
<1>1. /\ pc[t].at = "body" /\ pc[t].f.name = "unchain_lock"
      /\ StartRelease(t, pc[t].f) /\ prio' = prio
  BY DEF pj_grp_lock_unchain_lock
<1>2. GrpTypes /\ depth[t] > 0 /\ Chain /\ Places /\ Mutexes /\ pc[t].f \in Calls \cup {Release, Idle.f}
  BY <1>1, InBody DEF ChainInv, Places
<1>3. l \in Locks /\ l # Own
  BY <1>0, <1>1, <1>2, LockNames, GrpLockAssumption DEF Locks
<1>4. CASE l \notin Range(lock_list)
  <2>1. UNCHANGED <<list, mutex>>
    BY <1>0, <1>1, <1>4 DEF pj_grp_lock_unchain_lock, list
  <2> QED BY <1>1, <1>2, <2>1, ReleaseChains
<1>5. CASE l \in Range(lock_list)
  <2>1. /\ lock_list' = pj_list_erase(lock_list, IndexOf(l))
        /\ mutex' = [mutex EXCEPT ![l] = Unlocked(@, t, owner_cnt)]
    BY <1>0, <1>5 DEF pj_grp_lock_unchain_lock
  <2>2. PICK n \in 1 .. Len(lock_list) : lock_list[n] = l
    BY <1>2, <1>5, ListFacts
  <2>3. IndexOf(l) = n
    BY <1>2, <2>2, ListFacts, Zenon DEF IndexOf
  <2>4. PICK m \in Nat, r \in Nat : m >= 1 /\ n = m + 1 /\ Len(lock_list) = m + 1 + r
    <3>1. n # 1
      BY <1>2, <1>3, <2>2, ListFacts
    <3>2. n - 1 \in Nat /\ n - 1 >= 1 /\ n = (n - 1) + 1 /\ Len(lock_list) - n \in Nat
      BY <1>2, <3>1, ListFacts
    <3>3. Len(lock_list) = (n - 1) + 1 + (Len(lock_list) - n)
      BY <1>2, ListFacts
    <3> QED BY <3>2, <3>3
  <2>5. Listed(lock_list') /\ Range(lock_list') = Range(lock_list) \ {l}
    BY <1>2, <2>1, <2>2, <2>3, <2>4, Erased
  <2>6. Chain'
    BY <1>1, <1>2, <2>5 DEF Chain, Listed, Locks
  <2>7. /\ Moves(t) /\ pc'[t].f = pc[t].f /\ pc'[t].at = "release" /\ pc'[t].lck = ListHead
        /\ depth[t] \in Nat /\ depth'[t] + 1 = depth[t]
        /\ \A s \in Threads : s # t => depth'[s] = depth[s]
        /\ Even(pc[t], depth[t], depth[t]) /\ owner_cnt = depth[t] /\ Owned'
    BY <1>1, <1>2, ReleaseStarts
  <2>8. Holds(t, Own) # 0
    BY <1>2, <2>7, HoldsOwn
  <2>9. /\ SameHolds(t, l)
        /\ Holds(t, l) = IF l \in Range(lock_list) THEN depth[t] ELSE 0
        /\ Holds(t, l)' = IF l \in Range(lock_list') THEN depth[t] ELSE 0
    BY <1>2, <1>3, <2>5, <2>6, <2>7, <2>8, HoldsListed
  <2>10. Mutexes'
    <3>0. Holds(t, l) = depth[t] /\ Holds(t, l)' = 0
      BY <1>5, <2>5, <2>9
    <3>1. depth[t] \in Nat /\ depth[t] > 0
      BY <1>2, <2>7
    <3>2. /\ Holds(t, l) >= depth[t] /\ Holds(t, l)' = Holds(t, l) - depth[t] /\ depth[t] \in Nat \ {0}
      BY <3>0, <3>1
    <3> QED BY <1>2, <1>3, <2>1, <2>7, <2>9, <3>2, HoldsLess
  <2>11. Places'
    BY <1>2, <1>5, <2>5, <2>6, <2>7, <2>8, PlacesChanged
  <2> QED BY <2>6, <2>7, <2>10, <2>11 DEF ChainInv
<1> QED BY <1>4, <1>5
-----------------------------------------------------------------------------
LEMMA ChainInitially == Init => ChainInv
<1> SUFFICES ASSUME Init PROVE ChainInv
  OBVIOUS
<1>1. /\ pc = [t \in Threads |-> Idle] /\ depth = [t \in Threads |-> 0] /\ lock_list = <<Own>>
      /\ prio = [l \in Locks |-> 0] /\ owner = NoThread /\ owner_cnt = 0
      /\ mutex = [l \in Locks |-> [owner |-> NoThread, count |-> 0]]
  BY DEF Init
<1>2. Chain
  BY <1>1 DEF Chain, Locks
<1>3. \A t \in Threads : pc[t].at = "idle" /\ pc[t].f = Idle.f /\ depth[t] = 0
  BY <1>1 DEF Idle
<1>4. Places
  BY <1>3 DEF Places, Walking, Chains
<1>5. Mutexes
  <2>1. \A t \in Threads : Even(pc[t], depth[t], depth[t])
    BY <1>2, <1>3, Ends
  <2>2. \A t \in Threads, l \in Locks : Holds(t, l) = 0
    BY <1>3, <2>1 DEF Even, Holds
  <2> QED BY <1>1, <2>2, GrpLockAssumption DEF Mutexes
<1>6. Owned
  BY <1>1, <1>3 DEF Owned
<1> QED BY <1>2, <1>4, <1>5, <1>6 DEF ChainInv

LEMMA ChainStep ==
  ASSUME \A p \in Positions : p > 0
  PROVE  GrpInv /\ GrpInv' /\ ChainInv /\ [Next]_vars => ChainInv'
<1> SUFFICES ASSUME GrpInv, GrpInv', ChainInv, [Next]_vars PROVE ChainInv'
  OBVIOUS
<1>t. GrpTypes /\ NoUseAfterDestroy'
  BY DEF GrpInv
<1>1. ASSUME NEW t \in Threads, NEW f \in Calls, Worthwhile(f), Call(t, f) PROVE ChainInv'
  BY <1>t, <1>1, CallChains
<1>2. ASSUME NEW t \in Threads, Step(t) PROVE ChainInv'
  <2>1. CASE AcquireItem(t)
    BY <1>t, <2>1, AcquireItemChains
  <2>2. CASE TryFails(t)
    BY <1>t, <2>2, TryFailsChains
  <2>3. CASE AcquireDone(t)
    BY <1>t, <2>3, AcquireDoneChains
  <2>4. CASE pj_grp_lock_chain_lock(t)
    BY <2>4, ChainLockChains
  <2>5. CASE pj_grp_lock_unchain_lock(t)
    BY <2>5, UnchainLockChains
  <2>6. CASE pj_grp_lock_add_handler(t) \/ pj_grp_lock_del_handler(t)
    <3>1. StartRelease(t, pc[t].f) /\ pc[t].at = "body" /\ UNCHANGED <<list, mutex>>
      BY <2>6 DEF pj_grp_lock_add_handler, pj_grp_lock_del_handler
    <3>2. depth[t] > 0 /\ pc[t].f \in Calls \cup {Release, Idle.f}
      BY <3>1, InBody DEF ChainInv, Places
    <3> QED BY <1>t, <3>1, <3>2, ReleaseChains
  <2>7. CASE ReleaseItem(t)
    BY <1>t, <2>7, ReleaseItemChains
  <2>8. CASE ReleaseDone(t) \/ RollbackDone(t)
    BY <1>t, <2>8, ReleaseDoneChains
  <2>9. CASE UnlockExternal(t)
    BY <1>t, <2>9, ExternalReturns
  <2> QED BY <1>2, <2>1, <2>2, <2>3, <2>4, <2>5, <2>6, <2>7, <2>8, <2>9 DEF Step
<1>3. ASSUME NEW t \in Threads, NEW l \in ExtLocks, LockExternal(t, l) PROVE ChainInv'
  BY <1>t, <1>3, ExternalChains
<1>4. ASSUME NEW t \in Threads, pj_grp_lock_release(t) PROVE ChainInv'
  <2>1. StartRelease(t, Release) /\ pc[t] = Idle /\ depth[t] > 0 /\ UNCHANGED <<list, mutex>>
    BY <1>4 DEF pj_grp_lock_release
  <2>2. pc[t].at = "idle"
    BY <2>1 DEF Idle
  <2> QED BY <1>t, <2>1, <2>2, ReleaseChains
<1>5. ASSUME NEW t \in Threads, pj_grp_lock_add_ref(t) \/ pj_grp_lock_dec_ref(t) PROVE ChainInv'
  BY <1>t, <1>5, ReferencesChain
<1>6. CASE UNCHANGED vars
  <2>1. /\ UNCHANGED <<list, ownership, depth>> /\ lock_list' = lock_list /\ depth' = depth
        /\ pc' = pc /\ mutex' = mutex
    BY <1>6 DEF vars, list
  <2>2. Mutexes'
    <3>1. \A s, k : Holds(s, k)' = Holds(s, k)
      BY <2>1, ListSame DEF Holds
    <3> QED BY <2>1, <3>1, HoldsKept DEF ChainInv
  <2>3. Places'
    BY <2>1 DEF ChainInv, Places, Chains, Calls, Release, Idle, Acquire, TryAcquire
  <2> QED BY <2>1, <2>2, <2>3, Quiet
<1> QED BY <1>1, <1>2, <1>3, <1>4, <1>5, <1>6 DEF Next

LEMMA ChainHolds ==
  ASSUME GrpInv, ChainInv
  PROVE  InsideHoldsChainedLocks /\ UnlocksOnlyOwned
<1>1. Chain /\ Places /\ Mutexes /\ \A t \in Threads : depth[t] \in Nat
  BY GrpLockAssumption DEF GrpInv, GrpTypes, ChainInv
<1>2. ASSUME NEW t \in Threads, depth[t] > 0, pc[t].at \in {"idle", "body"}, NEW l \in Range(lock_list)
      PROVE  mutex[l] = [owner |-> t, count |-> depth[t]]
  <2>1. l \in Locks
    BY <1>1, ListFacts
  <2>2. Holds(t, l) = depth[t]
    BY <1>1, <1>2, <2>1, Ends DEF Even, Holds
  <2>3. mutex[l] \in [owner : Threads \cup {NoThread}, count : Nat]
    BY <1>1, <2>1 DEF Mutexes
  <2>4. mutex[l].owner = t /\ mutex[l].count = depth[t]
    <3>1. depth[t] = IF mutex[l].owner = t THEN mutex[l].count ELSE 0
      BY <1>1, <2>1, <2>2, Zenon DEF Mutexes
    <3> QED BY <1>2, <3>1
  <2> QED BY <2>3, <2>4
<1>3. ASSUME NEW t \in Threads, pc[t].at \in {"release", "rollback"}, PrevItem(pc[t].lck) # ListHead
      PROVE  mutex[PrevItem(pc[t].lck)].owner = t
  <2>1. pc[t].at \in Walking /\ pc[t].lck \in Range(lock_list) \cup {ListHead}
    BY <1>1, <1>3 DEF Places, Walking
  <2>2. PICK n \in 1 .. Len(lock_list) + 1 : IsAt(pc[t].lck, n)
    BY <1>1, <2>1, WalkAt
  <2>3. n > 1
    BY <1>1, <1>3, <2>2, StepAt
  <2>4. PICK m \in 1 .. Len(lock_list) : m < n /\ PrevItem(pc[t].lck) = lock_list[m]
    <3>1. n - 1 \in 1 .. Len(lock_list) /\ PrevItem(pc[t].lck) = lock_list[n - 1]
      BY <1>1, <2>2, <2>3, StepAt
    <3>2. n - 1 < n
      OBVIOUS
    <3> QED BY <3>1, <3>2
  <2> DEFINE level(k) == Level(pc[t], depth[t], k)
  <2>5. /\ \A i \in 1 .. Len(lock_list) : level(lock_list[i]) = IF i < n THEN depth[t] + 1 ELSE depth[t]
        /\ \A k \in Locks \ Range(lock_list) : level(k) = 0
    BY <1>1, <2>1, <2>2, LevelAt
  <2>6. Holds(t, lock_list[m]) # 0 /\ lock_list[m] \in Locks
    <3>1. Holds(t, lock_list[m]) = depth[t] + 1
      BY <2>4, <2>5 DEF Holds
    <3>2. lock_list[m] \in Locks
      BY <1>1, ListFacts
    <3> QED BY <1>1, <3>1, <3>2
  <2> QED BY <1>1, <2>4, <2>6 DEF Mutexes
<1> QED BY <1>2, <1>3 DEF InsideHoldsChainedLocks, UnlocksOnlyOwned

(* With no lock chained before the own one, a thread inside the group lock  *)
(* holds the own mutex and every chained lock as often as it acquired the   *)
(* group lock, whatever is chained and unchained meanwhile.                 *)
THEOREM InsideHoldsAll ==
  ASSUME \A p \in Positions : p > 0
  PROVE  Spec => []InsideHoldsChainedLocks
<1>1. GrpInv /\ ChainInv => InsideHoldsChainedLocks
  BY ChainHolds
<1> QED BY <1>1, GrpInitially, GrpStep, ChainInitially, ChainStep, PTL DEF Spec

(* With no lock chained before the own one, grp_lock_release and the        *)
(* roll-back of a failed try only unlock mutexes of their own thread.       *)
THEOREM WalksUnlockOwned ==
  ASSUME \A p \in Positions : p > 0
  PROVE  Spec => []UnlocksOnlyOwned
<1>1. GrpInv /\ ChainInv => UnlocksOnlyOwned
  BY ChainHolds
<1> QED BY <1>1, GrpInitially, GrpStep, ChainInitially, ChainStep, PTL DEF Spec
=============================================================================
