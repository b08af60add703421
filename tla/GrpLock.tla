------------------------------ MODULE GrpLock ------------------------------
(***************************************************************************)
(* The group lock of lock.c: one recursive mutex of its own, external locks *)
(* chained before or after it, a reference count that destroys the lock,    *)
(* and the destroy handlers.                                                *)
(*                                                                         *)
(* Acquiring and releasing walk lock_list item by item.  The forward walk   *)
(* reads an item's next pointer when it has acquired the item and may then  *)
(* block with that pointer in hand; the backward walk reads prev after it   *)
(* has released the item.  Both are steps of their own here, so the list    *)
(* may change under a walk wherever the code lets it.                       *)
(***************************************************************************)
EXTENDS Integers, Sequences, FiniteSets, Functions

CONSTANTS Threads,
          ExtLocks,      \* external locks that may be chained (recursive mutexes)
          Own, ListHead,     \* own_lock's item and the list head
          Handlers,      \* destroy handlers
          Positions,     \* the pos arguments pj_grp_lock_chain_lock is called with
          NoThread,
          MaxDepth       \* bound: nested acquisitions by one thread

ASSUME GrpLockAssumption == /\ Own \notin ExtLocks
                            /\ ListHead \notin ExtLocks \cup {Own}
                            /\ Positions \subseteq Int
                            /\ NoThread \notin Threads /\ IsFiniteSet(Threads)
                            /\ MaxDepth \in Nat \ {0}

Locks == ExtLocks \cup {Own}

VARIABLES alive,         \* glock->pool is not NULL
          ref_cnt,
          owner, owner_cnt,
          lock_list,     \* the chained locks in list order
          prio,          \* prio[l]: the prio of l's item
          destroy_list,  \* handlers in registration order
          called,        \* handlers called so far
          mutex,         \* mutex[l]: owner and recursion count (pthread mutex)
          pc,            \* pc[t]: where t is in which function
          refs,          \* refs[t]: references t took with pj_grp_lock_add_ref
          depth          \* depth[t]: pj_grp_lock_acquires t has not released

list   == <<lock_list, prio>>
ownership == <<owner, owner_cnt>>
life   == <<alive, destroy_list, called>>
vars   == <<life, ref_cnt, ownership, list, mutex, pc, refs, depth>>

(* pc[t].f is the API function t is in, pc[t].at the phase of its walk,     *)
(* pc[t].lck the list item of the walk.                                     *)
Idle == [f |-> [name |-> "none"], at |-> "idle", lck |-> ListHead]
Acquire == [name |-> "acquire"]
TryAcquire == [name |-> "tryacquire"]
Release == [name |-> "release"]
Calls == {Acquire, TryAcquire}
         \cup [name : {"chain_lock"}, lock : ExtLocks, pos : Positions]
         \cup [name : {"unchain_lock"}, lock : ExtLocks]
         \cup [name : {"add_handler", "del_handler"}, handler : Handlers]

(* Created with a reference for every thread that will use it. *)
Init == /\ alive = TRUE
        /\ ref_cnt = Cardinality(Threads)
        /\ refs = [t \in Threads |-> 1]
        /\ owner = NoThread /\ owner_cnt = 0
        /\ lock_list = <<Own>>
        /\ prio = [l \in Locks |-> 0]
        /\ destroy_list = <<>> /\ called = <<>>
        /\ mutex = [l \in Locks |-> [owner |-> NoThread, count |-> 0]]
        /\ pc = [t \in Threads |-> Idle]
        /\ depth = [t \in Threads |-> 0]
-----------------------------------------------------------------------------
(* pj_list: ListHead is before the first and after the last item, and an erased *)
(* item points to itself both ways.                                         *)
IndexOf(l) == CHOOSE i \in DOMAIN lock_list : lock_list[i] = l

NextItem(l) ==
  IF l = ListHead THEN IF lock_list = <<>> THEN ListHead ELSE lock_list[1]
  ELSE IF l \notin Range(lock_list) THEN l
  ELSE IF IndexOf(l) = Len(lock_list) THEN ListHead ELSE lock_list[IndexOf(l) + 1]

PrevItem(l) ==
  IF l = ListHead THEN IF lock_list = <<>> THEN ListHead ELSE lock_list[Len(lock_list)]
  ELSE IF l \notin Range(lock_list) THEN l
  ELSE IF IndexOf(l) = 1 THEN ListHead ELSE lock_list[IndexOf(l) - 1]

pj_list_insert_before(s, i, e) == SubSeq(s, 1, i - 1) \o <<e>> \o SubSeq(s, i, Len(s))
pj_list_erase(s, i) == SubSeq(s, 1, i - 1) \o SubSeq(s, i + 1, Len(s))

(* pthread recursive mutex: an unlock by a thread that is not the owner     *)
(* fails and changes nothing.                                               *)
Available(l, t) == mutex[l].owner \in {NoThread, t}
Locked(m, t, n) == [owner |-> t, count |-> m.count + n]
Unlocked(m, t, n) ==
  IF m.owner # t THEN m
  ELSE IF m.count <= n THEN [owner |-> NoThread, count |-> 0]
  ELSE [m EXCEPT !.count = @ - n]

Goto(t, at, lck) == pc' = [pc EXCEPT ![t].at = at, ![t].lck = lck]
Return(t) == pc' = [pc EXCEPT ![t] = Idle]

grp_lock_set_owner_thread(t) ==
  /\ owner' = IF owner = NoThread THEN t ELSE owner
  /\ owner_cnt' = IF owner = NoThread THEN 1 ELSE owner_cnt + 1

grp_lock_unset_owner_thread(t) ==
  /\ owner_cnt' = IF owner_cnt <= 1 THEN 0 ELSE owner_cnt - 1
  /\ owner' = IF owner_cnt <= 1 THEN NoThread ELSE owner

(* grp_lock_destroy: nothing if already destroyed.                          *)
grp_lock_destroy(t) ==
  /\ alive' = FALSE
  /\ IF alive
     THEN /\ mutex' = [l \in Locks |->
                         IF l \in Range(lock_list) \ {Own}
                         THEN Unlocked(mutex[l], t, owner_cnt) ELSE mutex[l]]
          /\ called' = called \o destroy_list
     ELSE UNCHANGED <<mutex, called>>
  /\ UNCHANGED destroy_list

(* Mutant: destroyed one reference early. *)
DecRefEarly(t) ==
  /\ ref_cnt' = ref_cnt - 1
  /\ IF ref_cnt <= 2 THEN grp_lock_destroy(t) ELSE UNCHANGED <<life, mutex>>

grp_lock_dec_ref(t) ==
  /\ ref_cnt' = ref_cnt - 1
  /\ IF ref_cnt = 1 THEN grp_lock_destroy(t) ELSE UNCHANGED <<life, mutex>>

(* The caller's side of the contract: a thread touches the group lock only  *)
(* while a reference of its own, or its hold on the lock, keeps it alive.    *)
MayUse(t) == pc[t] = Idle /\ (refs[t] > 0 \/ depth[t] > 0)

(* Every function that takes the lock starts with the forward walk. *)
Call(t, f) == /\ MayUse(t)
              /\ depth[t] < MaxDepth
              /\ pc' = [pc EXCEPT ![t] = [f |-> f, at |-> "acquire", lck |-> NextItem(ListHead)]]
              /\ UNCHANGED <<life, ref_cnt, ownership, list, mutex, refs, depth>>

(* pj_lock_acquire(lck->lock); lck = lck->next. *)
AcquireItem(t) ==
  LET l == pc[t].lck IN
  /\ pc[t].at = "acquire" /\ l # ListHead
  /\ Available(l, t)
  /\ mutex' = [mutex EXCEPT ![l] = Locked(@, t, 1)]
  /\ Goto(t, "acquire", NextItem(l))
  /\ UNCHANGED <<life, ref_cnt, ownership, list, refs, depth>>

(* grp_lock_tryacquire meets a busy lock: walk back over the taken ones. *)
TryFails(t) ==
  LET l == pc[t].lck IN
  /\ pc[t].at = "acquire" /\ pc[t].f = TryAcquire /\ l # ListHead
  /\ ~Available(l, t)
  /\ Goto(t, "rollback", l)
  /\ UNCHANGED <<life, ref_cnt, ownership, list, mutex, refs, depth>>

(* Mutant: the holder's reference is not taken. *)
AcquireDoneNoRef(t) ==
  /\ pc[t].at = "acquire" /\ pc[t].lck = ListHead
  /\ grp_lock_set_owner_thread(t)
  /\ depth' = [depth EXCEPT ![t] = @ + 1]
  /\ IF pc[t].f \in {Acquire, TryAcquire} THEN Return(t) ELSE Goto(t, "body", ListHead)
  /\ UNCHANGED <<life, ref_cnt, list, mutex, refs>>

(* End of the forward walk: owner, and a reference for the holder. *)
AcquireDone(t) ==
  /\ pc[t].at = "acquire" /\ pc[t].lck = ListHead
  /\ grp_lock_set_owner_thread(t)
  /\ ref_cnt' = ref_cnt + 1
  /\ depth' = [depth EXCEPT ![t] = @ + 1]
  /\ IF pc[t].f \in {Acquire, TryAcquire} THEN Return(t) ELSE Goto(t, "body", ListHead)
  /\ UNCHANGED <<life, list, mutex, refs>>

(* Start of the backward walk of grp_lock_release, all locks still held. *)
StartRelease(t, f) ==
  /\ grp_lock_unset_owner_thread(t)
  /\ depth' = [depth EXCEPT ![t] = @ - 1]
  /\ pc' = [pc EXCEPT ![t] = [f |-> f, at |-> "release", lck |-> ListHead]]

pj_grp_lock_release(t) ==
  /\ pc[t] = Idle /\ depth[t] > 0
  /\ StartRelease(t, Release)
  /\ UNCHANGED <<life, ref_cnt, list, mutex, refs>>

(* lck = lck->prev; pj_lock_release(lck->lock). *)
ReleaseItem(t) ==
  LET l == PrevItem(pc[t].lck) IN
  /\ pc[t].at \in {"release", "rollback"} /\ l # ListHead
  /\ mutex' = [mutex EXCEPT ![l] = Unlocked(@, t, 1)]
  /\ Goto(t, pc[t].at, l)
  /\ UNCHANGED <<life, ref_cnt, ownership, list, refs, depth>>

(* The holder's reference goes last; it may be the last one. *)
ReleaseDone(t) ==
  /\ pc[t].at = "release" /\ PrevItem(pc[t].lck) = ListHead
  /\ grp_lock_dec_ref(t)
  /\ Return(t)
  /\ UNCHANGED <<ownership, list, refs, depth>>

RollbackDone(t) ==
  /\ pc[t].at = "rollback" /\ PrevItem(pc[t].lck) = ListHead
  /\ Return(t)
  /\ UNCHANGED <<life, ref_cnt, ownership, list, mutex, refs, depth>>

pj_grp_lock_add_ref(t) ==
  /\ MayUse(t) /\ refs[t] = 0
  /\ refs' = [refs EXCEPT ![t] = 1]
  /\ ref_cnt' = ref_cnt + 1
  /\ UNCHANGED <<life, ownership, list, mutex, pc, depth>>

pj_grp_lock_dec_ref(t) ==
  /\ pc[t] = Idle /\ refs[t] > 0
  /\ refs' = [refs EXCEPT ![t] = 0]
  /\ grp_lock_dec_ref(t)
  /\ UNCHANGED <<ownership, list, pc, depth>>
-----------------------------------------------------------------------------
(* The functions that work on the lists while they hold the group lock;     *)
(* each goes on with grp_lock_release.                                      *)

(* Mutant: the new lock is taken once, whatever the nesting. *)
ChainLockOnce(t) ==
  LET l == pc[t].f.lock
      before == {i \in DOMAIN lock_list : \A j \in 1 .. i : prio[lock_list[j]] < pc[t].f.pos}
  IN /\ pc[t].at = "body" /\ pc[t].f.name = "chain_lock"
     /\ Available(l, t)
     /\ mutex' = [mutex EXCEPT ![l] = Locked(@, t, 1)]
     /\ lock_list' = pj_list_insert_before(lock_list, Cardinality(before) + 1, l)
     /\ prio' = [prio EXCEPT ![l] = pc[t].f.pos]
     /\ StartRelease(t, pc[t].f)
     /\ UNCHANGED <<life, ref_cnt, refs>>

(* The new lock is taken as often as the group lock is held, and its item   *)
(* goes before the first item whose prio is not lower.                      *)
pj_grp_lock_chain_lock(t) ==
  LET l == pc[t].f.lock
      before == {i \in DOMAIN lock_list : \A j \in 1 .. i : prio[lock_list[j]] < pc[t].f.pos}
  IN /\ pc[t].at = "body" /\ pc[t].f.name = "chain_lock"
     /\ Available(l, t)
     /\ mutex' = [mutex EXCEPT ![l] = Locked(@, t, owner_cnt)]
     /\ lock_list' = pj_list_insert_before(lock_list, Cardinality(before) + 1, l)
     /\ prio' = [prio EXCEPT ![l] = pc[t].f.pos]
     /\ StartRelease(t, pc[t].f)
     /\ UNCHANGED <<life, ref_cnt, refs>>

(* Mutant: the item stays in the list. *)
UnchainKeepsItem(t) ==
  LET l == pc[t].f.lock IN
  /\ pc[t].at = "body" /\ pc[t].f.name = "unchain_lock"
  /\ IF l \in Range(lock_list)
     THEN mutex' = [mutex EXCEPT ![l] = Unlocked(@, t, owner_cnt)]
     ELSE UNCHANGED mutex
  /\ StartRelease(t, pc[t].f)
  /\ UNCHANGED <<life, ref_cnt, list, refs>>

(* Mutant: the unchained lock stays locked. *)
UnchainNoUnlock(t) ==
  LET l == pc[t].f.lock IN
  /\ pc[t].at = "body" /\ pc[t].f.name = "unchain_lock"
  /\ lock_list' = IF l \in Range(lock_list) THEN pj_list_erase(lock_list, IndexOf(l)) ELSE lock_list
  /\ StartRelease(t, pc[t].f)
  /\ UNCHANGED <<life, ref_cnt, prio, mutex, refs>>

pj_grp_lock_unchain_lock(t) ==
  LET l == pc[t].f.lock IN
  /\ pc[t].at = "body" /\ pc[t].f.name = "unchain_lock"
  /\ IF l \in Range(lock_list)
     THEN /\ lock_list' = pj_list_erase(lock_list, IndexOf(l))
          /\ mutex' = [mutex EXCEPT ![l] = Unlocked(@, t, owner_cnt)]
     ELSE UNCHANGED <<lock_list, mutex>>
  /\ StartRelease(t, pc[t].f)
  /\ UNCHANGED <<life, ref_cnt, prio, refs>>

pj_grp_lock_add_handler(t) ==
  /\ pc[t].at = "body" /\ pc[t].f.name = "add_handler"
  /\ destroy_list' = Append(destroy_list, pc[t].f.handler)
  /\ StartRelease(t, pc[t].f)
  /\ UNCHANGED <<alive, called, ref_cnt, list, mutex, refs>>

FirstOf(h) == CHOOSE i \in DOMAIN destroy_list :
                destroy_list[i] = h /\ \A j \in 1 .. i - 1 : destroy_list[j] # h

(* The first matching handler goes, if there is one. *)
pj_grp_lock_del_handler(t) ==
  /\ pc[t].at = "body" /\ pc[t].f.name = "del_handler"
  /\ destroy_list' = IF pc[t].f.handler \in Range(destroy_list)
                     THEN pj_list_erase(destroy_list, FirstOf(pc[t].f.handler)) ELSE destroy_list
  /\ StartRelease(t, pc[t].f)
  /\ UNCHANGED <<alive, called, ref_cnt, list, mutex, refs>>

(* An external lock is also used on its own, by a thread outside the group  *)
(* lock (external: the callers that own it).                                *)
LockExternal(t, l) ==
  /\ pc[t] = Idle /\ depth[t] = 0 /\ Available(l, t)
  /\ mutex' = [mutex EXCEPT ![l] = Locked(@, t, 1)]
  /\ pc' = [pc EXCEPT ![t].at = "external", ![t].lck = l]
  /\ UNCHANGED <<life, ref_cnt, ownership, list, refs, depth>>

UnlockExternal(t) ==
  /\ pc[t].at = "external"
  /\ mutex' = [mutex EXCEPT ![pc[t].lck] = Unlocked(@, t, 1)]
  /\ Return(t)
  /\ UNCHANGED <<life, ref_cnt, ownership, list, refs, depth>>

(* Bound: a lock is chained, and a handler added, by one call at a time and *)
(* only while it is not in its list.                                        *)
Worthwhile(f) ==
  /\ f.name = "chain_lock" => /\ f.lock \notin Range(lock_list)
                              /\ \A t \in Threads : pc[t].f.name = "chain_lock" => pc[t].f.lock # f.lock
  /\ f.name = "add_handler" => /\ f.handler \notin Range(destroy_list)
                               /\ \A t \in Threads : pc[t].f.name = "add_handler" => pc[t].f.handler # f.handler

Step(t) == \/ AcquireItem(t) \/ TryFails(t) \/ AcquireDone(t)
           \/ pj_grp_lock_chain_lock(t) \/ pj_grp_lock_unchain_lock(t)
           \/ pj_grp_lock_add_handler(t) \/ pj_grp_lock_del_handler(t)
           \/ ReleaseItem(t) \/ ReleaseDone(t) \/ RollbackDone(t)
           \/ UnlockExternal(t)

Next == \E t \in Threads : \/ \E f \in Calls : Worthwhile(f) /\ Call(t, f)
                           \/ Step(t)
                           \/ \E l \in ExtLocks : LockExternal(t, l)
                           \/ pj_grp_lock_release(t)
                           \/ pj_grp_lock_add_ref(t) \/ pj_grp_lock_dec_ref(t)

(* A thread inside a lock function runs on: a mutex that keeps becoming     *)
(* free is granted in the end.                                              *)
Fairness == \A t \in Threads : SF_vars(Step(t))

Spec == Init /\ [][Next]_vars
FairSpec == Spec /\ Fairness
-----------------------------------------------------------------------------
Phases == {"idle", "acquire", "body", "release", "rollback", "external"}

(* A thread that acquired the group lock holds its own mutex and every      *)
(* chained lock exactly as often, between calls and in the middle of a      *)
(* chain or unchain, whatever other threads chained or unchained meanwhile. *)
InsideHoldsChainedLocks ==
  \A t \in Threads : depth[t] > 0 /\ pc[t].at \in {"idle", "body"} =>
    \A l \in Range(lock_list) : mutex[l] = [owner |-> t, count |-> depth[t]]

(* A walk of grp_lock_release (or the roll-back of a failed try) only       *)
(* unlocks mutexes its thread owns, as pj_mutex_unlock asserts.             *)
UnlocksOnlyOwned ==
  \A t \in Threads : pc[t].at \in {"release", "rollback"} =>
    PrevItem(pc[t].lck) = ListHead \/ mutex[PrevItem(pc[t].lck)].owner = t

(* When the last reference destroys the lock no thread is inside it, waits  *)
(* for it or is in the middle of a walk over its items.                     *)
NoUseAfterDestroy ==
  ~alive => \A t \in Threads : /\ pc[t].at \in {"idle", "external"}
                               /\ depth[t] = 0 /\ refs[t] = 0

(* Destroy handlers run when the lock is destroyed, each one once and in    *)
(* the order of registration, and never earlier.                            *)
HandlersOnDestroy == called = IF alive THEN <<>> ELSE destroy_list

(* If every holder lets go in the end, every call that starts to walk over  *)
(* the locks gets through and returns, chains and unchains by other threads *)
(* included.                                                                *)
EveryCallReturns ==
  (\A t \in Threads : []<>(depth[t] = 0))
    => \A t \in Threads : pc[t].at # "idle" ~> pc[t].at = "idle"
=============================================================================
