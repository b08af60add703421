---------------------------- MODULE GrpLockProofs ----------------------------
(***************************************************************************)
(* The group lock is never destroyed under a thread that uses it, for any   *)
(* finite set of threads, any locks, any nesting and any chaining position; *)
(* its destroy handlers run once, in the order of registration.             *)
(***************************************************************************)
EXTENDS GrpLock, FiniteSetTheorems, TLAPS

(* One token for each reference that is counted: the one a thread took,     *)
(* one for every level of its nesting, and one while it releases.           *)
Token(t, i) == \/ i = 0 /\ refs[t] = 1
               \/ i \in 1 .. MaxDepth /\ i <= depth[t]
               \/ i = MaxDepth + 1 /\ pc[t].at = "release"
Tokens == {x \in Threads \X (0 .. MaxDepth + 1) : Token(x[1], x[2])}

(* What a thread in a call still has to keep the lock alive. *)
Justified(t) ==
  /\ pc[t].at \in Phases
  /\ pc[t].at \in {"acquire", "rollback"} => refs[t] = 1 \/ depth[t] >= 1
  /\ pc[t].at = "acquire" => depth[t] < MaxDepth
  /\ pc[t].at = "body" => depth[t] >= 1

GrpTypes == /\ alive \in BOOLEAN
            /\ ref_cnt \in Int
            /\ refs \in [Threads -> 0 .. 1]
            /\ depth \in [Threads -> 0 .. MaxDepth]
            /\ DOMAIN pc = Threads
            /\ \A t \in Threads : DOMAIN pc[t] = {"f", "at", "lck"}

GrpInv == /\ GrpTypes
          /\ \A t \in Threads : Justified(t)
          /\ alive => ref_cnt = Cardinality(Tokens)
          /\ NoUseAfterDestroy
-----------------------------------------------------------------------------
LEMMA TokensFinite ==
  /\ \A S \in SUBSET (Threads \X (0 .. MaxDepth + 1)) : IsFiniteSet(S) /\ Cardinality(S) \in Nat
  /\ Tokens \in SUBSET (Threads \X (0 .. MaxDepth + 1))
<1>1. IsFiniteSet(Threads) /\ IsFiniteSet(0 .. MaxDepth + 1)
  BY GrpLockAssumption, FS_Interval
<1>2. IsFiniteSet(Threads \X (0 .. MaxDepth + 1))
  BY <1>1, FS_Product, Zenon
<1> QED BY <1>2, FS_Subset, FS_CardinalityType DEF Tokens

LEMMA PhaseGoto ==
  ASSUME GrpTypes, NEW t \in Threads, NEW a, NEW l, Goto(t, a, l)
  PROVE  /\ DOMAIN pc' = Threads
         /\ \A s \in Threads : DOMAIN pc'[s] = {"f", "at", "lck"}
         /\ pc'[t].at = a /\ pc'[t].f = pc[t].f /\ pc'[t].lck = l
         /\ \A s \in Threads : s # t => pc'[s] = pc[s]
<1> DEFINE q == [pc EXCEPT ![t].at = a]
<1>1. DOMAIN pc = Threads /\ \A s \in Threads : DOMAIN pc[s] = {"f", "at", "lck"}
  BY DEF GrpTypes
<1>2. /\ DOMAIN q = Threads /\ q[t] = [pc[t] EXCEPT !.at = a]
      /\ \A s \in Threads : s # t => q[s] = pc[s]
  BY <1>1
<1>3. DOMAIN q[t] = {"f", "at", "lck"} /\ q[t].at = a /\ q[t].f = pc[t].f
  BY <1>1, <1>2
<1>4. pc' = [q EXCEPT ![t].lck = l]
  BY DEF Goto
<1> HIDE DEF q
<1>5. /\ DOMAIN pc' = Threads /\ pc'[t] = [q[t] EXCEPT !.lck = l]
      /\ \A s \in Threads : s # t => pc'[s] = q[s]
  BY <1>2, <1>4
<1>6. /\ DOMAIN pc'[t] = {"f", "at", "lck"}
      /\ pc'[t].at = a /\ pc'[t].f = pc[t].f /\ pc'[t].lck = l
  BY <1>3, <1>5
<1> QED BY <1>1, <1>2, <1>5, <1>6, Zenon

LEMMA PhaseSet ==
  ASSUME GrpTypes, NEW t \in Threads, NEW f, NEW a, NEW l,
         pc' = [pc EXCEPT ![t] = [f |-> f, at |-> a, lck |-> l]]
  PROVE  /\ DOMAIN pc' = Threads
         /\ \A s \in Threads : DOMAIN pc'[s] = {"f", "at", "lck"}
         /\ pc'[t].at = a /\ pc'[t].f = f /\ pc'[t].lck = l
         /\ \A s \in Threads : s # t => pc'[s] = pc[s]
BY DEF GrpTypes

LEMMA PhaseReturn ==
  ASSUME GrpTypes, NEW t \in Threads, Return(t)
  PROVE  /\ DOMAIN pc' = Threads
         /\ \A s \in Threads : DOMAIN pc'[s] = {"f", "at", "lck"}
         /\ pc'[t].at = "idle" /\ pc'[t].f = Idle.f /\ pc'[t].lck = ListHead
         /\ \A s \in Threads : s # t => pc'[s] = pc[s]
<1>1. Idle = [f |-> Idle.f, at |-> "idle", lck |-> ListHead]
  BY DEF Idle
<1>2. pc' = [pc EXCEPT ![t] = [f |-> Idle.f, at |-> "idle", lck |-> ListHead]]
  BY <1>1, Zenon DEF Return
<1> QED BY <1>2, PhaseSet, Zenon

(* The place of t, and of no other thread, changes. *)
Moves(t) == /\ DOMAIN pc' = Threads
            /\ \A s \in Threads : DOMAIN pc'[s] = {"f", "at", "lck"}
            /\ \A s \in Threads : s # t => pc'[s] = pc[s]
-----------------------------------------------------------------------------
(* A step that neither takes nor gives a reference. *)
LEMMA NeutralStep ==
  ASSUME GrpInv, NEW t \in Threads, Moves(t),
         alive' = alive, ref_cnt' = ref_cnt, refs' = refs, depth' = depth,
         pc'[t].at = "release" <=> pc[t].at = "release",
         Justified(t)',
         ~alive => pc'[t].at \in {"idle", "external"}
  PROVE  GrpInv'
<1>1. GrpTypes'
  BY DEF GrpInv, GrpTypes, Moves
<1>2. ASSUME NEW s \in Threads PROVE Justified(s)'
  BY DEF GrpInv, Justified, Moves
<1>3. Tokens' = Tokens
  <2>1. \A s \in Threads : pc'[s].at = "release" <=> pc[s].at = "release"
    BY DEF Moves
  <2>2. \A s \in Threads, i \in 0 .. MaxDepth + 1 : Token(s, i)' <=> Token(s, i)
    BY <2>1 DEF Token
  <2> QED BY <2>2 DEF Tokens
<1>4. NoUseAfterDestroy'
  BY DEF GrpInv, NoUseAfterDestroy, Moves
<1> QED BY <1>1, <1>2, <1>3, <1>4 DEF GrpInv

(* A thread that uses a lock it has a reference to finds it alive. *)
LEMMA UsersFindItAlive ==
  ASSUME GrpInv, NEW t \in Threads,
         pc[t].at \notin {"idle", "external"} \/ refs[t] # 0 \/ depth[t] # 0
  PROVE  alive
BY DEF GrpInv, NoUseAfterDestroy

LEMMA CallKeeps ==
  ASSUME GrpInv, NEW t \in Threads, NEW f, Call(t, f)
  PROVE  GrpInv'
<1>1. /\ pc[t] = Idle /\ (refs[t] > 0 \/ depth[t] > 0) /\ depth[t] < MaxDepth
      /\ pc' = [pc EXCEPT ![t] = [f |-> f, at |-> "acquire", lck |-> NextItem(ListHead)]]
      /\ alive' = alive /\ ref_cnt' = ref_cnt /\ refs' = refs /\ depth' = depth
  BY DEF Call, MayUse, life
<1>2. Moves(t) /\ pc'[t].at = "acquire"
  BY <1>1, PhaseSet, Zenon DEF Moves, GrpInv
<1>3. pc[t].at = "idle" /\ refs[t] \in 0 .. 1 /\ depth[t] \in 0 .. MaxDepth
  BY <1>1 DEF Idle, GrpInv, GrpTypes
<1>4. Justified(t)'
  BY <1>1, <1>2, <1>3, GrpLockAssumption DEF Justified, Phases
<1>5. alive
  BY <1>1, <1>3, UsersFindItAlive
<1> QED BY <1>1, <1>2, <1>3, <1>4, <1>5, NeutralStep

(* The steps of a walk. *)
LEMMA WalkKeeps ==
  ASSUME GrpInv, NEW t \in Threads,
         AcquireItem(t) \/ TryFails(t) \/ ReleaseItem(t) \/ RollbackDone(t)
  PROVE  GrpInv'
<1>1. /\ alive' = alive /\ ref_cnt' = ref_cnt /\ refs' = refs /\ depth' = depth
  BY DEF AcquireItem, TryFails, ReleaseItem, RollbackDone, life
<1>2. Justified(t) /\ refs[t] \in 0 .. 1 /\ depth[t] \in 0 .. MaxDepth
  BY DEF GrpInv, GrpTypes
<1>3. pc[t].at \in {"acquire", "release", "rollback"}
  BY DEF AcquireItem, TryFails, ReleaseItem, RollbackDone
<1>4. alive
  BY <1>3, UsersFindItAlive
<1>5. CASE AcquireItem(t) \/ ReleaseItem(t)
  <2>1. Moves(t) /\ pc'[t].at = pc[t].at
    BY <1>5, PhaseGoto DEF AcquireItem, ReleaseItem, Moves, GrpInv
  <2>2. Justified(t)'
    BY <1>1, <1>2, <2>1 DEF Justified
  <2> QED BY <1>1, <1>4, <2>1, <2>2, NeutralStep
<1>6. CASE TryFails(t)
  <2>1. Moves(t) /\ pc'[t].at = "rollback" /\ pc[t].at = "acquire"
    BY <1>6, PhaseGoto DEF TryFails, Moves, GrpInv
  <2>2. Justified(t)'
    BY <1>1, <1>2, <2>1 DEF Justified, Phases
  <2> QED BY <1>1, <1>4, <2>1, <2>2, NeutralStep
<1>7. CASE RollbackDone(t)
  <2>1. Moves(t) /\ pc'[t].at = "idle" /\ pc[t].at = "rollback"
    BY <1>7, PhaseReturn DEF RollbackDone, Moves, GrpInv
  <2>2. Justified(t)'
    BY <1>1, <1>2, <2>1 DEF Justified, Phases
  <2> QED BY <1>1, <1>4, <2>1, <2>2, NeutralStep
<1> QED BY <1>5, <1>6, <1>7

LEMMA ExternalKeeps ==
  ASSUME GrpInv, NEW t \in Threads,
         UnlockExternal(t) \/ \E l \in ExtLocks : LockExternal(t, l)
  PROVE  GrpInv'
<1>1. alive' = alive /\ ref_cnt' = ref_cnt /\ refs' = refs /\ depth' = depth
  BY DEF UnlockExternal, LockExternal, life
<1>2. CASE UnlockExternal(t)
  <2>1. Moves(t) /\ pc'[t].at = "idle" /\ pc[t].at = "external"
    BY <1>2, PhaseReturn DEF UnlockExternal, Moves, GrpInv
  <2>2. Justified(t)'
    BY <2>1 DEF Justified, Phases
  <2> QED BY <1>1, <2>1, <2>2, NeutralStep
<1>3. ASSUME NEW l \in ExtLocks, LockExternal(t, l)
      PROVE  GrpInv'
  <2>1. Goto(t, "external", l) /\ pc[t] = Idle
    BY <1>3 DEF LockExternal, Goto
  <2>2. Moves(t) /\ pc'[t].at = "external" /\ pc[t].at = "idle"
    BY <2>1, PhaseGoto DEF Moves, GrpInv, Idle
  <2>3. Justified(t)'
    BY <2>2 DEF Justified, Phases
  <2> QED BY <1>1, <2>2, <2>3, NeutralStep
<1> QED BY <1>2, <1>3
-----------------------------------------------------------------------------
(* One more reference, for a thread that finds the lock alive. *)
LEMMA GainKeeps ==
  ASSUME GrpInv, alive, alive' = alive, ref_cnt' = ref_cnt + 1,
         GrpTypes', \A s \in Threads : Justified(s)',
         NEW x \in (Threads \X (0 .. MaxDepth + 1)) \ Tokens, Tokens' = Tokens \cup {x}
  PROVE  GrpInv'
<1>1. Cardinality(Tokens') = Cardinality(Tokens) + 1
  BY TokensFinite, FS_AddElement
<1>2. NoUseAfterDestroy'
  BY DEF NoUseAfterDestroy
<1> QED BY <1>1, <1>2 DEF GrpInv

LEMMA AcquireDoneKeeps ==
  ASSUME GrpInv, NEW t \in Threads, AcquireDone(t)
  PROVE  GrpInv'
<1> DEFINE x == <<t, depth[t] + 1>>
<1>1. /\ alive' = alive /\ ref_cnt' = ref_cnt + 1 /\ refs' = refs
      /\ depth' = [depth EXCEPT ![t] = @ + 1]
      /\ pc[t].at = "acquire"
  BY DEF AcquireDone, life
<1>2. /\ alive /\ depth[t] \in 0 .. MaxDepth /\ depth[t] < MaxDepth
      /\ MaxDepth \in Nat
  BY <1>1, UsersFindItAlive, GrpLockAssumption DEF GrpInv, GrpTypes, Justified
<1>3. Moves(t) /\ pc'[t].at \in {"idle", "body"}
  BY PhaseGoto, PhaseReturn DEF AcquireDone, Moves, GrpInv
<1>4. /\ depth' \in [Threads -> 0 .. MaxDepth] /\ depth'[t] = depth[t] + 1
      /\ \A s \in Threads : s # t => depth'[s] = depth[s]
  BY <1>1, <1>2 DEF GrpInv, GrpTypes
<1>5. GrpTypes'
  BY <1>1, <1>3, <1>4 DEF GrpInv, GrpTypes, Moves
<1>6. ASSUME NEW s \in Threads PROVE Justified(s)'
  <2>1. CASE s = t
    BY <1>2, <1>3, <1>4, <2>1 DEF Justified, Phases
  <2>2. CASE s # t
    BY <1>1, <1>3, <1>4, <2>2 DEF GrpInv, Justified, Moves
  <2> QED BY <2>1, <2>2
<1>7. x \in (Threads \X (0 .. MaxDepth + 1)) \ Tokens
  BY <1>1, <1>2 DEF Tokens, Token
<1>8. Tokens' = Tokens \cup {x}
  <2>1. \A s \in Threads, i \in 0 .. MaxDepth + 1 : s # t => (Token(s, i)' <=> Token(s, i))
    BY <1>1, <1>3, <1>4 DEF Token, Moves
  <2>2. \A i \in 0 .. MaxDepth + 1 : Token(t, i)' <=> Token(t, i) \/ i = depth[t] + 1
    BY <1>1, <1>2, <1>3, <1>4 DEF Token
  <2> QED BY <1>2, <2>1, <2>2 DEF Tokens
<1> QED BY <1>1, <1>2, <1>5, <1>6, <1>7, <1>8, GainKeeps

LEMMA AddRefKeeps ==
  ASSUME GrpInv, NEW t \in Threads, pj_grp_lock_add_ref(t)
  PROVE  GrpInv'
<1> DEFINE x == <<t, 0>>
<1>1. /\ alive' = alive /\ ref_cnt' = ref_cnt + 1 /\ pc' = pc /\ depth' = depth
      /\ refs' = [refs EXCEPT ![t] = 1] /\ refs[t] = 0 /\ depth[t] > 0
  BY DEF pj_grp_lock_add_ref, MayUse, life
<1>2. alive /\ MaxDepth \in Nat /\ depth[t] \in 0 .. MaxDepth
  BY <1>1, UsersFindItAlive, GrpLockAssumption DEF GrpInv, GrpTypes
<1>3. /\ refs' \in [Threads -> 0 .. 1] /\ refs'[t] = 1
      /\ \A s \in Threads : s # t => refs'[s] = refs[s]
  BY <1>1 DEF GrpInv, GrpTypes
<1>4. GrpTypes'
  BY <1>1, <1>3 DEF GrpInv, GrpTypes
<1>5. ASSUME NEW s \in Threads PROVE Justified(s)'
  BY <1>1, <1>3 DEF GrpInv, Justified
<1>6. x \in (Threads \X (0 .. MaxDepth + 1)) \ Tokens
  BY <1>1, <1>2 DEF Tokens, Token
<1>7. Tokens' = Tokens \cup {x}
  <2>1. \A s \in Threads, i \in 0 .. MaxDepth + 1 :
          Token(s, i)' <=> Token(s, i) \/ (s = t /\ i = 0)
    BY <1>1, <1>2, <1>3 DEF Token
  <2> QED BY <1>2, <2>1 DEF Tokens
<1> QED BY <1>1, <1>2, <1>4, <1>5, <1>6, <1>7, GainKeeps

(* grp_lock_release hands the reference of one level of nesting to its      *)
(* walk.                                                                    *)
LEMMA StartReleaseKeeps ==
  ASSUME GrpInv, NEW t \in Threads, NEW f, StartRelease(t, f),
         alive' = alive, ref_cnt' = ref_cnt, refs' = refs,
         pc[t].at \in {"idle", "body"}, depth[t] > 0
  PROVE  GrpInv'
<1> DEFINE x == <<t, depth[t]>>
           y == <<t, MaxDepth + 1>>
<1>1. /\ depth' = [depth EXCEPT ![t] = @ - 1]
      /\ pc' = [pc EXCEPT ![t] = [f |-> f, at |-> "release", lck |-> ListHead]]
  BY DEF StartRelease
<1>2. depth[t] \in 1 .. MaxDepth /\ MaxDepth \in Nat
  BY GrpLockAssumption DEF GrpInv, GrpTypes
<1>3. Moves(t) /\ pc'[t].at = "release"
  BY <1>1, PhaseSet, Zenon DEF Moves, GrpInv
<1>4. /\ depth' \in [Threads -> 0 .. MaxDepth] /\ depth'[t] = depth[t] - 1
      /\ \A s \in Threads : s # t => depth'[s] = depth[s]
  BY <1>1, <1>2 DEF GrpInv, GrpTypes
<1>5. GrpTypes'
  BY <1>3, <1>4 DEF GrpInv, GrpTypes, Moves
<1>6. ASSUME NEW s \in Threads PROVE Justified(s)'
  <2>1. CASE s = t
    BY <1>3, <2>1 DEF Justified, Phases
  <2>2. CASE s # t
    BY <1>3, <1>4, <2>2 DEF GrpInv, Justified, Moves
  <2> QED BY <2>1, <2>2
<1>7. x \in Tokens /\ y \notin Tokens /\ x # y /\ y \in Threads \X (0 .. MaxDepth + 1)
  BY <1>2 DEF Tokens, Token
<1>8. Tokens' = (Tokens \ {x}) \cup {y}
  <2>1. \A s \in Threads, i \in 0 .. MaxDepth + 1 : s # t => (Token(s, i)' <=> Token(s, i))
    BY <1>3, <1>4 DEF Token, Moves
  <2>2. \A i \in 0 .. MaxDepth + 1 :
          Token(t, i)' <=> (Token(t, i) /\ i # depth[t]) \/ i = MaxDepth + 1
    BY <1>2, <1>3, <1>4 DEF Token
  <2> QED BY <1>2, <2>1, <2>2 DEF Tokens
<1>9. Cardinality(Tokens') = Cardinality(Tokens)
  <2>1. Cardinality(Tokens \ {x}) = Cardinality(Tokens) - 1 /\ IsFiniteSet(Tokens \ {x})
    BY <1>7, TokensFinite, FS_RemoveElement
  <2>2. Cardinality((Tokens \ {x}) \cup {y}) = Cardinality(Tokens \ {x}) + 1
    BY <1>7, <2>1, FS_AddElement, Zenon
  <2> QED BY <1>8, <2>1, <2>2, TokensFinite
<1>10. NoUseAfterDestroy'
  <2>1. alive
    BY <1>2, UsersFindItAlive
  <2> QED BY <2>1 DEF NoUseAfterDestroy
<1> QED BY <1>5, <1>6, <1>9, <1>10 DEF GrpInv

LEMMA InBody ==
  ASSUME GrpInv, NEW t \in Threads, pc[t].at = "body"
  PROVE  GrpTypes /\ depth[t] > 0
<1>1. GrpTypes /\ Justified(t)
  BY DEF GrpInv
<1>2. depth[t] >= 1 /\ depth[t] \in 0 .. MaxDepth
  BY <1>1 DEF Justified, GrpTypes
<1> QED BY <1>1, <1>2, GrpLockAssumption

LEMMA BodyKeeps ==
  ASSUME GrpInv, NEW t \in Threads,
         \/ pj_grp_lock_release(t)
         \/ pj_grp_lock_chain_lock(t) \/ pj_grp_lock_unchain_lock(t)
         \/ pj_grp_lock_add_handler(t) \/ pj_grp_lock_del_handler(t)
  PROVE  GrpInv'
<1>1. /\ alive' = alive /\ ref_cnt' = ref_cnt /\ refs' = refs
      /\ StartRelease(t, Release) \/ StartRelease(t, pc[t].f)
  BY DEF pj_grp_lock_release, pj_grp_lock_chain_lock, pj_grp_lock_unchain_lock,
         pj_grp_lock_add_handler, pj_grp_lock_del_handler, life
<1>2. pc[t].at = "body" \/ (pc[t] = Idle /\ depth[t] > 0)
  BY DEF pj_grp_lock_release, pj_grp_lock_chain_lock, pj_grp_lock_unchain_lock,
         pj_grp_lock_add_handler, pj_grp_lock_del_handler
<1>3. pc[t].at \in {"idle", "body"} /\ depth[t] > 0
  <2>1. CASE pc[t].at = "body"
    BY <2>1, InBody
  <2>2. CASE pc[t] = Idle /\ depth[t] > 0
    BY <2>2 DEF Idle
  <2> QED BY <1>2, <2>1, <2>2
<1> QED BY <1>1, <1>3, StartReleaseKeeps

LEMMA DecRefEffect ==
  ASSUME GrpTypes, NEW t \in Threads, grp_lock_dec_ref(t)
  PROVE  /\ ref_cnt' = ref_cnt - 1 /\ ref_cnt' \in Int /\ alive' \in BOOLEAN
         /\ ref_cnt # 1 => alive' = alive
         /\ ref_cnt = 1 => alive' = FALSE
<1>1. CASE ref_cnt = 1
  <2>1. alive' = FALSE /\ ref_cnt' = ref_cnt - 1
    BY <1>1 DEF grp_lock_dec_ref, grp_lock_destroy
  <2>2. ref_cnt - 1 \in Int
    BY DEF GrpTypes
  <2> QED BY <1>1, <2>1, <2>2, Zenon
<1>2. CASE ref_cnt # 1
  <2>1. alive' = alive /\ ref_cnt' = ref_cnt - 1
    BY <1>2 DEF grp_lock_dec_ref, life
  <2> QED BY <1>2, <2>1 DEF GrpTypes
<1> QED BY <1>1, <1>2, Zenon

(* The last reference to go leaves nobody behind. *)
LEMMA LossKeeps ==
  ASSUME GrpInv, NEW t \in Threads, grp_lock_dec_ref(t),
         GrpTypes', \A s \in Threads : Justified(s)',
         NEW x \in Tokens, Tokens' = Tokens \ {x}, alive
  PROVE  GrpInv'
<1>1. /\ ref_cnt' = ref_cnt - 1
      /\ ref_cnt # 1 => alive' = alive
      /\ ref_cnt = 1 => alive' = FALSE
  BY DecRefEffect, Zenon DEF GrpInv
<1>2. Cardinality(Tokens') = Cardinality(Tokens) - 1 /\ IsFiniteSet(Tokens')
      /\ Cardinality(Tokens) \in Nat
  BY TokensFinite, FS_RemoveElement
<1>3. ref_cnt = Cardinality(Tokens)
  BY DEF GrpInv
<1>4. CASE ref_cnt # 1
  BY <1>1, <1>2, <1>3, <1>4 DEF GrpInv, NoUseAfterDestroy
<1>5. CASE ref_cnt = 1
  <2>1. Tokens' = {}
    BY <1>2, <1>3, <1>5, FS_EmptySet
  <2>2. ASSUME NEW s \in Threads
        PROVE  pc'[s].at \in {"idle", "external"} /\ depth'[s] = 0 /\ refs'[s] = 0
    <3>1. \A i \in 0 .. MaxDepth + 1 : ~Token(s, i)'
      <4> SUFFICES ASSUME NEW i \in 0 .. MaxDepth + 1, Token(s, i)' PROVE FALSE
        OBVIOUS
      <4>1. <<s, i>> \in Tokens'
        BY DEF Tokens
      <4> QED BY <2>1, <4>1
    <3>2. MaxDepth \in Nat \ {0} /\ depth'[s] \in 0 .. MaxDepth /\ refs'[s] \in 0 .. 1
      BY GrpLockAssumption DEF GrpTypes
    <3>3. refs'[s] # 1 /\ ~(1 <= depth'[s]) /\ pc'[s].at # "release"
      <4>1. ~Token(s, 0)' /\ ~Token(s, 1)' /\ ~Token(s, MaxDepth + 1)'
        BY <3>1, <3>2
      <4> QED BY <3>2, <4>1 DEF Token
    <3>4. refs'[s] = 0 /\ depth'[s] = 0
      BY <3>2, <3>3
    <3> QED BY <3>3, <3>4 DEF Justified, Phases
  <2> QED BY <1>1, <1>5, <2>2 DEF GrpInv, NoUseAfterDestroy
<1> QED BY <1>4, <1>5

LEMMA ReleaseDoneKeeps ==
  ASSUME GrpInv, NEW t \in Threads, ReleaseDone(t)
  PROVE  GrpInv'
<1> DEFINE x == <<t, MaxDepth + 1>>
<1>1. pc[t].at = "release" /\ grp_lock_dec_ref(t) /\ refs' = refs /\ depth' = depth
  BY DEF ReleaseDone
<1>2. Moves(t) /\ pc'[t].at = "idle"
  BY PhaseReturn DEF ReleaseDone, Moves, GrpInv
<1>3. alive /\ MaxDepth \in Nat
  BY <1>1, UsersFindItAlive, GrpLockAssumption
<1>4. ref_cnt' \in Int /\ alive' \in BOOLEAN
  BY <1>1, DecRefEffect, Zenon DEF GrpInv
<1>5. GrpTypes'
  BY <1>1, <1>2, <1>4 DEF GrpInv, GrpTypes, Moves
<1>6. ASSUME NEW s \in Threads PROVE Justified(s)'
  BY <1>1, <1>2 DEF GrpInv, Justified, Moves, Phases
<1>7. x \in Tokens
  BY <1>1, <1>3 DEF Tokens, Token
<1>8. Tokens' = Tokens \ {x}
  <2>1. \A s \in Threads, i \in 0 .. MaxDepth + 1 :
          Token(s, i)' <=> Token(s, i) /\ ~(s = t /\ i = MaxDepth + 1)
    BY <1>1, <1>2, <1>3 DEF Token, Moves
  <2> QED BY <2>1 DEF Tokens
<1> QED BY <1>1, <1>3, <1>5, <1>6, <1>7, <1>8, LossKeeps

LEMMA DecRefKeeps ==
  ASSUME GrpInv, NEW t \in Threads, pj_grp_lock_dec_ref(t)
  PROVE  GrpInv'
<1> DEFINE x == <<t, 0>>
<1>1. /\ pc[t] = Idle /\ refs[t] > 0 /\ refs' = [refs EXCEPT ![t] = 0]
      /\ grp_lock_dec_ref(t) /\ pc' = pc /\ depth' = depth
  BY DEF pj_grp_lock_dec_ref
<1>2. refs[t] = 1 /\ pc[t].at = "idle"
  BY <1>1 DEF GrpInv, GrpTypes, Idle
<1>3. alive /\ MaxDepth \in Nat
  BY <1>2, UsersFindItAlive, GrpLockAssumption
<1>4. ref_cnt' \in Int /\ alive' \in BOOLEAN
  BY <1>1, DecRefEffect, Zenon DEF GrpInv
<1>5. /\ refs' \in [Threads -> 0 .. 1] /\ refs'[t] = 0
      /\ \A s \in Threads : s # t => refs'[s] = refs[s]
  BY <1>1 DEF GrpInv, GrpTypes
<1>6. GrpTypes'
  BY <1>1, <1>4, <1>5 DEF GrpInv, GrpTypes
<1>7. ASSUME NEW s \in Threads PROVE Justified(s)'
  BY <1>1, <1>2, <1>5 DEF GrpInv, Justified, Phases
<1>8. x \in Tokens
  BY <1>2, <1>3 DEF Tokens, Token
<1>9. Tokens' = Tokens \ {x}
  <2>1. \A s \in Threads, i \in 0 .. MaxDepth + 1 :
          Token(s, i)' <=> Token(s, i) /\ ~(s = t /\ i = 0)
    BY <1>1, <1>3, <1>5 DEF Token
  <2> QED BY <2>1 DEF Tokens
<1> QED BY <1>1, <1>3, <1>6, <1>7, <1>8, <1>9, LossKeeps
-----------------------------------------------------------------------------
LEMMA GrpInitially == Init => GrpInv
<1> SUFFICES ASSUME Init PROVE GrpInv
  OBVIOUS
<1>1. /\ alive = TRUE /\ ref_cnt = Cardinality(Threads)
      /\ refs = [t \in Threads |-> 1] /\ depth = [t \in Threads |-> 0]
      /\ pc = [t \in Threads |-> Idle] /\ MaxDepth \in Nat /\ IsFiniteSet(Threads)
  BY GrpLockAssumption DEF Init
<1>2. Cardinality(Threads) \in Nat
  BY <1>1, FS_CardinalityType
<1>3. \A t \in Threads : pc[t].at = "idle" /\ DOMAIN pc[t] = {"f", "at", "lck"}
  BY <1>1 DEF Idle
<1>4. GrpTypes
  BY <1>1, <1>2, <1>3 DEF GrpTypes
<1>5. \A t \in Threads : Justified(t)
  BY <1>3 DEF Justified, Phases
<1>6. ref_cnt = Cardinality(Tokens)
  <2>1. Tokens = Threads \X {0}
    <3>1. \A t \in Threads, i \in 0 .. MaxDepth + 1 : Token(t, i) <=> i = 0
      BY <1>1, <1>3 DEF Token
    <3> QED BY <1>1, <3>1 DEF Tokens
  <2>2. Cardinality(Threads \X {0}) = Cardinality(Threads)
    <3>1. IsFiniteSet({0}) /\ Cardinality({0}) = 1
      BY FS_Singleton, Zenon
    <3>2. Cardinality(Threads \X {0}) = Cardinality(Threads) * Cardinality({0})
      BY <1>1, <3>1, FS_Product
    <3> QED BY <1>2, <3>1, <3>2
  <2> QED BY <1>1, <2>1, <2>2
<1>7. NoUseAfterDestroy
  BY <1>1 DEF NoUseAfterDestroy
<1> QED BY <1>4, <1>5, <1>6, <1>7 DEF GrpInv

LEMMA GrpStep == GrpInv /\ [Next]_vars => GrpInv'
<1> SUFFICES ASSUME GrpInv, [Next]_vars PROVE GrpInv'
  OBVIOUS
<1>1. ASSUME NEW t \in Threads, NEW f \in Calls, Call(t, f) PROVE GrpInv'
  BY <1>1, CallKeeps
<1>2. ASSUME NEW t \in Threads, Step(t) PROVE GrpInv'
  BY <1>2, WalkKeeps, AcquireDoneKeeps, BodyKeeps, ReleaseDoneKeeps, ExternalKeeps DEF Step
<1>3. ASSUME NEW t \in Threads, NEW l \in ExtLocks, LockExternal(t, l) PROVE GrpInv'
  BY <1>3, ExternalKeeps
<1>4. ASSUME NEW t \in Threads, pj_grp_lock_release(t) PROVE GrpInv'
  BY <1>4, BodyKeeps
<1>5. ASSUME NEW t \in Threads, pj_grp_lock_add_ref(t) PROVE GrpInv'
  BY <1>5, AddRefKeeps
<1>6. ASSUME NEW t \in Threads, pj_grp_lock_dec_ref(t) PROVE GrpInv'
  BY <1>6, DecRefKeeps
<1>7. CASE UNCHANGED vars
  BY <1>7 DEF vars, life, GrpInv, GrpTypes, Justified, Tokens, Token, NoUseAfterDestroy
<1> QED BY <1>1, <1>2, <1>3, <1>4, <1>5, <1>6, <1>7 DEF Next

(* The group lock is destroyed only when no thread is inside it, waits for  *)
(* it or walks over its items: for any finite set of threads, any chained   *)
(* locks at any positions and any bound of nesting.                         *)
THEOREM NeverDestroyedInUse == Spec => []NoUseAfterDestroy
<1>1. GrpInv => NoUseAfterDestroy
  BY DEF GrpInv
<1> QED BY <1>1, GrpInitially, GrpStep, PTL DEF Spec
-----------------------------------------------------------------------------
LEMMA LeastIndex ==
  ASSUME NEW I \in SUBSET Nat, I # {}
  PROVE  \E x \in I : \A y \in I : x <= y
<1> DEFINE R == {p \in Nat \X Nat : p[1] < p[2]}
<1>1. R = OpToRel(<, Nat)
  BY Zenon DEF OpToRel
<1>2. \E x \in I : \A y \in I : ~(<<y, x>> \in R)
  <2>1. IsWellFoundedOn(R, Nat)
    BY <1>1, NatLessThanWellFounded, Zenon
  <2> QED BY <2>1, WFMin, Zenon
<1>3. PICK x \in I : \A y \in I : ~(<<y, x>> \in R)
  BY <1>2
<1>4. \A y \in I : <<y, x>> \in Nat \X Nat /\ ~(y < x)
  BY <1>3
<1>5. \A y \in I : x <= y
  <2> TAKE y \in I
  <2>1. x \in Nat /\ y \in Nat
    BY <1>3
  <2>2. ~(y < x)
    BY <1>4, Zenon
  <2> QED BY <2>1, <2>2
<1> QED BY <1>5

LEMMA HandlerErased ==
  ASSUME destroy_list \in Seq(Handlers), NEW h, h \in Range(destroy_list)
  PROVE  pj_list_erase(destroy_list, FirstOf(h)) \in Seq(Handlers)
<1> DEFINE I == {i \in DOMAIN destroy_list : destroy_list[i] = h}
<1>1. DOMAIN destroy_list = 1 .. Len(destroy_list) /\ Len(destroy_list) \in Nat
  OBVIOUS
<1>2. I \in SUBSET Nat /\ I # {}
  BY <1>1 DEF Range
<1>3. PICK i \in I : \A j \in I : i <= j
  BY <1>2, LeastIndex
<1>4. \A j \in 1 .. i - 1 : destroy_list[j] # h
  BY <1>1, <1>3
<1>5. FirstOf(h) \in DOMAIN destroy_list
  BY <1>3, <1>4 DEF FirstOf
<1> HIDE DEF I
<1>6. /\ SubSeq(destroy_list, 1, FirstOf(h) - 1) \in Seq(Handlers)
      /\ SubSeq(destroy_list, FirstOf(h) + 1, Len(destroy_list)) \in Seq(Handlers)
  BY <1>1, <1>5
<1> QED BY <1>6 DEF pj_list_erase

(* The handlers, as they are registered, called and named by the calls. *)
HandlerInv == /\ destroy_list \in Seq(Handlers)
              /\ \A t \in Threads : pc[t].f \in Calls \cup {Release, Idle.f}
              /\ HandlersOnDestroy

LEMMA CallNames ==
  ASSUME NEW f \in Calls \cup {Release, Idle.f}, f.name = "add_handler"
  PROVE  f.handler \in Handlers
BY DEF Calls, Acquire, TryAcquire, Release, Idle

LEMMA LockNames ==
  ASSUME NEW f \in Calls \cup {Release, Idle.f}
  PROVE  /\ f.name = "chain_lock" => f.lock \in ExtLocks /\ f.pos \in Positions
         /\ f.name = "unchain_lock" => f.lock \in ExtLocks
BY DEF Calls, Acquire, TryAcquire, Release, Idle

(* A step that leaves the handlers alone. *)
LEMMA HandlersAlone ==
  ASSUME HandlerInv, NEW t \in Threads, Moves(t),
         alive' = alive, called' = called, destroy_list' = destroy_list,
         pc'[t].f \in Calls \cup {Release, Idle.f}
  PROVE  HandlerInv'
BY DEF HandlerInv, HandlersOnDestroy, Moves, Calls, Release, Idle

LEMMA DecRefCalls ==
  ASSUME GrpInv, HandlerInv, NEW t \in Threads, grp_lock_dec_ref(t)
  PROVE  destroy_list' = destroy_list /\ HandlersOnDestroy'
<1>1. CASE ref_cnt = 1
  <2>1. alive' = FALSE /\ destroy_list' = destroy_list
    BY <1>1 DEF grp_lock_dec_ref, grp_lock_destroy
  <2>2. CASE alive
    <3>1. called' = called \o destroy_list /\ called = <<>>
      BY <1>1, <2>2 DEF grp_lock_dec_ref, grp_lock_destroy, HandlerInv, HandlersOnDestroy
    <3>2. called' = destroy_list
      BY <3>1 DEF HandlerInv
    <3> QED BY <2>1, <3>2 DEF HandlersOnDestroy
  <2>3. CASE ~alive
    <3>1. called' = called
      BY <1>1, <2>3 DEF grp_lock_dec_ref, grp_lock_destroy
    <3> QED BY <2>1, <2>3, <3>1 DEF HandlerInv, HandlersOnDestroy
  <2> QED BY <2>2, <2>3
<1>2. CASE ref_cnt # 1
  BY <1>2 DEF grp_lock_dec_ref, life, HandlerInv, HandlersOnDestroy
<1> QED BY <1>1, <1>2

LEMMA HandlerStep == GrpInv /\ HandlerInv /\ [Next]_vars => HandlerInv'
<1> SUFFICES ASSUME GrpInv, HandlerInv, [Next]_vars PROVE HandlerInv'
  OBVIOUS
<1>t. GrpTypes /\ \A t \in Threads : pc[t].f \in Calls \cup {Release, Idle.f}
  BY DEF GrpInv, HandlerInv
<1>1. ASSUME NEW t \in Threads, NEW f \in Calls, Call(t, f) PROVE HandlerInv'
  <2>1. /\ pc' = [pc EXCEPT ![t] = [f |-> f, at |-> "acquire", lck |-> NextItem(ListHead)]]
        /\ alive' = alive /\ called' = called /\ destroy_list' = destroy_list
    BY <1>1 DEF Call, life
  <2>2. Moves(t) /\ pc'[t].f = f
    BY <1>t, <2>1, PhaseSet, Zenon DEF Moves
  <2> QED BY <2>1, <2>2, HandlersAlone
<1>2. ASSUME NEW t \in Threads,
             AcquireItem(t) \/ TryFails(t) \/ ReleaseItem(t) \/ RollbackDone(t) \/ AcquireDone(t)
               \/ UnlockExternal(t)
      PROVE  HandlerInv'
  <2>1. alive' = alive /\ called' = called /\ destroy_list' = destroy_list
    BY <1>2 DEF AcquireItem, TryFails, ReleaseItem, RollbackDone, AcquireDone, UnlockExternal, life
  <2>2. Return(t) \/ \E a, l : Goto(t, a, l)
    BY <1>2 DEF AcquireItem, TryFails, ReleaseItem, RollbackDone, AcquireDone, UnlockExternal
  <2>3. Moves(t) /\ pc'[t].f \in {pc[t].f, Idle.f}
    BY <1>t, <2>2, PhaseGoto, PhaseReturn DEF Moves
  <2> QED BY <1>t, <2>1, <2>3, HandlersAlone
<1>3. ASSUME NEW t \in Threads, NEW l \in ExtLocks, LockExternal(t, l) PROVE HandlerInv'
  <2>1. Goto(t, "external", l) /\ alive' = alive /\ called' = called /\ destroy_list' = destroy_list
    BY <1>3 DEF LockExternal, Goto, life
  <2>2. Moves(t) /\ pc'[t].f = pc[t].f
    BY <1>t, <2>1, PhaseGoto DEF Moves
  <2> QED BY <1>t, <2>1, <2>2, HandlersAlone
<1>4. ASSUME NEW t \in Threads,
             \/ pj_grp_lock_release(t) \/ pj_grp_lock_chain_lock(t) \/ pj_grp_lock_unchain_lock(t)
      PROVE  HandlerInv'
  <2>1. /\ alive' = alive /\ called' = called /\ destroy_list' = destroy_list
        /\ StartRelease(t, Release) \/ StartRelease(t, pc[t].f)
    BY <1>4 DEF pj_grp_lock_release, pj_grp_lock_chain_lock, pj_grp_lock_unchain_lock, life
  <2>2. Moves(t) /\ pc'[t].f \in {Release, pc[t].f}
    BY <1>t, <2>1, PhaseSet DEF Moves, StartRelease
  <2> QED BY <1>t, <2>1, <2>2, HandlersAlone
<1>5. ASSUME NEW t \in Threads, pj_grp_lock_add_handler(t) \/ pj_grp_lock_del_handler(t)
      PROVE  HandlerInv'
  <2>1. /\ pc[t].at = "body" /\ alive' = alive /\ called' = called
        /\ StartRelease(t, pc[t].f)
    BY <1>5 DEF pj_grp_lock_add_handler, pj_grp_lock_del_handler
  <2>2. alive
    BY <2>1, UsersFindItAlive
  <2>3. Moves(t) /\ pc'[t].f = pc[t].f
    BY <1>t, <2>1, PhaseSet, Zenon DEF Moves, StartRelease
  <2>4. destroy_list' \in Seq(Handlers)
    <3>1. CASE pj_grp_lock_add_handler(t)
      <4>1. destroy_list' = Append(destroy_list, pc[t].f.handler) /\ pc[t].f.handler \in Handlers
        BY <1>t, <3>1, CallNames DEF pj_grp_lock_add_handler
      <4> QED BY <4>1 DEF HandlerInv
    <3>2. CASE pj_grp_lock_del_handler(t)
      BY <3>2, HandlerErased DEF pj_grp_lock_del_handler, HandlerInv
    <3> QED BY <1>5, <3>1, <3>2
  <2>5. HandlersOnDestroy'
    BY <2>1, <2>2 DEF HandlerInv, HandlersOnDestroy
  <2>6. \A s \in Threads : pc'[s].f \in Calls \cup {Release, Idle.f}
    BY <1>t, <2>3 DEF Moves
  <2> QED BY <2>4, <2>5, <2>6 DEF HandlerInv, Calls, Release, Idle
<1>6. ASSUME NEW t \in Threads, ReleaseDone(t) PROVE HandlerInv'
  <2>1. grp_lock_dec_ref(t) /\ Return(t)
    BY <1>6 DEF ReleaseDone
  <2>2. \A s \in Threads : pc'[s].f \in Calls \cup {Release, Idle.f}
    BY <1>t, <2>1, PhaseReturn
  <2> QED BY <2>1, <2>2, DecRefCalls DEF HandlerInv, Calls, Release, Idle
<1>7. ASSUME NEW t \in Threads, pj_grp_lock_dec_ref(t) PROVE HandlerInv'
  <2>1. grp_lock_dec_ref(t) /\ pc' = pc
    BY <1>7 DEF pj_grp_lock_dec_ref
  <2> QED BY <2>1, DecRefCalls DEF HandlerInv, Calls, Release, Idle
<1>8. ASSUME NEW t \in Threads, pj_grp_lock_add_ref(t) PROVE HandlerInv'
  <2>1. alive' = alive /\ called' = called /\ destroy_list' = destroy_list /\ pc' = pc
    BY <1>8 DEF pj_grp_lock_add_ref, life
  <2> QED BY <2>1 DEF HandlerInv, HandlersOnDestroy, Calls, Release, Idle
<1>9. CASE UNCHANGED vars
  BY <1>9 DEF vars, life, HandlerInv, HandlersOnDestroy, Calls, Release, Idle
<1> QED BY <1>1, <1>2, <1>3, <1>4, <1>5, <1>6, <1>7, <1>8, <1>9 DEF Next, Step

(* Destroy handlers run once, in the order of registration and not before   *)
(* the lock is destroyed; none can be added or removed after that.          *)
THEOREM HandlersRunOnce == Spec => []HandlersOnDestroy
<1>1. Init => HandlerInv
  <2> SUFFICES ASSUME Init PROVE HandlerInv
    OBVIOUS
  <2>1. pc = [t \in Threads |-> Idle] /\ destroy_list = <<>> /\ called = <<>> /\ alive
    BY DEF Init
  <2>2. destroy_list \in Seq(Handlers)
    BY <2>1
  <2> QED BY <2>1, <2>2 DEF HandlerInv, HandlersOnDestroy
<1>2. HandlerInv => HandlersOnDestroy
  BY DEF HandlerInv
<1> QED BY <1>1, <1>2, GrpInitially, GrpStep, HandlerStep, PTL DEF Spec
-----------------------------------------------------------------------------
(* The chained locks: what the inductive invariant of GrpLockChainProofs    *)
(* says, and what it rests on.                                              *)

Walking == {"acquire", "release", "rollback"}

(* l comes before the item lck of a walk, or the walk is at the head again. *)
Before(l, lck) ==
  lck # ListHead => \E i, j \in DOMAIN lock_list : i < j /\ lock_list[i] = l /\ lock_list[j] = lck

(* How often a thread at p, with d nested acquisitions, holds the mutex of  *)
(* l: once more than d when a walk has acquired l, or has not yet released  *)
(* it.                                                                      *)
Level(p, d, l) ==
  IF p.at = "external" THEN IF p.lck = l THEN 1 ELSE 0
  ELSE IF l \notin Range(lock_list) THEN 0
  ELSE IF p.at \in Walking /\ Before(l, p.lck) THEN d + 1 ELSE d

Holds(t, l) == Level(pc[t], depth[t], l)

Chain == /\ lock_list \in Seq(Locks) /\ lock_list # <<>> /\ lock_list[1] = Own
         /\ \A i, j \in DOMAIN lock_list : lock_list[i] = lock_list[j] => i = j
         /\ prio \in [Locks -> Int] /\ prio[Own] = 0

(* A call that is about to chain its lock. *)
Chains(t) == pc[t].at \in {"acquire", "body"} /\ pc[t].f.name = "chain_lock"

Places == \A t \in Threads :
  /\ pc[t].f \in Calls \cup {Release, Idle.f}
  /\ pc[t].at \in Walking => pc[t].lck \in Range(lock_list) \cup {ListHead}
  /\ pc[t].at = "external" => pc[t].lck \in ExtLocks /\ depth[t] = 0
  /\ Chains(t) => /\ pc[t].f.lock \notin Range(lock_list)
                  /\ \A s \in Threads \ {t} : Chains(s) => pc[s].f.lock # pc[t].f.lock

Mutexes ==
  /\ mutex \in [Locks -> [owner : Threads \cup {NoThread}, count : Nat]]
  /\ \A l \in Locks, t \in Threads :
       Holds(t, l) = IF mutex[l].owner = t THEN mutex[l].count ELSE 0
  /\ \A l \in Locks : mutex[l].count > 0 <=> mutex[l].owner # NoThread

Owned == /\ \A t \in Threads : depth[t] > 0 => owner = t /\ owner_cnt = depth[t]
         /\ (\A t \in Threads : depth[t] = 0) => owner = NoThread /\ owner_cnt = 0

ChainInv == Chain /\ Places /\ Mutexes /\ Owned

LEMMA ListFacts ==
  ASSUME Chain
  PROVE  /\ DOMAIN lock_list = 1 .. Len(lock_list) /\ Len(lock_list) \in Nat /\ Len(lock_list) >= 1
         /\ \A i \in 1 .. Len(lock_list) : /\ lock_list[i] \in Locks /\ lock_list[i] # ListHead
                                           /\ lock_list[i] \in Range(lock_list)
         /\ \A l \in Range(lock_list) : \E i \in 1 .. Len(lock_list) : lock_list[i] = l
         /\ \A i, j \in 1 .. Len(lock_list) : lock_list[i] = lock_list[j] => i = j
         /\ Own = lock_list[1] /\ Own \in Range(lock_list) /\ ListHead \notin Locks
<1>1. DOMAIN lock_list = 1 .. Len(lock_list) /\ Len(lock_list) \in Nat /\ Len(lock_list) >= 1
  BY DEF Chain
<1>2. ListHead \notin Locks
  BY GrpLockAssumption DEF Locks
<1>3. \A i \in 1 .. Len(lock_list) : lock_list[i] \in Locks /\ lock_list[i] \in Range(lock_list)
  BY <1>1 DEF Chain, Range
<1>4. \A l \in Range(lock_list) : \E i \in 1 .. Len(lock_list) : lock_list[i] = l
  BY <1>1 DEF Range
<1>5. \A i, j \in 1 .. Len(lock_list) : lock_list[i] = lock_list[j] => i = j
  BY <1>1 DEF Chain
<1>6. Own = lock_list[1] /\ 1 \in 1 .. Len(lock_list)
  BY <1>1 DEF Chain
<1>7. Own \in Range(lock_list)
  BY <1>3, <1>6
<1>8. \A i \in 1 .. Len(lock_list) : /\ lock_list[i] \in Locks /\ lock_list[i] # ListHead
                                        /\ lock_list[i] \in Range(lock_list)
  BY <1>2, <1>3, Zenon
<1> QED BY <1>1, <1>2, <1>4, <1>5, <1>6, <1>7, <1>8, Zenon

LEMMA Neighbours ==
  ASSUME Chain, NEW i \in 1 .. Len(lock_list)
  PROVE  /\ NextItem(ListHead) = Own /\ PrevItem(ListHead) = lock_list[Len(lock_list)]
         /\ NextItem(lock_list[i]) = IF i = Len(lock_list) THEN ListHead ELSE lock_list[i + 1]
         /\ PrevItem(lock_list[i]) = IF i = 1 THEN ListHead ELSE lock_list[i - 1]
<1>1. lock_list[i] # ListHead /\ lock_list[i] \in Range(lock_list) /\ lock_list # <<>> /\ lock_list[1] = Own
  BY ListFacts DEF Chain
<1>2. IndexOf(lock_list[i]) = i
  BY ListFacts, Zenon DEF IndexOf
<1>3. NextItem(ListHead) = Own /\ PrevItem(ListHead) = lock_list[Len(lock_list)]
  BY <1>1 DEF NextItem, PrevItem
<1>4. NextItem(lock_list[i]) = IF i = Len(lock_list) THEN ListHead ELSE lock_list[i + 1]
  BY <1>1, <1>2, Zenon DEF NextItem
<1>5. PrevItem(lock_list[i]) = IF i = 1 THEN ListHead ELSE lock_list[i - 1]
  BY <1>1, <1>2, Zenon DEF PrevItem
<1> QED BY <1>3, <1>4, <1>5

(* Where a walk is, as a position in the list: past the end at the head. *)
IsAt(lck, n) == \/ n = Len(lock_list) + 1 /\ lck = ListHead
                \/ n \in 1 .. Len(lock_list) /\ lck = lock_list[n]

LEMMA WalkAt ==
  ASSUME Chain, NEW lck \in Range(lock_list) \cup {ListHead}
  PROVE  \E n \in 1 .. Len(lock_list) + 1 : IsAt(lck, n)
<1>1. CASE lck = ListHead
  BY <1>1, ListFacts DEF IsAt
<1>2. CASE lck \in Range(lock_list)
  <2>1. PICK n \in 1 .. Len(lock_list) : lock_list[n] = lck
    BY <1>2, ListFacts
  <2>2. n \in 1 .. Len(lock_list) + 1
    BY ListFacts
  <2> QED BY <2>1, <2>2 DEF IsAt
<1> QED BY <1>1, <1>2

LEMMA BeforeAt ==
  ASSUME Chain, NEW lck, NEW n \in 1 .. Len(lock_list) + 1, IsAt(lck, n),
         NEW i \in 1 .. Len(lock_list)
  PROVE  Before(lock_list[i], lck) <=> i < n
<1>1. DOMAIN lock_list = 1 .. Len(lock_list) /\ Len(lock_list) \in Nat
  BY ListFacts
<1>2. CASE n = Len(lock_list) + 1 /\ lck = ListHead
  BY <1>1, <1>2 DEF Before
<1>3. CASE n \in 1 .. Len(lock_list) /\ lck = lock_list[n]
  <2>1. lock_list[n] # ListHead
    BY <1>3, ListFacts
  <2>2. ASSUME i < n PROVE Before(lock_list[i], lck)
    BY <1>1, <1>3, <2>2 DEF Before
  <2>3. ASSUME Before(lock_list[i], lck) PROVE i < n
    <3>1. PICK j, k \in 1 .. Len(lock_list) : j < k /\ lock_list[j] = lock_list[i] /\ lock_list[k] = lock_list[n]
      BY <1>1, <1>3, <2>1, <2>3 DEF Before
    <3>2. j = i /\ k = n
      BY <1>3, <3>1, ListFacts
    <3> QED BY <3>1, <3>2
  <2> QED BY <2>2, <2>3
<1> QED BY <1>2, <1>3 DEF IsAt

(* The position after n, and the one before it. *)
LEMMA StepAt ==
  ASSUME Chain, NEW lck, NEW n \in 1 .. Len(lock_list) + 1, IsAt(lck, n)
  PROVE  /\ lck # ListHead => n \in 1 .. Len(lock_list) /\ lck = lock_list[n] /\ IsAt(NextItem(lck), n + 1)
         /\ lck = ListHead => n = Len(lock_list) + 1
         /\ n = 1 => PrevItem(lck) = ListHead
         /\ n > 1 => /\ n - 1 \in 1 .. Len(lock_list) /\ PrevItem(lck) = lock_list[n - 1]
                     /\ IsAt(PrevItem(lck), n - 1) /\ PrevItem(lck) # ListHead
<1>1. Len(lock_list) \in Nat /\ Len(lock_list) >= 1
  BY ListFacts
<1>2. CASE n = Len(lock_list) + 1 /\ lck = ListHead
  <2>1. n > 1 /\ n # 1 /\ n - 1 = Len(lock_list) /\ n - 1 \in 1 .. Len(lock_list)
    BY <1>1, <1>2
  <2>2. PrevItem(lck) = lock_list[n - 1] /\ lock_list[n - 1] # ListHead
    BY <1>2, <2>1, Neighbours, ListFacts
  <2> QED BY <1>2, <2>1, <2>2 DEF IsAt
<1>3. CASE n \in 1 .. Len(lock_list) /\ lck = lock_list[n]
  <2>1. lck # ListHead
    BY <1>3, ListFacts
  <2>2. IsAt(NextItem(lck), n + 1)
    <3>1. CASE n = Len(lock_list)
      BY <1>3, <3>1, Neighbours DEF IsAt
    <3>2. CASE n # Len(lock_list)
      <4>1. n + 1 \in 1 .. Len(lock_list) /\ NextItem(lck) = lock_list[n + 1]
        BY <1>1, <1>3, <3>2, Neighbours
      <4> QED BY <4>1 DEF IsAt
    <3> QED BY <3>1, <3>2
  <2>3. CASE n = 1
    BY <1>3, <2>1, <2>2, <2>3, Neighbours
  <2>4. CASE n # 1
    <3>1. n - 1 \in 1 .. Len(lock_list) /\ PrevItem(lck) = lock_list[n - 1]
      BY <1>1, <1>3, <2>4, Neighbours
    <3>2. lock_list[n - 1] # ListHead
      BY <3>1, ListFacts
    <3> QED BY <1>3, <2>1, <2>2, <2>4, <3>1, <3>2 DEF IsAt
  <2> QED BY <2>3, <2>4
<1> QED BY <1>2, <1>3 DEF IsAt

LEMMA LevelAt ==
  ASSUME Chain, NEW p, NEW d, p.at \in Walking, NEW n \in 1 .. Len(lock_list) + 1, IsAt(p.lck, n)
  PROVE  /\ \A i \in 1 .. Len(lock_list) :
              Level(p, d, lock_list[i]) = IF i < n THEN d + 1 ELSE d
         /\ \A k \in Locks \ Range(lock_list) : Level(p, d, k) = 0
<1>1. p.at # "external"
  BY DEF Walking
<1>2. \A i \in 1 .. Len(lock_list) : lock_list[i] \in Range(lock_list) /\ (Before(lock_list[i], p.lck) <=> i < n)
  BY BeforeAt, ListFacts
<1> QED BY <1>1, <1>2 DEF Level
-----------------------------------------------------------------------------
(* A step that changes how often t holds l, with the mutex of l. *)
SameHolds(t, l) == \A s \in Threads, k \in Locks : s # t \/ k # l => Holds(s, k)' = Holds(s, k)

LEMMA HoldsKept ==
  ASSUME Mutexes, mutex' = mutex, \A s \in Threads, k \in Locks : Holds(s, k)' = Holds(s, k)
  PROVE  Mutexes'
BY DEF Mutexes

LEMMA HoldsMore ==
  ASSUME Mutexes, NEW t \in Threads, NEW l \in Locks, NEW n \in Nat \ {0}, Available(l, t),
         mutex' = [mutex EXCEPT ![l] = Locked(@, t, n)],
         Holds(t, l)' = Holds(t, l) + n, SameHolds(t, l)
  PROVE  Mutexes'
<1>0. NoThread # t /\ NoThread \notin Threads
  BY GrpLockAssumption
<1>1. /\ mutex \in [Locks -> [owner : Threads \cup {NoThread}, count : Nat]]
      /\ mutex[l].count \in Nat /\ mutex[l].owner \in Threads \cup {NoThread}
  BY DEF Mutexes
<1>2. Holds(t, l) = mutex[l].count
  BY <1>0, <1>1 DEF Mutexes, Available
<1>3. mutex'[l] = [owner |-> t, count |-> mutex[l].count + n] /\ \A k \in Locks \ {l} : mutex'[k] = mutex[k]
  BY <1>1 DEF Locked
<1>4. mutex' \in [Locks -> [owner : Threads \cup {NoThread}, count : Nat]]
  <2>1. [owner |-> t, count |-> mutex[l].count + n] \in [owner : Threads \cup {NoThread}, count : Nat]
    BY <1>1
  <2> QED BY <1>1, <2>1 DEF Locked
<1>5. mutex'[l].owner = t /\ mutex'[l].count = mutex[l].count + n /\ mutex'[l].count > 0
  BY <1>1, <1>3
<1>6. \A s \in Threads \ {t} : Holds(s, l) = 0
  BY <1>0 DEF Mutexes, Available
<1>7. \A k \in Locks, s \in Threads : (Holds(s, k) = IF mutex[k].owner = s THEN mutex[k].count ELSE 0)'
  <2> TAKE k \in Locks, s \in Threads
  <2>1. CASE k # l
    BY <1>3, <2>1 DEF Mutexes, SameHolds
  <2>2. CASE k = l /\ s # t
    BY <1>5, <1>6, <2>2 DEF SameHolds
  <2>3. CASE k = l /\ s = t
    BY <1>2, <1>5, <2>3
  <2> QED BY <2>1, <2>2, <2>3
<1>8. \A k \in Locks : mutex'[k].count > 0 <=> mutex'[k].owner # NoThread
  BY <1>0, <1>3, <1>5 DEF Mutexes
<1> QED BY <1>4, <1>7, <1>8 DEF Mutexes

LEMMA HoldsLess ==
  ASSUME Mutexes, NEW t \in Threads, NEW l \in Locks, NEW n \in Nat \ {0}, Holds(t, l) >= n,
         mutex' = [mutex EXCEPT ![l] = Unlocked(@, t, n)],
         Holds(t, l)' = Holds(t, l) - n, SameHolds(t, l)
  PROVE  Mutexes'
<1>0. NoThread # t /\ NoThread \notin Threads
  BY GrpLockAssumption
<1>1. /\ mutex \in [Locks -> [owner : Threads \cup {NoThread}, count : Nat]]
      /\ mutex[l].count \in Nat /\ mutex[l].owner \in Threads \cup {NoThread}
      /\ mutex[l] = [owner |-> mutex[l].owner, count |-> mutex[l].count]
  BY DEF Mutexes
<1>2. mutex[l].owner = t /\ mutex[l].count = Holds(t, l) /\ mutex[l].count >= n
  BY <1>1 DEF Mutexes
<1> DEFINE new == Unlocked(mutex[l], t, n)
<1>3. /\ new \in [owner : Threads \cup {NoThread}, count : Nat] /\ new.count = mutex[l].count - n
      /\ new.owner = IF mutex[l].count = n THEN NoThread ELSE t
  <2>1. CASE mutex[l].count = n
    <3>1. new = [owner |-> NoThread, count |-> 0]
      BY <1>1, <1>2, <2>1 DEF Unlocked
    <3> QED BY <1>1, <2>1, <3>1
  <2>2. CASE mutex[l].count # n
    <3>1. new = [mutex[l] EXCEPT !.count = @ - n]
      BY <1>1, <1>2, <2>2 DEF Unlocked
    <3>2. new = [owner |-> t, count |-> mutex[l].count - n]
      BY <1>1, <1>2, <3>1
    <3>3. mutex[l].count - n \in Nat
      BY <1>1, <1>2
    <3> QED BY <2>2, <3>2, <3>3
  <2> QED BY <2>1, <2>2
<1>4. mutex' = [mutex EXCEPT ![l] = new]
  OBVIOUS
<1> HIDE DEF new
<1>5. /\ mutex' \in [Locks -> [owner : Threads \cup {NoThread}, count : Nat]]
      /\ mutex'[l] = new /\ \A k \in Locks \ {l} : mutex'[k] = mutex[k]
  BY <1>1, <1>3, <1>4
<1>6. \A s \in Threads \ {t} : Holds(s, l) = 0
  BY <1>2 DEF Mutexes
<1>7. \A k \in Locks, s \in Threads : (Holds(s, k) = IF mutex[k].owner = s THEN mutex[k].count ELSE 0)'
  <2> TAKE k \in Locks, s \in Threads
  <2>1. CASE k # l
    BY <1>5, <2>1 DEF Mutexes, SameHolds
  <2>2. CASE k = l /\ s # t
    BY <1>0, <1>3, <1>5, <1>6, <2>2 DEF SameHolds
  <2>3. CASE k = l /\ s = t
    BY <1>0, <1>1, <1>2, <1>3, <1>5, <2>3
  <2> QED BY <2>1, <2>2, <2>3
<1>8. \A k \in Locks : mutex'[k].count > 0 <=> mutex'[k].owner # NoThread
  BY <1>0, <1>1, <1>2, <1>3, <1>5 DEF Mutexes
<1> QED BY <1>5, <1>7, <1>8 DEF Mutexes
-----------------------------------------------------------------------------
(* While the list stays as it is, a thread holds what its place says. *)
LEMMA ListSame ==
  ASSUME lock_list' = lock_list
  PROVE  \A s, k : Holds(s, k)' = Level(pc'[s], depth'[s], k)
BY DEF Holds, Level, Before

LEMMA OthersHold ==
  ASSUME NEW t \in Threads, Moves(t), lock_list' = lock_list,
         \A s \in Threads \ {t} : depth'[s] = depth[s]
  PROVE  \A s \in Threads \ {t}, k \in Locks : Holds(s, k)' = Holds(s, k)
BY ListSame DEF Moves, Holds

(* A step of a walk over item n, which is l. *)
LEMMA ItemHolds ==
  ASSUME Chain, lock_list' = lock_list, depth' = depth, NEW t \in Threads, Moves(t),
         depth[t] \in Nat, pc[t].at \in Walking, pc'[t].at \in Walking,
         NEW n \in 1 .. Len(lock_list), NEW l, l = lock_list[n],
         NEW a \in {n, n + 1}, NEW b \in {n, n + 1},
         IsAt(pc[t].lck, a), IsAt(pc'[t].lck, b)
  PROVE  /\ SameHolds(t, l)
         /\ Holds(t, l) = IF a = n THEN depth[t] ELSE depth[t] + 1
         /\ Holds(t, l)' = IF b = n THEN depth[t] ELSE depth[t] + 1
<1>1. a \in 1 .. Len(lock_list) + 1 /\ b \in 1 .. Len(lock_list) + 1 /\ Len(lock_list) \in Nat
  BY ListFacts
<1> DEFINE was(k) == Level(pc[t], depth[t], k)
           is(k) == Level(pc'[t], depth[t], k)
<1>2. /\ \A i \in 1 .. Len(lock_list) : was(lock_list[i]) = IF i < a THEN depth[t] + 1 ELSE depth[t]
      /\ \A k \in Locks \ Range(lock_list) : was(k) = 0
  BY <1>1, LevelAt
<1>3. /\ \A i \in 1 .. Len(lock_list) : is(lock_list[i]) = IF i < b THEN depth[t] + 1 ELSE depth[t]
      /\ \A k \in Locks \ Range(lock_list) : is(k) = 0
  BY <1>1, LevelAt
<1>4. \A i \in 1 .. Len(lock_list) : i # n => (i < a <=> i < b)
  BY <1>1
<1>5. \A k : Holds(t, k) = was(k) /\ Holds(t, k)' = is(k)
  BY ListSame DEF Holds
<1> HIDE DEF was, is
<1>6. ASSUME NEW k \in Locks, k # l PROVE is(k) = was(k)
  <2>1. CASE k \in Range(lock_list)
    <3>1. PICK i \in 1 .. Len(lock_list) : lock_list[i] = k
      BY <2>1, ListFacts
    <3>2. i # n
      BY <1>6, <3>1
    <3> QED BY <1>2, <1>3, <1>4, <3>1, <3>2
  <2>2. CASE k \notin Range(lock_list)
    BY <1>2, <1>3, <2>2
  <2> QED BY <2>1, <2>2
<1>7. SameHolds(t, l)
  BY <1>5, <1>6, OthersHold DEF SameHolds
<1>8. (n < a <=> a # n) /\ (n < b <=> b # n)
  BY <1>1
<1>9. was(l) = (IF a = n THEN depth[t] ELSE depth[t] + 1) /\ is(l) = IF b = n THEN depth[t] ELSE depth[t] + 1
  BY <1>2, <1>3, <1>8
<1> QED BY <1>5, <1>7, <1>9
-----------------------------------------------------------------------------
(* What a thread holds between calls and at the two ends of a walk. *)
Even(p, d, n) == \A k \in Locks : Level(p, d, k) = IF k \in Range(lock_list) THEN n ELSE 0

LEMMA Ends ==
  ASSUME Chain, NEW p, NEW d
  PROVE  /\ p.at \in {"idle", "body"} => Even(p, d, d)
         /\ p.at \in Walking /\ p.lck = ListHead => Even(p, d, d + 1)
         /\ p.at \in Walking /\ IsAt(p.lck, 1) => Even(p, d, d)
<1>1. ASSUME p.at \in {"idle", "body"} PROVE Even(p, d, d)
  BY <1>1 DEF Even, Level, Walking
<1>2. ASSUME p.at \in Walking, p.lck = ListHead PROVE Even(p, d, d + 1)
  BY <1>2, Zenon DEF Even, Level, Walking, Before
<1>3. ASSUME p.at \in Walking, IsAt(p.lck, 1) PROVE Even(p, d, d)
  <2>1. 1 \in 1 .. Len(lock_list) + 1 /\ \A i \in 1 .. Len(lock_list) : ~(i < 1)
    BY ListFacts
  <2>2. /\ \A i \in 1 .. Len(lock_list) : Level(p, d, lock_list[i]) = IF i < 1 THEN d + 1 ELSE d
        /\ \A k \in Locks \ Range(lock_list) : Level(p, d, k) = 0
    BY <1>3, <2>1, LevelAt, Zenon
  <2>3. ASSUME NEW k \in Range(lock_list) PROVE Level(p, d, k) = d
    <3>1. PICK i \in 1 .. Len(lock_list) : lock_list[i] = k
      BY ListFacts
    <3> QED BY <2>1, <2>2, <3>1
  <2> QED BY <2>2, <2>3 DEF Even
<1> QED BY <1>1, <1>2, <1>3

(* The thread that holds the own mutex is the only one inside. *)
LEMMA Inside ==
  ASSUME GrpTypes, ChainInv, NEW t \in Threads, Holds(t, Own) # 0
  PROVE  \A s \in Threads : s # t => Holds(s, Own) = 0 /\ depth[s] = 0
<1> TAKE s \in Threads
<1> HAVE s # t
<1>1. Own \in Locks /\ Own \in Range(lock_list) /\ Own \notin ExtLocks
  BY GrpLockAssumption, ListFacts DEF Locks, ChainInv
<1>2. Holds(s, Own) = 0
  BY <1>1 DEF ChainInv, Mutexes
<1>3. depth[s] \in Nat /\ (pc[s].at = "external" => depth[s] = 0)
  BY GrpLockAssumption DEF GrpTypes, ChainInv, Places
<1>4. CASE pc[s].at # "external"
  BY <1>1, <1>2, <1>3, <1>4 DEF Holds, Level
<1> QED BY <1>2, <1>3, <1>4

LEMMA HoldsOwn ==
  ASSUME Chain, NEW t \in Threads, depth[t] \in Nat, depth[t] > 0, Even(pc[t], depth[t], depth[t])
  PROVE  Holds(t, Own) # 0
<1>1. Own \in Locks /\ Own \in Range(lock_list)
  BY ListFacts DEF Locks
<1>2. Holds(t, Own) = depth[t]
  BY <1>1 DEF Even, Holds
<1> QED BY <1>2

(* A step of t that leaves the list alone and holds what it held. *)
LEMMA LevelKept ==
  ASSUME Mutexes, mutex' = mutex, lock_list' = lock_list, NEW t \in Threads, Moves(t),
         \A s \in Threads : s # t => depth'[s] = depth[s],
         \A k \in Locks : Level(pc'[t], depth'[t], k) = Level(pc[t], depth[t], k)
  PROVE  Mutexes'
<1>1. \A k \in Locks : Holds(t, k)' = Holds(t, k)
  BY ListSame DEF Holds
<1>2. \A s \in Threads, k \in Locks : Holds(s, k)' = Holds(s, k)
  BY <1>1, OthersHold
<1> QED BY <1>2, HoldsKept

LEMMA PlacesKept ==
  ASSUME Places, lock_list' = lock_list, NEW t \in Threads, Moves(t),
         \A s \in Threads : s # t => depth'[s] = depth[s],
         pc'[t].f \in Calls \cup {Release, Idle.f},
         pc'[t].at \in Walking => pc'[t].lck \in Range(lock_list) \cup {ListHead},
         pc'[t].at = "external" => pc'[t].lck \in ExtLocks /\ depth'[t] = 0,
         Chains(t)' => \/ Chains(t) /\ pc'[t].f = pc[t].f
                       \/ /\ pc'[t].f.lock \notin Range(lock_list)
                          /\ \A s \in Threads : Chains(s) => pc[s].f.lock # pc'[t].f.lock
  PROVE  Places'
<1>1. \A s \in Threads : s # t => pc'[s] = pc[s] /\ (Chains(s)' <=> Chains(s))
  BY DEF Moves, Chains
<1>2. ASSUME NEW s \in Threads, Chains(s)'
      PROVE  /\ pc'[s].f.lock \notin Range(lock_list)
             /\ \A r \in Threads \ {s} : Chains(r)' => pc'[r].f.lock # pc'[s].f.lock
  <2>p. \A r \in Threads : Chains(r) => /\ pc[r].f.lock \notin Range(lock_list)
                                         /\ \A u \in Threads \ {r} : Chains(u) => pc[u].f.lock # pc[r].f.lock
    BY DEF Places
  <2>1. CASE s # t
    <3>1. Chains(s) /\ pc'[s] = pc[s]
      BY <1>1, <1>2, <2>1
    <3>2. ASSUME NEW r \in Threads \ {s}, Chains(r)' PROVE pc'[r].f.lock # pc'[s].f.lock
      <4>1. CASE r # t
        BY <1>1, <2>p, <3>1, <3>2, <4>1, Zenon
      <4>2. CASE r = t
        BY <2>p, <2>1, <3>1, <3>2, <4>2, Zenon
      <4> QED BY <4>1, <4>2
    <3> QED BY <2>p, <3>1, <3>2, Zenon
  <2>2. CASE s = t
    <3>1. pc'[s].f.lock \notin Range(lock_list)
      BY <1>2, <2>p, <2>2, Zenon
    <3>2. ASSUME NEW r \in Threads \ {s}, Chains(r)' PROVE pc'[r].f.lock # pc'[s].f.lock
      <4>1. Chains(r) /\ pc'[r] = pc[r]
        BY <1>1, <2>2, <3>2
      <4> QED BY <1>2, <2>p, <2>2, <4>1, Zenon
    <3> QED BY <3>1, <3>2
  <2> QED BY <2>1, <2>2
<1>3. ASSUME NEW s \in Threads
      PROVE  /\ pc'[s].f \in Calls \cup {Release, Idle.f}
             /\ pc'[s].at \in Walking => pc'[s].lck \in Range(lock_list) \cup {ListHead}
             /\ pc'[s].at = "external" => pc'[s].lck \in ExtLocks /\ depth'[s] = 0
  BY <1>1, Zenon DEF Places
<1> QED BY <1>2, <1>3 DEF Places, Calls, Release, Idle, Acquire, TryAcquire

(* Steps that leave the nesting and the list alone. *)
LEMMA Quiet ==
  ASSUME ChainInv, UNCHANGED <<list, ownership, depth>>, Places', Mutexes'
  PROVE  ChainInv'
BY DEF ChainInv, Chain, Owned, list, ownership, Locks
-----------------------------------------------------------------------------
(* The list with an item put in, or taken out, after the first one. *)
Listed(q) == /\ q \in Seq(Locks) /\ q # <<>> /\ q[1] = Own
             /\ \A i, j \in DOMAIN q : q[i] = q[j] => i = j

LEMMA Joined ==
  ASSUME NEW S, NEW a \in Seq(S), NEW b \in Seq(S), NEW m \in Nat, NEW n \in Nat, Len(a) = m, Len(b) = n
  PROVE  /\ a \o b \in Seq(S) /\ Len(a \o b) = m + n
         /\ \A i \in 1 .. m : (a \o b)[i] = a[i]
         /\ \A i \in 1 .. n : (a \o b)[m + i] = b[i]
<1>1. a \o b \in Seq(S) /\ Len(a \o b) = m + n
  OBVIOUS
<1>2. \A i \in 1 .. m : (a \o b)[i] = a[i]
  OBVIOUS
<1>3. \A i \in 1 .. n : (a \o b)[m + i] = b[i]
  OBVIOUS
<1> QED BY <1>1, <1>2, <1>3

LEMMA Part ==
  ASSUME NEW S, NEW s \in Seq(S), NEW m \in 1 .. Len(s) + 1, NEW n \in 0 .. Len(s), m <= n + 1
  PROVE  /\ SubSeq(s, m, n) \in Seq(S) /\ Len(SubSeq(s, m, n)) = n + 1 - m
         /\ \A i \in 1 .. n + 1 - m : SubSeq(s, m, n)[i] = s[m + i - 1]
<1>1. SubSeq(s, m, n) \in Seq(S)
  OBVIOUS
<1>2. Len(SubSeq(s, m, n)) = n + 1 - m
  OBVIOUS
<1>3. \A i \in 1 .. n + 1 - m : SubSeq(s, m, n)[i] = s[m + i - 1]
  OBVIOUS
<1> QED BY <1>1, <1>2, <1>3

LEMMA Inserted ==
  ASSUME Chain, NEW l \in Locks \ Range(lock_list), NEW n \in 2 .. Len(lock_list) + 1
  PROVE  /\ Listed(pj_list_insert_before(lock_list, n, l))
         /\ Range(pj_list_insert_before(lock_list, n, l)) = Range(lock_list) \cup {l}
<1> DEFINE L == Len(lock_list)
           q == pj_list_insert_before(lock_list, n, l)
           a == SubSeq(lock_list, 1, n - 1)
           b == SubSeq(lock_list, n, L)
           c == a \o <<l>>
<1>1. lock_list \in Seq(Locks) /\ L \in Nat /\ L >= 1 /\ DOMAIN lock_list = 1 .. L
  BY ListFacts DEF Chain
<1>2. a \in Seq(Locks) /\ Len(a) = n - 1 /\ \A i \in 1 .. n - 1 : a[i] = lock_list[i]
  <2>1. 1 \in 1 .. L + 1 /\ n - 1 \in 0 .. L /\ 1 <= (n - 1) + 1 /\ (n - 1) + 1 - 1 = n - 1
    BY <1>1
  <2>2. \A i \in 1 .. n - 1 : 1 + i - 1 = i
    BY <1>1
  <2> QED BY <1>1, <2>1, <2>2, Part
<1>3. b \in Seq(Locks) /\ Len(b) = L + 1 - n /\ \A i \in 1 .. L + 1 - n : b[i] = lock_list[n + i - 1]
  <2>1. n \in 1 .. L + 1 /\ L \in 0 .. L /\ n <= L + 1
    BY <1>1
  <2> QED BY <1>1, <2>1, Part
<1> HIDE DEF a, b
<1>4. c \in Seq(Locks) /\ Len(c) = n /\ (\A i \in 1 .. n - 1 : c[i] = lock_list[i]) /\ c[n] = l
  <2>1. <<l>> \in Seq(Locks) /\ Len(<<l>>) = 1 /\ 1 \in 1 .. 1 /\ <<l>>[1] = l /\ 1 \in Nat
    OBVIOUS
  <2>2. n - 1 \in Nat /\ (n - 1) + 1 = n
    BY <1>1
  <2>3. /\ c \in Seq(Locks) /\ Len(c) = (n - 1) + 1
        /\ \A i \in 1 .. n - 1 : c[i] = a[i]
        /\ \A i \in 1 .. 1 : c[(n - 1) + i] = <<l>>[i]
    <3> HIDE DEF c
    <3> QED BY <1>2, <2>1, <2>2, Joined DEF c
  <2> QED BY <1>2, <2>1, <2>2, <2>3
<1> HIDE DEF c
<1>5. /\ q \in Seq(Locks) /\ Len(q) = L + 1
      /\ (\A i \in 1 .. n - 1 : q[i] = lock_list[i]) /\ q[n] = l
      /\ \A i \in n + 1 .. L + 1 : q[i] = lock_list[i - 1]
  <2>1. q = c \o b
    BY DEF pj_list_insert_before, a, b, c
  <2> HIDE DEF q
  <2>2. n \in Nat /\ L + 1 - n \in Nat /\ n + (L + 1 - n) = L + 1
    BY <1>1
  <2>3. /\ q \in Seq(Locks) /\ Len(q) = n + (L + 1 - n)
        /\ \A i \in 1 .. n : q[i] = c[i]
        /\ \A i \in 1 .. L + 1 - n : q[n + i] = b[i]
    BY <1>3, <1>4, <2>1, <2>2, Joined
  <2>4. ASSUME NEW i \in n + 1 .. L + 1 PROVE q[i] = lock_list[i - 1]
    <3>1. i - n \in 1 .. L + 1 - n /\ n + (i - n) = i /\ n + (i - n) - 1 = i - 1
      BY <1>1
    <3>2. q[i] = b[i - n] /\ b[i - n] = lock_list[n + (i - n) - 1]
      BY <1>3, <2>3, <3>1
    <3> QED BY <3>1, <3>2
  <2>5. n \in 1 .. n /\ \A i \in 1 .. n - 1 : i \in 1 .. n
    BY <1>1
  <2> QED BY <1>4, <2>2, <2>3, <2>4, <2>5
<1> HIDE DEF q
<1>6. DOMAIN q = 1 .. L + 1 /\ q # <<>> /\ q[1] = lock_list[1]
  BY <1>1, <1>5
<1>7. \A i \in 1 .. L : lock_list[i] # l
  BY <1>1, ListFacts
<1>8. \A i, j \in 1 .. L : lock_list[i] = lock_list[j] => i = j
  BY ListFacts
<1>9. \A i, j \in 1 .. L + 1 : q[i] = q[j] => i = j
  <2> DEFINE from(i) == IF i < n THEN i ELSE i - 1
  <2>1. \A i \in 1 .. L + 1 : i # n => from(i) \in 1 .. L /\ q[i] = lock_list[from(i)]
    BY <1>1, <1>5
  <2>2. \A i, j \in 1 .. L + 1 : i # n /\ j # n /\ from(i) = from(j) => i = j
    BY <1>1
  <2> HIDE DEF from
  <2>3. \A i \in 1 .. L + 1 : i # n => q[i] # l
    BY <1>7, <2>1
  <2>4. \A i, j \in 1 .. L + 1 : i # n /\ j # n /\ q[i] = q[j] => i = j
    BY <1>8, <2>1, <2>2
  <2>5. q[n] = l
    BY <1>5
  <2> QED BY <2>3, <2>4, <2>5, Zenon
<1>10. Range(q) = Range(lock_list) \cup {l}
  <2>1. ASSUME NEW i \in 1 .. L PROVE lock_list[i] \in Range(q)
    <3>1. CASE i < n
      BY <1>1, <1>5, <1>6, <3>1 DEF Range
    <3>2. CASE i >= n
      <4>1. i + 1 \in n + 1 .. L + 1 /\ (i + 1) - 1 = i /\ i + 1 \in 1 .. L + 1
        BY <1>1, <3>2
      <4> QED BY <1>5, <1>6, <4>1 DEF Range
    <3> QED BY <1>1, <3>1, <3>2
  <2>2. l \in Range(q)
    BY <1>1, <1>5, <1>6 DEF Range
  <2>3. ASSUME NEW i \in 1 .. L + 1 PROVE q[i] \in Range(lock_list) \cup {l}
    <3>1. CASE i < n
      BY <1>1, <1>5, <3>1 DEF Range
    <3>2. CASE i > n
      BY <1>1, <1>5, <3>2 DEF Range
    <3> QED BY <1>1, <1>5, <3>1, <3>2
  <2>4. Range(lock_list) \subseteq Range(q)
    BY <1>1, <2>1 DEF Range
  <2>5. Range(q) \subseteq Range(lock_list) \cup {l}
    BY <1>6, <2>3 DEF Range
  <2> QED BY <2>2, <2>4, <2>5
<1> QED BY <1>5, <1>6, <1>9, <1>10 DEF Listed, Chain, q

LEMMA Erased ==
  ASSUME Chain, NEW m \in Nat, m >= 1, NEW r \in Nat, Len(lock_list) = m + 1 + r
  PROVE  /\ Listed(pj_list_erase(lock_list, m + 1))
         /\ Range(pj_list_erase(lock_list, m + 1)) = Range(lock_list) \ {lock_list[m + 1]}
<1> DEFINE q == pj_list_erase(lock_list, m + 1)
           a == SubSeq(lock_list, 1, m)
           b == SubSeq(lock_list, m + 2, m + 1 + r)
<1>1. lock_list \in Seq(Locks) /\ DOMAIN lock_list = 1 .. m + 1 + r
  BY ListFacts DEF Chain
<1>2. a \in Seq(Locks) /\ Len(a) = m /\ \A i \in 1 .. m : a[i] = lock_list[i]
  <2>1. 1 \in 1 .. Len(lock_list) + 1 /\ m \in 0 .. Len(lock_list) /\ 1 <= m + 1 /\ m + 1 - 1 = m
    OBVIOUS
  <2>2. \A i \in 1 .. m : 1 + i - 1 = i
    OBVIOUS
  <2> QED BY <1>1, <2>1, <2>2, Part
<1>3. b \in Seq(Locks) /\ Len(b) = r /\ \A i \in 1 .. r : b[i] = lock_list[m + 1 + i]
  <2>1. /\ m + 2 \in 1 .. Len(lock_list) + 1 /\ m + 1 + r \in 0 .. Len(lock_list)
        /\ m + 2 <= (m + 1 + r) + 1 /\ (m + 1 + r) + 1 - (m + 2) = r
    OBVIOUS
  <2>2. \A i \in 1 .. r : (m + 2) + i - 1 = m + 1 + i
    OBVIOUS
  <2> DEFINE from == m + 2
             to == m + 1 + r
  <2>3. from \in 1 .. Len(lock_list) + 1 /\ to \in 0 .. Len(lock_list) /\ from <= to + 1
    BY <2>1
  <2>4. b = SubSeq(lock_list, from, to)
    OBVIOUS
  <2> HIDE DEF b, from, to
  <2>5. /\ b \in Seq(Locks) /\ Len(b) = to + 1 - from
        /\ \A i \in 1 .. to + 1 - from : b[i] = lock_list[from + i - 1]
    BY <1>1, <2>3, <2>4, Part
  <2> QED BY <2>1, <2>2, <2>5 DEF from, to
<1> HIDE DEF a, b
<1>4. /\ q \in Seq(Locks) /\ Len(q) = m + r
      /\ \A i \in 1 .. m : q[i] = lock_list[i]
      /\ \A i \in 1 .. r : q[m + i] = lock_list[m + 1 + i]
  <2>1. q = a \o b
    <3>1. (m + 1) - 1 = m /\ (m + 1) + 1 = m + 2
      OBVIOUS
    <3> QED BY <3>1 DEF pj_list_erase, a, b
  <2> HIDE DEF q
  <2>2. /\ q \in Seq(Locks) /\ Len(q) = m + r
        /\ \A i \in 1 .. m : q[i] = a[i]
        /\ \A i \in 1 .. r : q[m + i] = b[i]
    <3>1. PICK x, y : x = a /\ y = b
      OBVIOUS
    <3>2. x \in Seq(Locks) /\ y \in Seq(Locks) /\ Len(x) = m /\ Len(y) = r
      BY <1>2, <1>3, <3>1
    <3>3. x \o y \in Seq(Locks) /\ Len(x \o y) = m + r
      BY <3>2
    <3>4. \A i \in 1 .. m : (x \o y)[i] = x[i]
      BY <3>2
    <3>5. \A i \in 1 .. r : (x \o y)[m + i] = y[i]
      BY <3>2
    <3> QED BY <2>1, <3>1, <3>3, <3>4, <3>5
  <2> QED BY <1>2, <1>3, <2>2
<1> HIDE DEF q
<1>5. DOMAIN q = 1 .. m + r /\ q # <<>> /\ q[1] = lock_list[1]
  BY <1>4
<1>6. \A i, j \in 1 .. m + 1 + r : lock_list[i] = lock_list[j] => i = j
  BY ListFacts
<1> DEFINE from(i) == IF i <= m THEN i ELSE i + 1
<1>7. ASSUME NEW i \in 1 .. m + r
      PROVE  from(i) \in 1 .. m + 1 + r /\ from(i) # m + 1 /\ q[i] = lock_list[from(i)]
  <2>1. CASE i <= m
    BY <1>4, <2>1
  <2>2. CASE i > m
    <3>1. i - m \in 1 .. r /\ m + (i - m) = i /\ m + 1 + (i - m) = i + 1
      BY <2>2
    <3>2. q[i] = lock_list[i + 1]
      BY <1>4, <3>1
    <3> QED BY <2>2, <3>2
  <2> QED BY <2>1, <2>2
<1>8. \A i, j \in 1 .. m + r : from(i) = from(j) => i = j
  OBVIOUS
<1>9. \A j \in 1 .. m + 1 + r : j # m + 1 => \E i \in 1 .. m + r : from(i) = j
  <2> TAKE j \in 1 .. m + 1 + r
  <2>1. CASE j <= m
    <3>1. j \in 1 .. m + r /\ from(j) = j
      BY <2>1
    <3> QED BY <3>1
  <2>2. CASE j > m + 1
    <3>1. j - 1 \in 1 .. m + r /\ from(j - 1) = j
      BY <2>2
    <3> QED BY <3>1
  <2> QED BY <2>1, <2>2
<1> HIDE DEF from
<1>10. \A i, j \in 1 .. m + r : q[i] = q[j] => i = j
  BY <1>6, <1>7, <1>8
<1>11. Range(q) = Range(lock_list) \ {lock_list[m + 1]}
  <2>1. ASSUME NEW j \in 1 .. m + 1 + r, j # m + 1 PROVE lock_list[j] \in Range(q)
    <3>1. PICK i \in 1 .. m + r : from(i) = j
      BY <1>9, <2>1
    <3>2. q[i] = lock_list[j] /\ i \in DOMAIN q
      BY <1>5, <1>7, <3>1
    <3> QED BY <3>2 DEF Range
  <2>2. ASSUME NEW i \in 1 .. m + r PROVE q[i] \in Range(lock_list) /\ q[i] # lock_list[m + 1]
    <3>1. m + 1 \in 1 .. m + 1 + r
      OBVIOUS
    <3>2. lock_list[from(i)] \in Range(lock_list) /\ lock_list[from(i)] # lock_list[m + 1]
      BY <1>1, <1>6, <1>7, <3>1, Zenon DEF Range
    <3> QED BY <1>7, <3>2
  <2>3. Range(lock_list) \ {lock_list[m + 1]} \subseteq Range(q)
    BY <1>1, <2>1 DEF Range
  <2>4. Range(q) \subseteq Range(lock_list) \ {lock_list[m + 1]}
    BY <1>5, <2>2 DEF Range
  <2> QED BY <2>3, <2>4
<1> QED BY <1>4, <1>5, <1>10, <1>11 DEF Listed, Chain, q
=============================================================================
