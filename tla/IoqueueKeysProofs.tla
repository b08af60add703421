-------------------------- MODULE IoqueueKeysProofs --------------------------
(* Proofs about the life of the ioqueue's keys, for any keys, threads, group *)
(* locks and bounds, and, but for the references on group locks, also for    *)
(* threads slower than the free delay.                                       *)
EXTENDS IoqueueKeys, FiniteSetTheorems, TLAPS

(* A thread between the two halves of an unregistration is the only one      *)
(* there for its key, which is still in the active list and closing.         *)
DrainsAlone ==
  \A t \in Threads :
    /\ at[t].in = "drain" => /\ at[t].key \in Keys
                             /\ where[at[t].key] = "active" /\ closing[at[t].key]
                             /\ \A u \in Threads \ {t} : at[u].in = "drain" => at[u].key # at[t].key
    /\ at[t].in = "drop" => at[t].key \in Keys

(* The inductive invariant: a counter is exact only while the events it      *)
(* counts are of this registration and its one unregistering thread is known. *)
IInv == /\ TypeOK /\ IsFiniteSet(events) /\ DrainsAlone
        /\ RefCountExact /\ EventsOfLiveKeys /\ ClosingKeysClose

(* The events of a key are finitely many. *)
LEMMA EventsCounted ==
  ASSUME IsFiniteSet(events), NEW k
  PROVE  /\ IsFiniteSet(EventsOf(k)) /\ Cardinality(EventsOf(k)) \in Nat
         /\ Cardinality(EventsOf(k)) = 0 <=> EventsOf(k) = {}
<1>1. EventsOf(k) \in SUBSET events
  BY DEF EventsOf
<1>2. IsFiniteSet(EventsOf(k))
  BY <1>1, FS_Subset
<1>3. QED
  BY <1>2, FS_CardinalityType, FS_EmptySet

(* A poll finds finitely many events. *)
LEMMA EventsForFinite == ASSUME NEW t PROVE IsFiniteSet(EventsFor(t))
<1> DEFINE P == Keys \X Types
           f == [p \in P |-> [thr |-> t, key |-> p[1], type |-> p[2], reg |-> reg[p[1]], grp |-> grp_lock[p[1]]]]
           R == {f[p] : p \in P}
<1>1. IsFiniteSet(Types)
  <2>1. Types = ({} \cup {"R"}) \cup {"W"} \cup {"X"}
    BY DEF Types
  <2>2. QED
    BY <2>1, FS_EmptySet, FS_AddElement
<1>2. IsFiniteSet(P)
  BY <1>1, KeysAssumption, FS_Product
<1>3. f \in Surjection(P, R)
  BY DEF Surjection
<1>4. IsFiniteSet(R)
  <2> HIDE DEF P, f, R
  <2> QED
    BY <1>2, <1>3, FS_Surjection
<1>5. EventsFor(t) \in SUBSET R
  <2> SUFFICES ASSUME NEW e \in EventsFor(t) PROVE e \in R
    OBVIOUS
  <2>1. PICK k \in Keys, y \in Types :
          e = [thr |-> t, key |-> k, type |-> y, reg |-> reg[k], grp |-> grp_lock[k]]
    BY DEF EventsFor
  <2>2. <<k, y>> \in P /\ f[<<k, y>>] = e
    BY <2>1
  <2>3. QED
    BY <2>2
<1>6. QED
  BY <1>4, <1>5, FS_Subset

(* A key outside the active list has no references. *)
LEMMA InactiveUnused ==
  ASSUME IInv, NEW k \in Keys, where[k] # "active"
  PROVE  EventsOf(k) = {} /\ ref_count[k] = 0
<1>1. EventsOf(k) = {} /\ ~Own(k)
  BY DEF IInv, EventsOfLiveKeys, EventsOf, Own
<1>2. QED
  BY <1>1, FS_EmptySet DEF IInv, RefCountExact

LEMMA InitIInv == Init => IInv
<1> SUFFICES ASSUME Init PROVE IInv
  OBVIOUS
<1>1. TypeOK
  BY KeysAssumption DEF Init, TypeOK, At, Idle
<1>2. IsFiniteSet(events) /\ DrainsAlone /\ EventsOfLiveKeys /\ ClosingKeysClose
  BY FS_EmptySet DEF Init, DrainsAlone, Idle, EventsOfLiveKeys, ClosingKeysClose
<1>3. \A k \in Keys : EventsOf(k) = {} /\ ~Own(k)
  BY DEF Init, EventsOf, Own
<1>4. RefCountExact
  BY <1>3, FS_EmptySet DEF Init, RefCountExact
<1>5. QED
  BY <1>1, <1>2, <1>4 DEF IInv

(* Registration takes a key nobody refers to, whatever comes back with it. *)
LEMMA RegisterStep ==
  ASSUME IInv, NEW t \in Threads, NEW k \in Keys, NEW g \in Groups \cup {NULL},
         pj_ioqueue_register_sock2(t, k, g)
  PROVE  IInv'
<1>1. where[k] # "active" /\ where'[k] = "active" /\ ~closing'[k]
  BY DEF pj_ioqueue_register_sock2, scan_closing_keys, IInv, TypeOK
<1>2. EventsOf(k) = {} /\ ref_count[k] = 0
  BY <1>1, InactiveUnused
<1>3. \A j \in Keys \ {k} : /\ where'[j] = "active" <=> where[j] = "active"
                            /\ where'[j] = "closing" => where[j] = "closing"
                            /\ closing'[j] = closing[j] /\ reg'[j] = reg[j] /\ ref_count'[j] = ref_count[j]
  BY DEF pj_ioqueue_register_sock2, scan_closing_keys, IInv, TypeOK
<1>4. ref_count'[k] = 1 /\ events' = events /\ at' = at
  BY <1>2 DEF pj_ioqueue_register_sock2, IInv, TypeOK
<1>5. TypeOK'
  <2>1. refs' \in [Groups -> Int]
    BY DEF pj_ioqueue_register_sock2, add_ref, IInv, TypeOK
  <2>2. where' \in [Keys -> {"free", "active", "closing"}]
    BY DEF pj_ioqueue_register_sock2, scan_closing_keys, IInv, TypeOK
  <2>3. regs' \in 0 .. MaxRegs /\ reg' \in [Keys -> 0 .. MaxRegs]
    BY KeysAssumption DEF pj_ioqueue_register_sock2, IInv, TypeOK
  <2>4. QED
    BY <2>1, <2>2, <2>3 DEF pj_ioqueue_register_sock2, IInv, TypeOK
<1>6. DrainsAlone'
  BY <1>1, <1>3, <1>4 DEF IInv, DrainsAlone
<1>7. EventsOfLiveKeys'
  BY <1>2, <1>3, <1>4 DEF IInv, EventsOfLiveKeys, EventsOf, TypeOK, Event
<1>8. RefCountExact'
  <2> SUFFICES ASSUME NEW j \in Keys
               PROVE  ref_count'[j] = Cardinality(EventsOf(j)') + IF Own(j)' THEN 1 ELSE 0
    BY DEF RefCountExact
  <2>1. EventsOf(j)' = EventsOf(j) /\ Draining(j)' = Draining(j)
    BY <1>4 DEF EventsOf, Draining
  <2>2. CASE j = k
    BY <2>1, <2>2, <1>1, <1>2, <1>4, FS_EmptySet DEF Own
  <2>3. CASE j # k
    BY <2>1, <2>3, <1>3 DEF Own, IInv, RefCountExact
  <2>4. QED
    BY <2>2, <2>3
<1>9. ClosingKeysClose'
  BY <1>1, <1>3, <1>4 DEF IInv, ClosingKeysClose
<1>10. QED
  BY <1>4, <1>5, <1>6, <1>7, <1>8, <1>9 DEF IInv

(* Keys that come back to the free list, by a scan alone or by a failed      *)
(* registration, have no references.                                         *)
LEMMA ScanStep ==
  ASSUME IInv,
         \/ \E t \in Threads : PollIdle(t)
         \/ \E t \in Threads, k \in Keys : RegisterFails(t, k)
  PROVE  IInv'
<1>1. \A j \in Keys : /\ where'[j] = "active" <=> where[j] = "active"
                      /\ where'[j] = "closing" => where[j] = "closing" /\ closing'[j] = closing[j]
                      /\ where'[j] = "active" => closing'[j] = closing[j]
                      /\ where'[j] \in {"free", "active", "closing"}
                      /\ reg'[j] = reg[j]
  BY DEF PollIdle, RegisterFails, scan_closing_keys, IInv, TypeOK
<1>2. \A j \in Keys : ref_count'[j] = ref_count[j]
  <2>1. ASSUME NEW t \in Threads, NEW k \in Keys, RegisterFails(t, k) PROVE ref_count[k] = 0
    <3>1. where[k] # "active"
      BY <2>1 DEF RegisterFails, scan_closing_keys
    <3>2. QED
      BY <3>1, InactiveUnused
  <2>2. QED
    BY <2>1 DEF PollIdle, RegisterFails, IInv, TypeOK
<1>3. events' = events /\ at' = at
  BY DEF PollIdle, RegisterFails
<1>4. TypeOK'
  <2>1. CASE \E t \in Threads : PollIdle(t)
    <3>1. where' \in [Keys -> {"free", "active", "closing"}]
      BY <2>1, <1>1 DEF PollIdle
    <3>2. QED
      BY <2>1, <3>1 DEF PollIdle, IInv, TypeOK
  <2>2. ASSUME NEW t \in Threads, NEW k \in Keys, RegisterFails(t, k) PROVE TypeOK'
    <3>1. where' \in [Keys -> {"free", "active", "closing"}]
      BY <2>2, <1>1 DEF RegisterFails
    <3>2. QED
      BY <2>2, <3>1 DEF RegisterFails, IInv, TypeOK
  <2>3. QED
    BY <2>1, <2>2
<1>5. DrainsAlone' /\ EventsOfLiveKeys'
  BY <1>1, <1>3 DEF IInv, DrainsAlone, EventsOfLiveKeys, TypeOK, Event
<1>6. RefCountExact'
  <2>1. \A j \in Keys : EventsOf(j)' = EventsOf(j) /\ Draining(j)' = Draining(j)
    BY <1>3 DEF EventsOf, Draining
  <2>2. \A j \in Keys : Own(j)' = Own(j)
    BY <2>1, <1>1 DEF Own
  <2>3. QED
    BY <2>1, <2>2, <1>2 DEF IInv, RefCountExact
<1>7. ClosingKeysClose'
  BY <1>1, <1>2 DEF IInv, ClosingKeysClose
<1>8. QED
  BY <1>3, <1>4, <1>5, <1>6, <1>7 DEF IInv

(* Unregistration moves the registration's reference to the thread that      *)
(* drains; nobody else can be draining the key.                              *)
LEMMA UnregisterStep ==
  ASSUME IInv, NEW t \in Threads, NEW k \in Keys, pj_ioqueue_unregister(t, k)
  PROVE  IInv'
<1> USE DEF pj_ioqueue_unregister, MayCall, MayUnregister, Idle
<1>1. TypeOK'
  BY DEF IInv, TypeOK, At
<1>2. DrainsAlone'
  BY DEF IInv, DrainsAlone, TypeOK, At
<1>3. EventsOfLiveKeys' /\ ClosingKeysClose' /\ IsFiniteSet(events')
  BY DEF IInv, EventsOfLiveKeys, ClosingKeysClose, TypeOK
<1>4. RefCountExact'
  <2> SUFFICES ASSUME NEW j \in Keys
               PROVE  ref_count'[j] = Cardinality(EventsOf(j)') + IF Own(j)' THEN 1 ELSE 0
    BY DEF RefCountExact
  <2>1. EventsOf(j)' = EventsOf(j) /\ ref_count'[j] = ref_count[j]
    BY DEF EventsOf
  <2>2. Own(j)' = Own(j)
    <3>1. CASE j = k
      <4>1. t \in Draining(j)'
        BY <3>1 DEF Draining, IInv, TypeOK
      <4>2. QED
        BY <3>1, <4>1 DEF Own
    <3>2. CASE j # k
      <4>1. Draining(j)' = Draining(j)
        BY <3>2 DEF Draining, IInv, TypeOK
      <4>2. closing'[j] = closing[j]
        BY <3>2 DEF IInv, TypeOK
      <4>3. QED
        BY <4>1, <4>2 DEF Own
    <3>3. QED
      BY <3>1, <3>2
  <2>3. QED
    BY <2>1, <2>2 DEF IInv, RefCountExact
<1>5. QED
  BY <1>1, <1>2, <1>3, <1>4 DEF IInv

(* What giving back a reference does to the keys' lists and counters. *)
LEMMA DecrementFacts ==
  ASSUME TypeOK, NEW k \in Keys, decrement_counter(k)
  PROVE  /\ ref_count'[k] = ref_count[k] - 1
         /\ where'[k] = IF ref_count[k] = 1 THEN "closing" ELSE where[k]
         /\ \A j \in Keys \ {k} : ref_count'[j] = ref_count[j] /\ where'[j] = where[j]
         /\ where' \in [Keys -> {"free", "active", "closing"}]
         /\ closing' = closing /\ reg' = reg /\ grp_lock' = grp_lock /\ regs' = regs
         /\ count' = count /\ due' = due /\ refs' = refs
  BY DEF decrement_counter, LastReference, TypeOK

(* Unregistration gives back the registration's reference: unless it is the  *)
(* last, the remaining ones are exactly the events still to be dispatched.   *)
LEMMA UnregisterDecrementStep ==
  ASSUME IInv, NEW t \in Threads, UnregisterDecrement(t)
  PROVE  IInv'
<1>1. PICK k \in Keys :
        /\ k = at[t].key /\ where[k] = "active" /\ closing[k] /\ at[t].in = "drain"
        /\ \A u \in Threads \ {t} : at[u].in = "drain" => at[u].key # k
  BY DEF UnregisterDecrement, IInv, DrainsAlone
<1>2. decrement_counter(k) /\ events' = events
  BY <1>1 DEF UnregisterDecrement
<1>3. /\ at' \in [Threads -> At] /\ at'[t].in = "drop" /\ at'[t].key = k
      /\ \A u \in Threads \ {t} : at'[u] = at[u]
  BY <1>1 DEF UnregisterDecrement, IInv, TypeOK, At
<1> DEFINE n == Cardinality(EventsOf(k))
<1>4. n \in Nat /\ (n = 0 <=> EventsOf(k) = {}) /\ ref_count[k] = n + 1
  <2>1. t \in Draining(k)
    BY <1>1 DEF Draining
  <2>2. Own(k)
    BY <1>1, <2>1 DEF Own
  <2>3. QED
    BY <1>1, <2>2, EventsCounted DEF IInv, RefCountExact
<1>5. TypeOK'
  <2>1. ref_count' \in [Keys -> Nat]
    BY <1>1, <1>2, <1>4 DEF decrement_counter, IInv, TypeOK
  <2>2. QED
    BY <1>1, <1>2, <1>3, <2>1, DecrementFacts DEF IInv, TypeOK
<1> HIDE DEF n
<1>6. /\ ref_count'[k] = n /\ where'[k] = (IF n = 0 THEN "closing" ELSE "active")
      /\ \A j \in Keys \ {k} : ref_count'[j] = ref_count[j] /\ where'[j] = where[j]
      /\ closing' = closing /\ reg' = reg
  BY <1>1, <1>2, <1>4, DecrementFacts DEF IInv
<1>7. DrainsAlone'
  <2> SUFFICES ASSUME NEW u \in Threads
               PROVE  /\ at'[u].in = "drain" => /\ at'[u].key \in Keys
                               /\ where'[at'[u].key] = "active" /\ closing'[at'[u].key]
                               /\ \A v \in Threads \ {u} : at'[v].in = "drain" => at'[v].key # at'[u].key
                      /\ at'[u].in = "drop" => at'[u].key \in Keys
    BY DEF DrainsAlone
  <2>1. CASE u = t
    BY <2>1, <1>1, <1>3 DEF IInv, TypeOK
  <2>2. CASE u # t
    BY <2>2, <1>1, <1>3, <1>6 DEF IInv, TypeOK, DrainsAlone
  <2>3. QED
    BY <2>1, <2>2
<1>8. EventsOfLiveKeys'
  BY <1>1, <1>2, <1>4, <1>6 DEF IInv, EventsOfLiveKeys, EventsOf, TypeOK, Event
<1>9. RefCountExact'
  <2> SUFFICES ASSUME NEW j \in Keys
               PROVE  ref_count'[j] = Cardinality(EventsOf(j)') + IF Own(j)' THEN 1 ELSE 0
    BY DEF RefCountExact
  <2>1. EventsOf(j)' = EventsOf(j)
    BY <1>2 DEF EventsOf
  <2>2. CASE j = k
    <3>1. Draining(k)' = {}
      BY <1>1, <1>3 DEF Draining
    <3>2. ~Own(k)'
      BY <3>1, <1>1, <1>6 DEF Own
    <3>3. QED
      BY <2>1, <2>2, <3>2, <1>4, <1>6 DEF n
  <2>3. CASE j # k
    <3>1. Draining(j)' = Draining(j)
      BY <2>3, <1>1, <1>3 DEF Draining
    <3>2. Own(j)' = Own(j)
      BY <2>3, <3>1, <1>6 DEF Own
    <3>3. QED
      BY <2>1, <2>3, <3>2, <1>6 DEF IInv, RefCountExact
  <2>4. QED
    BY <2>2, <2>3
<1>10. ClosingKeysClose'
  BY <1>1, <1>4, <1>6 DEF IInv, ClosingKeysClose
<1>11. QED
  BY <1>2, <1>5, <1>7, <1>8, <1>9, <1>10 DEF IInv

(* A dispatched event gives back its reference.  If that was the last one,   *)
(* the registration's is gone too, so the key is closing.                    *)
LEMMA PollDecrementStep ==
  ASSUME IInv, NEW t \in Threads, NEW e \in events, PollDecrement(t, e)
  PROVE  IInv'
<1> DEFINE k == e.key
           n == Cardinality(EventsOf(k))
<1>1. k \in Keys /\ where[k] = "active" /\ e.grp \in Groups \cup {NULL}
  BY DEF IInv, TypeOK, Event, EventsOfLiveKeys
<1>2. decrement_counter(k) /\ events' = events \ {e} /\ at[t].in = "idle"
  BY DEF PollDecrement, Idle
<1>3. at' = [at EXCEPT ![t] = [in |-> "drop", key |-> k, grp |-> e.grp]]
  BY DEF PollDecrement
<1>4. /\ n \in Nat /\ n > 0 /\ EventsOf(k)' = EventsOf(k) \ {e} /\ Cardinality(EventsOf(k)') = n - 1
      /\ IsFiniteSet(EventsOf(k)')
  <2>1. e \in EventsOf(k) /\ EventsOf(k)' = EventsOf(k) \ {e}
    BY <1>2 DEF EventsOf
  <2>2. IsFiniteSet(EventsOf(k)) /\ n \in Nat /\ n # 0
    BY <2>1, EventsCounted DEF IInv
  <2>3. QED
    BY <2>1, <2>2, FS_RemoveElement
<1>5. ref_count[k] = n + IF Own(k) THEN 1 ELSE 0
  BY <1>1 DEF IInv, RefCountExact
<1>6. TypeOK'
  <2>1. ref_count' \in [Keys -> Nat]
    BY <1>1, <1>2, <1>4, <1>5 DEF decrement_counter, IInv, TypeOK
  <2>2. at' \in [Threads -> At]
    BY <1>1, <1>3 DEF IInv, TypeOK, At
  <2>3. QED
    BY <1>1, <1>2, <2>1, <2>2, DecrementFacts DEF IInv, TypeOK
<1> HIDE DEF k, n
<1>7. /\ ref_count'[k] = ref_count[k] - 1
      /\ where'[k] = (IF ref_count[k] = 1 THEN "closing" ELSE "active")
      /\ \A j \in Keys \ {k} : ref_count'[j] = ref_count[j] /\ where'[j] = where[j]
      /\ closing' = closing /\ reg' = reg
  BY <1>1, <1>2, DecrementFacts DEF IInv
<1>8. ref_count[k] = 1 => n = 1 /\ ~Own(k) /\ closing[k] /\ Draining(k) = {} /\ EventsOf(k)' = {}
  <2> HAVE ref_count[k] = 1
  <2>1. n = 1 /\ ~Own(k)
    BY <1>4, <1>5
  <2>2. closing[k] /\ Draining(k) = {}
    BY <2>1, <1>1 DEF Own
  <2>3. Cardinality(EventsOf(k)') = 0
    BY <2>1, <1>4
  <2>4. QED
    BY <2>1, <2>2, <2>3, <1>4, FS_EmptySet
<1>9. DrainsAlone'
  <2> SUFFICES ASSUME NEW u \in Threads
               PROVE  /\ at'[u].in = "drain" => /\ at'[u].key \in Keys
                               /\ where'[at'[u].key] = "active" /\ closing'[at'[u].key]
                               /\ \A v \in Threads \ {u} : at'[v].in = "drain" => at'[v].key # at'[u].key
                      /\ at'[u].in = "drop" => at'[u].key \in Keys
    BY DEF DrainsAlone
  <2>1. CASE u = t
    BY <2>1, <1>1, <1>3 DEF IInv, TypeOK
  <2>2. CASE u # t
    <3>1. at'[u] = at[u] /\ \A v \in Threads : at'[v].in = "drain" => at'[v] = at[v]
      BY <2>2, <1>3 DEF IInv, TypeOK
    <3>2. ASSUME at[u].in = "drain", at[u].key = k PROVE where'[k] = "active"
      BY <3>2, <1>7, <1>8 DEF Draining
    <3>3. /\ at[u].in = "drain" =>
               /\ at[u].key \in Keys /\ where[at[u].key] = "active" /\ closing[at[u].key]
               /\ \A v \in Threads \ {u} : at[v].in = "drain" => at[v].key # at[u].key
          /\ at[u].in = "drop" => at[u].key \in Keys
      BY DEF IInv, DrainsAlone
    <3>4. at[u].in = "drain" => where'[at[u].key] = "active"
      BY <3>2, <3>3, <1>7
    <3>5. QED
      BY <3>1, <3>3, <3>4, <1>7
  <2>3. QED
    BY <2>1, <2>2
<1>10. EventsOfLiveKeys'
  <2> SUFFICES ASSUME NEW d \in events' PROVE where'[d.key] = "active" /\ reg'[d.key] = d.reg
    BY DEF EventsOfLiveKeys
  <2>1. d \in events /\ d.key \in Keys /\ where[d.key] = "active" /\ reg[d.key] = d.reg
    BY <1>2 DEF IInv, EventsOfLiveKeys, TypeOK, Event
  <2>2. CASE d.key = k
    <3>1. d \in EventsOf(k)'
      BY <2>2 DEF EventsOf
    <3>2. QED
      BY <3>1, <2>1, <2>2, <1>7, <1>8
  <2>3. CASE d.key # k
    BY <2>1, <2>3, <1>7
  <2>4. QED
    BY <2>2, <2>3
<1>11. RefCountExact'
  <2> SUFFICES ASSUME NEW j \in Keys
               PROVE  ref_count'[j] = Cardinality(EventsOf(j)') + IF Own(j)' THEN 1 ELSE 0
    BY DEF RefCountExact
  <2>1. Draining(j)' = Draining(j)
    BY <1>2, <1>3 DEF Draining, IInv, TypeOK
  <2>2. CASE j = k
    <3>1. Own(k)' = Own(k)
      BY <2>1, <2>2, <1>1, <1>7, <1>8 DEF Own
    <3>2. QED
      BY <2>2, <3>1, <1>4, <1>5, <1>7
  <2>3. CASE j # k
    <3>1. EventsOf(j)' = EventsOf(j)
      BY <2>3, <1>2 DEF EventsOf, k
    <3>2. Own(j)' = Own(j)
      BY <2>1, <2>3, <1>7 DEF Own
    <3>3. QED
      BY <2>3, <3>1, <3>2, <1>7 DEF IInv, RefCountExact
  <2>4. QED
    BY <2>2, <2>3
<1>12. ClosingKeysClose'
  <2>1. ref_count[k] # 1 => ref_count'[k] > 0
    BY <1>1, <1>7, <1>4, <1>5
  <2>2. QED
    BY <2>1, <1>1, <1>7, <1>8 DEF IInv, ClosingKeysClose
<1>13. IsFiniteSet(events')
  BY <1>2, FS_RemoveElement DEF IInv
<1>14. QED
  BY <1>6, <1>9, <1>10, <1>11, <1>12, <1>13 DEF IInv

(* A poll takes one reference for each event it collects, and collects none  *)
(* of a closing key.                                                         *)
LEMMA PollScanStep ==
  ASSUME IInv, NEW t \in Threads, PollScan(t)
  PROVE  IInv'
<1>1. PICK S \in SUBSET EventsFor(t) :
        /\ events' = events \cup S
        /\ ref_count' = [k \in Keys |-> ref_count[k] + Cardinality({e \in S : e.key = k})]
        /\ refs' = [g \in Groups |-> refs[g] + Cardinality({e \in S : e.grp = g})]
  BY DEF PollScan
<1>2. UNCHANGED <<where, closing, grp_lock, reg, regs, count, due, at>> /\ \A e \in events : e.thr # t
  BY DEF PollScan, Resting
<1>3. \A e \in S : /\ e \in Event /\ e.thr = t /\ where[e.key] = "active" /\ reg[e.key] = e.reg
  <2> SUFFICES ASSUME NEW e \in S
               PROVE  e \in Event /\ e.thr = t /\ where[e.key] = "active" /\ reg[e.key] = e.reg
    OBVIOUS
  <2>1. PICK k \in Keys, y \in Types :
          /\ Collectable(k)
          /\ e = [thr |-> t, key |-> k, type |-> y, reg |-> reg[k], grp |-> grp_lock[k]]
    BY DEF EventsFor
  <2>2. QED
    BY <2>1 DEF Collectable, Event, IInv, TypeOK
<1>4. IsFiniteSet(S) /\ events \cap S = {}
  BY <1>2, <1>3, EventsForFinite, FS_Subset
<1>5. /\ \A k : IsFiniteSet({e \in S : e.key = k}) /\ Cardinality({e \in S : e.key = k}) \in Nat
      /\ \A g : Cardinality({e \in S : e.grp = g}) \in Nat
  <2>1. \A k : {e \in S : e.key = k} \in SUBSET S /\ {e \in S : e.grp = k} \in SUBSET S
    OBVIOUS
  <2>2. QED
    BY <1>4, <2>1, FS_Subset, FS_CardinalityType
<1>6. /\ ref_count' \in [Keys -> Nat] /\ refs' \in [Groups -> Int]
      /\ \A k \in Keys : ref_count[k] > 0 => ref_count'[k] > 0
  <2> DEFINE KeyN(k) == Cardinality({e \in S : e.key = k})
             GrpN(g) == Cardinality({e \in S : e.grp = g})
  <2>1. \A k : KeyN(k) \in Nat /\ GrpN(k) \in Nat
    BY <1>5
  <2>2. /\ ref_count' = [k \in Keys |-> ref_count[k] + KeyN(k)]
        /\ refs' = [g \in Groups |-> refs[g] + GrpN(g)]
    BY <1>1
  <2> HIDE DEF KeyN, GrpN
  <2>3. ref_count \in [Keys -> Nat] /\ refs \in [Groups -> Int]
    BY DEF IInv, TypeOK
  <2>4. QED
    BY <2>1, <2>2, <2>3
<1>6a. TypeOK'
  <2>1. ref_count' \in [Keys -> Nat] /\ refs' \in [Groups -> Int]
    BY <1>6
  <2>2. events' \subseteq Event
    BY <1>1, <1>3 DEF IInv, TypeOK
  <2>3. QED
    BY <1>2, <2>1, <2>2 DEF IInv, TypeOK
<1>7. IsFiniteSet(events')
  BY <1>1, <1>4, FS_Union DEF IInv
<1>8. DrainsAlone' /\ EventsOfLiveKeys'
  BY <1>1, <1>2, <1>3 DEF IInv, DrainsAlone, EventsOfLiveKeys
<1>9. RefCountExact'
  <2> SUFFICES ASSUME NEW j \in Keys
               PROVE  ref_count'[j] = Cardinality(EventsOf(j)') + IF Own(j)' THEN 1 ELSE 0
    BY DEF RefCountExact
  <2> DEFINE A == EventsOf(j)
             B == {e \in S : e.key = j}
  <2>1. EventsOf(j)' = A \cup B /\ A \cap B = {}
    BY <1>1, <1>4 DEF EventsOf
  <2>2. IsFiniteSet(A) /\ Cardinality(A) \in Nat
    BY EventsCounted DEF IInv
  <2>3. IsFiniteSet(B) /\ Cardinality(B) \in Nat /\ ref_count'[j] = ref_count[j] + Cardinality(B)
    BY <1>1, <1>5
  <2>4. Own(j)' = Own(j)
    BY <1>2 DEF Own, Draining
  <2>5. ref_count[j] = Cardinality(A) + IF Own(j) THEN 1 ELSE 0
    BY DEF IInv, RefCountExact
  <2> HIDE DEF A, B
  <2>6. Cardinality(A \cup B) = Cardinality(A) + Cardinality(B)
    <3>1. Cardinality(A \cup B) = Cardinality(A) + Cardinality(B) - Cardinality(A \cap B)
      BY <2>2, <2>3, FS_Union
    <3>2. Cardinality(A \cap B) = 0
      BY <2>1, FS_EmptySet
    <3>3. QED
      BY <3>1, <3>2, <2>2, <2>3
  <2>7. Cardinality(EventsOf(j)') = Cardinality(A) + Cardinality(B)
    BY <2>1, <2>6
  <2>8. ref_count'[j] = Cardinality(A) + Cardinality(B) + IF Own(j) THEN 1 ELSE 0
    BY <2>2, <2>3, <2>5
  <2>9. QED
    BY <2>4, <2>7, <2>8
<1>10. ClosingKeysClose'
  BY <1>2, <1>6 DEF IInv, ClosingKeysClose
<1>11. QED
  BY <1>6a, <1>7, <1>8, <1>9, <1>10 DEF IInv

(* Steps that leave the keys alone. *)
LEMMA OtherSteps ==
  ASSUME IInv, \/ \E t \in Threads : DropGroupRef(t)
               \/ \E k \in Keys : FreeTime(k)
               \/ UNCHANGED vars
  PROVE  IInv'
<1>1. UNCHANGED <<where, ref_count, closing, grp_lock, reg, regs, count, events>>
  BY DEF DropGroupRef, FreeTime, vars
<1>2. \A u \in Threads : at'[u].in # "idle" => at'[u] = at[u]
  BY DEF DropGroupRef, FreeTime, vars, Idle, IInv, TypeOK
<1>3. \A u \in Threads : at[u].in = "drain" => at'[u] = at[u]
  BY DEF DropGroupRef, FreeTime, vars, Idle, IInv, TypeOK
<1>4. TypeOK'
  <2>1. ASSUME NEW t \in Threads, DropGroupRef(t) PROVE TypeOK'
    <3>1. at' \in [Threads -> At]
      BY <2>1 DEF DropGroupRef, Idle, At, IInv, TypeOK
    <3>2. refs' \in [Groups -> Int]
      <4>1. at[t].key \in Keys
        BY <2>1 DEF DropGroupRef, IInv, DrainsAlone
      <4>2. PICK g \in Groups \cup {NULL} : refs' = add_ref(g, -1)
        BY <2>1, <4>1 DEF DropGroupRef, IInv, TypeOK
      <4>3. QED
        BY <4>2 DEF add_ref, IInv, TypeOK
    <3>3. QED
      BY <2>1, <3>1, <3>2 DEF DropGroupRef, IInv, TypeOK
  <2>2. CASE \E k \in Keys : FreeTime(k)
    BY <2>2 DEF FreeTime, IInv, TypeOK
  <2>3. CASE UNCHANGED vars
    BY <2>3 DEF vars, IInv, TypeOK
  <2>4. QED
    BY <2>1, <2>2, <2>3
<1>5. DrainsAlone'
  BY <1>1, <1>2 DEF IInv, DrainsAlone
<1>6. \A k \in Keys : Draining(k)' = Draining(k) /\ EventsOf(k)' = EventsOf(k)
  BY <1>1, <1>2, <1>3 DEF Draining, EventsOf
<1>7. RefCountExact'
  BY <1>1, <1>6 DEF IInv, RefCountExact, Own
<1>8. QED
  BY <1>1, <1>4, <1>5, <1>7 DEF IInv, EventsOfLiveKeys, ClosingKeysClose

(* The strengthened invariant is kept by every step of the ioqueue. *)
LEMMA NextIInv == IInv /\ [Next]_vars => IInv'
<1> SUFFICES ASSUME IInv, [Next]_vars PROVE IInv'
  OBVIOUS
<1>1. ASSUME NEW t \in Threads, NEW k \in Keys, NEW g \in Groups \cup {NULL},
             pj_ioqueue_register_sock2(t, k, g)
      PROVE  IInv'
  BY <1>1, RegisterStep
<1>2. ASSUME NEW t \in Threads, NEW k \in Keys, pj_ioqueue_unregister(t, k) PROVE IInv'
  BY <1>2, UnregisterStep
<1>3. ASSUME NEW t \in Threads, UnregisterDecrement(t) PROVE IInv'
  BY <1>3, UnregisterDecrementStep
<1>4. ASSUME NEW t \in Threads, NEW e \in events, PollDecrement(t, e) PROVE IInv'
  BY <1>4, PollDecrementStep
<1>5. ASSUME NEW t \in Threads, PollScan(t) PROVE IInv'
  BY <1>5, PollScanStep
<1>6. QED
  BY <1>1, <1>2, <1>3, <1>4, <1>5, ScanStep, OtherSteps DEF Next, Finish

(* Registration, polling and unregistration keep every field of the keys in  *)
(* its range; in particular no reference count goes below zero.              *)
THEOREM TypeCorrect == Spec => []TypeOK
<1>1. IInv => TypeOK
  BY DEF IInv
<1>2. QED
  BY <1>1, InitIInv, NextIInv, PTL DEF Spec

(* increment_counter and decrement_counter are balanced: one reference for   *)
(* the registration, until its unregistration gives it back, and one for     *)
(* each event a poll collected and has not dispatched.                       *)
THEOREM RefCountsExact == Spec => []RefCountExact
<1>1. IInv => RefCountExact
  BY DEF IInv
<1>2. QED
  BY <1>1, InitIInv, NextIInv, PTL DEF Spec

(* A poll never dispatches an event to a key that was recycled meanwhile,    *)
(* however slow its thread is.                                               *)
THEOREM NoRecycledKeyDispatched == Spec => []EventsOfLiveKeys
<1>1. IInv => EventsOfLiveKeys
  BY DEF IInv
<1>2. QED
  BY <1>1, InitIInv, NextIInv, PTL DEF Spec

(* The assertions of decrement_counter and scan_closing_keys hold. *)
THEOREM ClosingAssertionsHold == Spec => []ClosingKeysClose
<1>1. IInv => ClosingKeysClose
  BY DEF IInv
<1>2. QED
  BY <1>1, InitIInv, NextIInv, PTL DEF Spec

(* ioqueue->count is the number of registered keys: registration refuses a   *)
(* full ioqueue only, and the branch of unregistration for a count that      *)
(* would go negative is never taken.                                         *)
THEOREM CountsExact == Spec => []CountExact
<1>1. Init => CountExact
  <2> SUFFICES ASSUME Init PROVE CountExact
    OBVIOUS
  <2>1. Registered = {}
    BY DEF Init, Registered
  <2>2. QED
    BY <2>1, FS_EmptySet DEF Init, CountExact
<1>2. IInv /\ CountExact /\ [Next]_vars => CountExact'
  <2> SUFFICES ASSUME IInv, CountExact, [Next]_vars PROVE CountExact'
    OBVIOUS
  <2>0. IsFiniteSet(Registered) /\ Cardinality(Registered) \in Nat
    <3>1. Registered \in SUBSET Keys
      BY DEF Registered
    <3>2. QED
      BY <3>1, KeysAssumption, FS_Subset, FS_CardinalityType
  <2>1. ASSUME NEW t \in Threads, NEW k \in Keys, NEW g \in Groups \cup {NULL},
               pj_ioqueue_register_sock2(t, k, g)
        PROVE  CountExact'
    <3>1. Registered' = Registered \cup {k} /\ k \notin Registered
      BY <2>1 DEF pj_ioqueue_register_sock2, scan_closing_keys, Registered, IInv, TypeOK
    <3>2. count' = count + 1
      BY <2>1 DEF pj_ioqueue_register_sock2
    <3>3. QED
      BY <2>0, <3>1, <3>2, FS_AddElement DEF CountExact
  <2>2. ASSUME NEW t \in Threads, NEW k \in Keys, pj_ioqueue_unregister(t, k) PROVE CountExact'
    <3>1. Registered' = Registered \ {k} /\ k \in Registered
      BY <2>2 DEF pj_ioqueue_unregister, MayUnregister, Registered, IInv, TypeOK
    <3>2. Cardinality(Registered) # 0
      BY <2>0, <3>1, FS_EmptySet
    <3>3. count' = count - 1
      BY <2>0, <2>2, <3>2 DEF pj_ioqueue_unregister, CountExact
    <3>4. QED
      BY <2>0, <3>1, <3>3, FS_RemoveElement DEF CountExact
  <2>3. ASSUME NEW k \in Keys, decrement_counter(k), where[k] = "active", ref_count[k] = 1 => closing[k]
        PROVE  CountExact'
    <3>1. Registered' = Registered
      BY <2>3, DecrementFacts DEF Registered, IInv
    <3>2. QED
      BY <2>3, <3>1 DEF decrement_counter, CountExact
  <2>4. ASSUME NEW t \in Threads, UnregisterDecrement(t) PROVE CountExact'
    <3>1. at[t].key \in Keys /\ where[at[t].key] = "active" /\ closing[at[t].key]
      BY <2>4 DEF UnregisterDecrement, IInv, DrainsAlone
    <3>2. QED
      BY <2>3, <2>4, <3>1 DEF UnregisterDecrement
  <2>5. ASSUME NEW t \in Threads, NEW e \in events, PollDecrement(t, e) PROVE CountExact'
    <3>1. e.key \in Keys /\ where[e.key] = "active"
      BY DEF IInv, TypeOK, Event, EventsOfLiveKeys
    <3>2. ref_count[e.key] = 1 => closing[e.key]
      <4>1. IsFiniteSet(EventsOf(e.key)) /\ Cardinality(EventsOf(e.key)) \in Nat /\ e \in EventsOf(e.key)
        BY EventsCounted DEF IInv, EventsOf
      <4>2. Cardinality(EventsOf(e.key)) # 0
        BY <4>1, FS_EmptySet
      <4>3. Own(e.key) => ref_count[e.key] # 1
        BY <3>1, <4>1, <4>2 DEF IInv, RefCountExact
      <4>4. QED
        BY <3>1, <4>3 DEF Own
    <3>3. QED
      BY <2>3, <2>5, <3>1, <3>2 DEF PollDecrement
  <2>6. ASSUME NEW t \in Threads, \/ PollIdle(t) \/ \E k \in Keys : RegisterFails(t, k)
        PROVE  CountExact'
    <3>1. Registered' = Registered
      BY <2>6 DEF PollIdle, RegisterFails, scan_closing_keys, Registered, IInv, TypeOK
    <3>2. QED
      BY <2>6, <3>1 DEF PollIdle, RegisterFails, CountExact
  <2>7. ASSUME UNCHANGED <<where, closing, count>> PROVE CountExact'
    <3>1. Registered' = Registered
      BY <2>7 DEF Registered
    <3>2. QED
      BY <2>7, <3>1 DEF CountExact
  <2>8. ASSUME NEW t \in Threads, PollScan(t) \/ DropGroupRef(t) PROVE CountExact'
    BY <2>7, <2>8 DEF PollScan, DropGroupRef
  <2>9. ASSUME NEW k \in Keys, FreeTime(k) PROVE CountExact'
    BY <2>7, <2>9 DEF FreeTime
  <2>10. CASE UNCHANGED vars
    BY <2>7, <2>10 DEF vars
  <2>11. QED
    BY <2>1, <2>2, <2>4, <2>5, <2>6, <2>8, <2>9, <2>10 DEF Next, Finish
<1>3. QED
  BY <1>1, <1>2, InitIInv, NextIInv, PTL DEF Spec
-----------------------------------------------------------------------------
(* The references to the group locks.  A thread that still has to give one   *)
(* back reads the group lock from a key that is not free and not about to    *)
(* be, so it is the one the reference was taken on; so is the one of an      *)
(* event that still has to be dispatched.                                    *)
CallKept(t) ==
  \/ at[t] = Idle
  \/ /\ at[t].in \in {"drain", "drop"} /\ at[t].key \in Keys
     /\ where[at[t].key] # "free" /\ at[t].key \notin due
     /\ at[t].grp = grp_lock[at[t].key]

GroupsKept ==
  /\ \A t \in Threads : CallKept(t)
  /\ \A e \in events : e.grp = grp_lock[e.key]
  /\ \A k \in due : where[k] = "closing"

LEMMA SameCallKept ==
  ASSUME NEW t, CallKept(t), at'[t] = at[t],
         at[t] # Idle => /\ where'[at[t].key] # "free" /\ at[t].key \notin due'
                         /\ grp_lock'[at[t].key] = grp_lock[at[t].key]
  PROVE  CallKept(t)'
BY DEF CallKept

LEMMA IdleDropsNone ==
  ASSUME NEW t, NEW g \in Groups, at[t] = Idle
  PROVE  t \notin Droppers(g)
BY KeysAssumption DEF Idle, Droppers

LEMMA DroppersStep ==
  ASSUME NEW t \in Threads, NEW g, \A u \in Threads \ {t} : at'[u] = at[u]
  PROVE  /\ t \in Droppers(g) <=> at[t].grp = g
         /\ at'[t].grp = g => Droppers(g)' = Droppers(g) \cup {t}
         /\ at'[t].grp # g => Droppers(g)' = Droppers(g) \ {t}
BY DEF Droppers

(* The holders of a group lock are finitely many. *)
LEMMA HoldersCounted ==
  ASSUME IInv, NEW g
  PROVE  /\ IsFiniteSet(Holders(g)) /\ Cardinality(Holders(g)) \in Nat
         /\ IsFiniteSet(EventHolders(g)) /\ Cardinality(EventHolders(g)) \in Nat
         /\ IsFiniteSet(Droppers(g)) /\ Cardinality(Droppers(g)) \in Nat
<1>1. Holders(g) \in SUBSET Keys /\ EventHolders(g) \in SUBSET events /\ Droppers(g) \in SUBSET Threads
  BY DEF Holders, Registered, EventHolders, Droppers
<1>2. IsFiniteSet(Keys) /\ IsFiniteSet(events) /\ IsFiniteSet(Threads)
  BY KeysAssumption DEF IInv
<1>3. IsFiniteSet(Holders(g)) /\ IsFiniteSet(EventHolders(g)) /\ IsFiniteSet(Droppers(g))
  BY <1>1, <1>2, FS_Subset
<1>4. QED
  BY <1>3, FS_CardinalityType

(* A step after which every group lock has the holders it had, and every     *)
(* counter its value, keeps the balance.                                     *)
LEMMA SameHolders ==
  ASSUME GroupRefsExact, refs' = refs,
         \A g \in Groups : Holders(g)' = Holders(g) /\ EventHolders(g)' = EventHolders(g)
                           /\ Droppers(g)' = Droppers(g)
  PROVE  GroupRefsExact'
  BY DEF GroupRefsExact

(* A key that a scan brings back, or a registration takes, is not the key of *)
(* a thread that still has to give a group reference back.                   *)
LEMMA FreedUntouched ==
  ASSUME GroupsKept, NEW t \in Threads, at[t] # Idle
  PROVE  scan_closing_keys(at[t].key) # "free" /\ scan_closing_keys(at[t].key) = where[at[t].key]
  BY DEF GroupsKept, CallKept, scan_closing_keys

(* Registration takes one reference, for a key that had no holder. *)
LEMMA RegisterGroup ==
  ASSUME IInv, GroupsKept, GroupRefsExact,
         NEW t \in Threads, NEW k \in Keys, NEW h \in Groups \cup {NULL},
         pj_ioqueue_register_sock2(t, k, h)
  PROVE  GroupsKept' /\ GroupRefsExact'
<1>1. /\ where[k] # "active" /\ where'[k] = "active" /\ ~closing'[k] /\ grp_lock'[k] = h
      /\ scan_closing_keys(k) = "free"
  BY DEF pj_ioqueue_register_sock2, scan_closing_keys, IInv, TypeOK
<1>2. \A j \in Keys \ {k} : /\ where'[j] = scan_closing_keys(j)
                            /\ closing'[j] = closing[j] /\ grp_lock'[j] = grp_lock[j]
  BY DEF pj_ioqueue_register_sock2, IInv, TypeOK
<1>3. events' = events /\ at' = at /\ due' = {} /\ refs' = add_ref(h, 1)
  BY DEF pj_ioqueue_register_sock2
<1>4. GroupsKept'
  <2>1. \A u \in Threads : at[u] # Idle => at[u].key # k
    BY <1>1, FreedUntouched
  <2>2. \A e \in events : e.key \in Keys \ {k}
    BY <1>1 DEF IInv, EventsOfLiveKeys, TypeOK, Event
  <2>3. \A u \in Threads : at[u] # Idle => at[u].key \in Keys \ {k}
    BY <2>1 DEF GroupsKept, CallKept
  <2>4. \A u \in Threads : at[u] # Idle => where'[at[u].key] = where[at[u].key]
    BY <2>3, <1>2, FreedUntouched
  <2>5. ASSUME NEW u \in Threads PROVE CallKept(u)'
    <3>1. CallKept(u) /\ (at[u] # Idle => where[at[u].key] # "free")
      BY DEF GroupsKept, CallKept
    <3>2. QED
      BY <3>1, <2>3, <2>4, <1>2, <1>3, SameCallKept
  <2>6. \A e \in events : e.grp = grp_lock'[e.key]
    BY <2>2, <1>2 DEF GroupsKept
  <2>7. QED
    BY <2>5, <2>6, <1>3 DEF GroupsKept
<1>5. GroupRefsExact'
  <2> SUFFICES ASSUME NEW g \in Groups
               PROVE  refs'[g] = Cardinality(Holders(g)') + Cardinality(EventHolders(g)')
                                 + Cardinality(Droppers(g)')
    BY DEF GroupRefsExact
  <2>1. EventHolders(g)' = EventHolders(g) /\ Droppers(g)' = Droppers(g)
    BY <1>3 DEF EventHolders, Droppers
  <2>2. k \notin Holders(g)
    BY <1>1 DEF Holders, Registered
  <2>3. \A j \in Keys \ {k} : j \in Holders(g)' <=> j \in Holders(g)
    BY <1>2 DEF Holders, Registered, scan_closing_keys
  <2>4. Holders(g)' \subseteq Keys /\ Holders(g) \subseteq Keys
    BY DEF Holders, Registered
  <2>5. refs[g] = Cardinality(Holders(g)) + Cardinality(EventHolders(g)) + Cardinality(Droppers(g))
    BY DEF GroupRefsExact
  <2> /\ Cardinality(Holders(g)) \in Nat /\ Cardinality(EventHolders(g)) \in Nat
      /\ Cardinality(Droppers(g)) \in Nat
    BY HoldersCounted
  <2>6. CASE g = h
    <3>1. k \in Holders(g)'
      BY <2>6, <1>1 DEF Holders, Registered
    <3>2. Holders(g)' = Holders(g) \cup {k}
      BY <3>1, <2>3, <2>4
    <3>3. Cardinality(Holders(g)') = Cardinality(Holders(g)) + 1
      BY <3>2, <2>2, HoldersCounted, FS_AddElement
    <3>4. refs'[g] = refs[g] + 1
      BY <2>6, <1>3, KeysAssumption DEF add_ref, IInv, TypeOK
    <3>5. QED
      BY <3>3, <3>4, <2>1, <2>5
  <2>7. CASE g # h
    <3>1. k \notin Holders(g)'
      BY <2>7, <1>1 DEF Holders, Registered
    <3>2. Holders(g)' = Holders(g)
      BY <3>1, <2>2, <2>3, <2>4
    <3>3. refs'[g] = refs[g]
      BY <2>7, <1>3 DEF add_ref, IInv, TypeOK
    <3>4. QED
      BY <3>2, <3>3, <2>1, <2>5
  <2>8. QED
    BY <2>6, <2>7
<1>6. QED
  BY <1>4, <1>5

(* Scanning alone, and a failed registration, move no reference. *)
LEMMA ScanGroup ==
  ASSUME IInv, GroupsKept, GroupRefsExact,
         \/ \E t \in Threads : PollIdle(t)
         \/ \E t \in Threads, k \in Keys : RegisterFails(t, k)
  PROVE  GroupsKept' /\ GroupRefsExact'
<1>1. /\ where' = [j \in Keys |-> scan_closing_keys(j)]
      /\ events' = events /\ at' = at /\ due' = {} /\ refs' = refs
  BY DEF PollIdle, RegisterFails
<1>2. \A j \in Keys : \/ closing'[j] = closing[j] /\ grp_lock'[j] = grp_lock[j]
                      \/ scan_closing_keys(j) = "free"
  BY DEF PollIdle, RegisterFails, IInv, TypeOK
<1>3. GroupsKept'
  <2>1. \A u \in Threads : CallKept(u) /\ (at[u] # Idle => at[u].key \in Keys
                                                          /\ where[at[u].key] # "free")
    BY DEF GroupsKept, CallKept
  <2>2. \A u \in Threads : at[u] # Idle => /\ where'[at[u].key] = where[at[u].key]
                                           /\ grp_lock'[at[u].key] = grp_lock[at[u].key]
    BY <2>1, <1>1, <1>2, FreedUntouched
  <2>3. \A e \in events : e.key \in Keys /\ scan_closing_keys(e.key) # "free"
    BY DEF IInv, EventsOfLiveKeys, TypeOK, Event, scan_closing_keys
  <2>4. ASSUME NEW u \in Threads PROVE CallKept(u)'
    BY <2>1, <2>2, <1>1, SameCallKept
  <2>5. \A e \in events : e.grp = grp_lock'[e.key]
    BY <2>3, <1>2 DEF GroupsKept
  <2>6. QED
    BY <2>4, <2>5, <1>1 DEF GroupsKept
<1>4. \A j \in Keys : /\ where'[j] = "active" <=> where[j] = "active"
                      /\ where[j] = "active" => closing'[j] = closing[j] /\ grp_lock'[j] = grp_lock[j]
  BY <1>1, <1>2 DEF scan_closing_keys
<1>5. \A g \in Groups : Holders(g)' = Holders(g) /\ EventHolders(g)' = EventHolders(g)
                        /\ Droppers(g)' = Droppers(g)
  BY <1>1, <1>4 DEF Holders, Registered, EventHolders, Droppers
<1>6. QED
  BY <1>1, <1>3, <1>5, SameHolders

(* Unregistration hands the registration's reference to its thread. *)
LEMMA UnregisterGroup ==
  ASSUME IInv, GroupsKept, GroupRefsExact,
         NEW t \in Threads, NEW k \in Keys, pj_ioqueue_unregister(t, k)
  PROVE  GroupsKept' /\ GroupRefsExact'
<1>1. /\ at[t] = Idle /\ where[k] = "active" /\ ~closing[k] /\ closing'[k]
      /\ \A j \in Keys \ {k} : closing'[j] = closing[j]
      /\ UNCHANGED <<where, grp_lock, due, events, refs>>
  BY DEF pj_ioqueue_unregister, MayCall, MayUnregister, IInv, TypeOK
<1>2. /\ at'[t] = [in |-> "drain", key |-> k, grp |-> grp_lock[k]]
      /\ \A u \in Threads \ {t} : at'[u] = at[u]
  BY DEF pj_ioqueue_unregister, IInv, TypeOK
<1>3. GroupsKept'
  <2>1. k \notin due
    BY <1>1 DEF GroupsKept
  <2>2. CallKept(t)'
    BY <2>1, <1>1, <1>2 DEF CallKept
  <2>3. ASSUME NEW u \in Threads, u # t PROVE CallKept(u)'
    <3>1. CallKept(u) /\ at'[u] = at[u]
      BY <2>3, <1>2 DEF GroupsKept
    <3>2. at[u] # Idle => where[at[u].key] # "free" /\ at[u].key \notin due
      BY <3>1 DEF CallKept
    <3>3. QED
      BY <3>1, <3>2, <1>1, SameCallKept
  <2>4. QED
    BY <2>2, <2>3, <1>1 DEF GroupsKept
<1>4. GroupRefsExact'
  <2> SUFFICES ASSUME NEW g \in Groups
               PROVE  refs[g] = Cardinality(Holders(g)') + Cardinality(EventHolders(g)')
                                + Cardinality(Droppers(g)')
    BY <1>1 DEF GroupRefsExact
  <2>1. EventHolders(g)' = EventHolders(g)
    BY <1>1 DEF EventHolders
  <2>2. t \notin Droppers(g)
    BY <1>1, IdleDropsNone
  <2>3. refs[g] = Cardinality(Holders(g)) + Cardinality(EventHolders(g)) + Cardinality(Droppers(g))
    BY DEF GroupRefsExact
  <2> /\ Cardinality(Holders(g)) \in Nat /\ Cardinality(EventHolders(g)) \in Nat
      /\ Cardinality(Droppers(g)) \in Nat
    BY HoldersCounted
  <2>4. CASE grp_lock[k] = g
    <3>1. Holders(g)' = Holders(g) \ {k} /\ k \in Holders(g)
      BY <2>4, <1>1 DEF Holders, Registered
    <3>2. Droppers(g)' = Droppers(g) \cup {t}
      <4>1. at'[t].grp = g
        BY <2>4, <1>2
      <4>2. QED
        BY <4>1, <1>2, DroppersStep
    <3>3. Cardinality(Holders(g)') = Cardinality(Holders(g)) - 1
      BY <3>1, HoldersCounted, FS_RemoveElement
    <3>4. Cardinality(Droppers(g)') = Cardinality(Droppers(g)) + 1
      BY <3>2, <2>2, HoldersCounted, FS_AddElement
    <3>5. QED
      BY <3>3, <3>4, <2>1, <2>3
  <2>5. CASE grp_lock[k] # g
    <3>1. Holders(g)' = Holders(g)
      BY <2>5, <1>1 DEF Holders, Registered
    <3>2. Droppers(g)' = Droppers(g)
      <4>1. at'[t].grp # g
        BY <2>5, <1>2
      <4>2. Droppers(g)' = Droppers(g) \ {t}
        BY <4>1, <1>2, DroppersStep
      <4>3. QED
        BY <4>2, <2>2
    <3>3. QED
      BY <3>1, <3>2, <2>1, <2>3
  <2>6. QED
    BY <2>4, <2>5
<1>5. QED
  BY <1>3, <1>4

(* Giving back the reference to a key moves no reference to a group lock:    *)
(* the key it sends to the closing list was closing already.                 *)
LEMMA UnregisterDecrementGroup ==
  ASSUME IInv, GroupsKept, GroupRefsExact, NEW t \in Threads, UnregisterDecrement(t)
  PROVE  GroupsKept' /\ GroupRefsExact'
<1>1. PICK k \in Keys : k = at[t].key /\ where[k] = "active" /\ closing[k] /\ at[t].in = "drain"
  BY DEF UnregisterDecrement, IInv, DrainsAlone
<1>2. /\ decrement_counter(k) /\ events' = events
      /\ \A u \in Threads \ {t} : at'[u] = at[u]
  BY <1>1 DEF UnregisterDecrement, IInv, TypeOK
<1>3. /\ \A j \in Keys \ {k} : where'[j] = where[j]
      /\ where'[k] \in {"active", "closing"}
      /\ closing' = closing /\ grp_lock' = grp_lock /\ due' = due /\ refs' = refs
  BY <1>1, <1>2, DecrementFacts DEF IInv
<1>4. at'[t].in = "drop" /\ at'[t].key = k /\ at'[t].grp = at[t].grp
  BY <1>1 DEF UnregisterDecrement, IInv, TypeOK, At
<1>5. GroupsKept'
  <2>1. k \notin due
    BY <1>1 DEF GroupsKept
  <2>2. at[t].grp = grp_lock[k]
    <3>1. CallKept(t) /\ at[t] # Idle
      BY <1>1 DEF GroupsKept, Idle
    <3>2. QED
      BY <1>1, <3>1 DEF CallKept
  <2>3. ASSUME NEW u \in Threads, u # t PROVE CallKept(u)'
    <3>1. CallKept(u) /\ at'[u] = at[u]
      BY <2>3, <1>2 DEF GroupsKept
    <3>2. at[u] # Idle => where[at[u].key] # "free" /\ at[u].key \notin due /\ at[u].key \in Keys
      BY <3>1 DEF CallKept
    <3>3. QED
      BY <3>1, <3>2, <1>3, SameCallKept
  <2>4. \A j \in due' : where'[j] = "closing"
    BY <2>1, <1>3 DEF GroupsKept, IInv, TypeOK
  <2>5. CallKept(t)'
    BY <2>1, <2>2, <1>1, <1>3, <1>4 DEF CallKept
  <2>6. \A e \in events' : e.grp = grp_lock'[e.key]
    BY <1>2, <1>3 DEF GroupsKept
  <2>7. QED
    BY <2>3, <2>4, <2>5, <2>6 DEF GroupsKept
<1>6. \A g \in Groups : Holders(g)' = Holders(g) /\ EventHolders(g)' = EventHolders(g)
                        /\ Droppers(g)' = Droppers(g)
  <2>1. \A u \in Threads : at'[u].grp = at[u].grp
    BY <1>2, <1>4
  <2>2. QED
    BY <2>1, <1>1, <1>2, <1>3 DEF Holders, Registered, EventHolders, Droppers
<1>7. QED
  BY <1>3, <1>5, <1>6, SameHolders

(* The reference of a dispatched event passes to the thread that gives it    *)
(* back.                                                                     *)
LEMMA PollDecrementGroup ==
  ASSUME IInv, GroupsKept, GroupRefsExact,
         NEW t \in Threads, NEW e \in events, PollDecrement(t, e)
  PROVE  GroupsKept' /\ GroupRefsExact'
<1> DEFINE k == e.key
<1>1. k \in Keys /\ where[k] = "active" /\ e.grp = grp_lock[k] /\ k \notin due
  BY DEF IInv, TypeOK, Event, EventsOfLiveKeys, GroupsKept
<1>2. /\ decrement_counter(k) /\ events' = events \ {e} /\ at[t] = Idle
      /\ at'[t] = [in |-> "drop", key |-> k, grp |-> e.grp]
      /\ \A u \in Threads \ {t} : at'[u] = at[u]
  BY DEF PollDecrement, IInv, TypeOK
<1>3. /\ \A j \in Keys \ {k} : where'[j] = where[j]
      /\ where'[k] \in {"active", "closing"} /\ (where'[k] = "closing" => closing[k])
      /\ closing' = closing /\ grp_lock' = grp_lock /\ due' = due /\ refs' = refs
  <2>1. ref_count[k] = 1 => closing[k]
    <3>1. IsFiniteSet(EventsOf(k)) /\ Cardinality(EventsOf(k)) \in Nat /\ e \in EventsOf(k)
      BY EventsCounted DEF IInv, EventsOf
    <3>2. Cardinality(EventsOf(k)) # 0
      BY <3>1, FS_EmptySet
    <3>3. Own(k) => ref_count[k] # 1
      BY <1>1, <3>1, <3>2 DEF IInv, RefCountExact
    <3>4. QED
      BY <1>1, <3>3 DEF Own
  <2>2. QED
    BY <2>1, <1>1, <1>2, DecrementFacts DEF IInv
<1> HIDE DEF k
<1>4. GroupsKept'
  <2>1. ASSUME NEW u \in Threads, u # t PROVE CallKept(u)'
    <3>1. CallKept(u) /\ at'[u] = at[u]
      BY <2>1, <1>2 DEF GroupsKept
    <3>2. at[u] # Idle => where[at[u].key] # "free" /\ at[u].key \notin due /\ at[u].key \in Keys
      BY <3>1 DEF CallKept
    <3>3. QED
      BY <3>1, <3>2, <1>3, SameCallKept
  <2>2. \A j \in due' : where'[j] = "closing"
    BY <1>1, <1>3 DEF GroupsKept, IInv, TypeOK
  <2>3. CallKept(t)'
    <3>1. at'[t].in = "drop" /\ at'[t].key = k /\ at'[t].grp = grp_lock[k]
      BY <1>1, <1>2
    <3>2. where'[k] # "free" /\ k \notin due' /\ grp_lock'[k] = grp_lock[k]
      BY <1>1, <1>3
    <3>3. QED
      BY <3>1, <3>2, <1>1 DEF CallKept
  <2>4. \A f \in events' : f.grp = grp_lock'[f.key]
    BY <1>2, <1>3 DEF GroupsKept
  <2>5. QED
    BY <2>1, <2>2, <2>3, <2>4 DEF GroupsKept
<1>5. GroupRefsExact'
  <2> SUFFICES ASSUME NEW g \in Groups
               PROVE  refs[g] = Cardinality(Holders(g)') + Cardinality(EventHolders(g)')
                                + Cardinality(Droppers(g)')
    BY <1>3 DEF GroupRefsExact
  <2>1. Holders(g)' = Holders(g)
    BY <1>1, <1>3 DEF Holders, Registered
  <2>2. t \notin Droppers(g)
    BY <1>2, IdleDropsNone
  <2>3. refs[g] = Cardinality(Holders(g)) + Cardinality(EventHolders(g)) + Cardinality(Droppers(g))
    BY DEF GroupRefsExact
  <2> /\ Cardinality(Holders(g)) \in Nat /\ Cardinality(EventHolders(g)) \in Nat
      /\ Cardinality(Droppers(g)) \in Nat
    BY HoldersCounted
  <2>4. CASE e.grp = g
    <3>1. EventHolders(g)' = EventHolders(g) \ {e} /\ e \in EventHolders(g)
      BY <2>4, <1>2 DEF EventHolders
    <3>2. Droppers(g)' = Droppers(g) \cup {t}
      <4>1. at'[t].grp = g
        BY <2>4, <1>2
      <4>2. QED
        BY <4>1, <1>2, DroppersStep
    <3>3. Cardinality(EventHolders(g)') = Cardinality(EventHolders(g)) - 1
      BY <3>1, HoldersCounted, FS_RemoveElement
    <3>4. Cardinality(Droppers(g)') = Cardinality(Droppers(g)) + 1
      BY <3>2, <2>2, HoldersCounted, FS_AddElement
    <3>5. QED
      BY <3>3, <3>4, <2>1, <2>3
  <2>5. CASE e.grp # g
    <3>1. EventHolders(g)' = EventHolders(g)
      BY <2>5, <1>2 DEF EventHolders
    <3>2. Droppers(g)' = Droppers(g)
      <4>1. at'[t].grp # g
        BY <2>5, <1>2
      <4>2. Droppers(g)' = Droppers(g) \ {t}
        BY <4>1, <1>2, DroppersStep
      <4>3. QED
        BY <4>2, <2>2
    <3>3. QED
      BY <3>1, <3>2, <2>1, <2>3
  <2>6. QED
    BY <2>4, <2>5
<1>6. QED
  BY <1>4, <1>5

(* A poll takes one reference to the group lock of each event's key. *)
LEMMA PollScanGroup ==
  ASSUME IInv, GroupsKept, GroupRefsExact, NEW t \in Threads, PollScan(t)
  PROVE  GroupsKept' /\ GroupRefsExact'
<1>1. PICK S \in SUBSET EventsFor(t) :
        /\ events' = events \cup S
        /\ refs' = [g \in Groups |-> refs[g] + Cardinality({e \in S : e.grp = g})]
  BY DEF PollScan
<1>2. UNCHANGED <<where, closing, grp_lock, due, at>> /\ \A e \in events : e.thr # t
  BY DEF PollScan, Resting
<1>3. \A e \in S : e.thr = t /\ e.grp = grp_lock[e.key]
  BY DEF EventsFor
<1>4. IsFiniteSet(S) /\ events \cap S = {}
  BY <1>2, <1>3, EventsForFinite, FS_Subset
<1>5. GroupsKept'
  BY <1>1, <1>2, <1>3 DEF GroupsKept, CallKept
<1>6. GroupRefsExact'
  <2> SUFFICES ASSUME NEW g \in Groups
               PROVE  refs'[g] = Cardinality(Holders(g)') + Cardinality(EventHolders(g)')
                                 + Cardinality(Droppers(g)')
    BY DEF GroupRefsExact
  <2> DEFINE A == EventHolders(g)
             B == {e \in S : e.grp = g}
  <2>1. EventHolders(g)' = A \cup B /\ A \cap B = {}
    BY <1>1, <1>4 DEF EventHolders
  <2>2. Holders(g)' = Holders(g) /\ Droppers(g)' = Droppers(g)
    BY <1>2 DEF Holders, Registered, Droppers
  <2>3. IsFiniteSet(B) /\ Cardinality(B) \in Nat
    <3>1. B \in SUBSET S
      OBVIOUS
    <3>2. QED
      BY <3>1, <1>4, FS_Subset, FS_CardinalityType
  <2>4. refs'[g] = refs[g] + Cardinality(B)
    BY <1>1
  <2>5. refs[g] = Cardinality(Holders(g)) + Cardinality(A) + Cardinality(Droppers(g))
    BY DEF GroupRefsExact
  <2>6. IsFiniteSet(A) /\ Cardinality(A) \in Nat
    BY HoldersCounted
  <2> HIDE DEF A, B
  <2>7. Cardinality(A \cup B) = Cardinality(A) + Cardinality(B)
    <3>1. Cardinality(A \cup B) = Cardinality(A) + Cardinality(B) - Cardinality(A \cap B)
      BY <2>3, <2>6, FS_Union
    <3>2. Cardinality(A \cap B) = 0
      BY <2>1, FS_EmptySet
    <3>3. QED
      BY <3>1, <3>2, <2>3, <2>6
  <2>8. Cardinality(Holders(g)) \in Nat /\ Cardinality(Droppers(g)) \in Nat
    BY HoldersCounted
  <2>9. QED
    BY <2>1, <2>2, <2>3, <2>4, <2>5, <2>6, <2>7, <2>8
<1>7. QED
  BY <1>5, <1>6

(* The group lock that is read from the key is the one the reference was     *)
(* taken on.                                                                 *)
LEMMA DropGroup ==
  ASSUME IInv, GroupsKept, GroupRefsExact, NEW t \in Threads, DropGroupRef(t)
  PROVE  GroupsKept' /\ GroupRefsExact'
<1>1. /\ UNCHANGED <<where, closing, grp_lock, due, events>>
      /\ at'[t] = Idle /\ \A u \in Threads \ {t} : at'[u] = at[u]
  BY DEF DropGroupRef, IInv, TypeOK
<1>2. refs' = add_ref(at[t].grp, -1) /\ at[t].grp \in Groups \cup {NULL}
  <2>1. at[t] # Idle
    BY DEF DropGroupRef, Idle
  <2>2. QED
    BY <2>1 DEF DropGroupRef, GroupsKept, CallKept, IInv, TypeOK
<1>3. GroupsKept'
  <2>1. ASSUME NEW u \in Threads PROVE CallKept(u)'
    BY <1>1 DEF GroupsKept, CallKept
  <2>2. QED
    BY <2>1, <1>1 DEF GroupsKept
<1>4. GroupRefsExact'
  <2> SUFFICES ASSUME NEW g \in Groups
               PROVE  refs'[g] = Cardinality(Holders(g)') + Cardinality(EventHolders(g)')
                                 + Cardinality(Droppers(g)')
    BY DEF GroupRefsExact
  <2>1. Holders(g)' = Holders(g) /\ EventHolders(g)' = EventHolders(g)
    BY <1>1 DEF Holders, Registered, EventHolders
  <2>2. at'[t].grp # g
    BY <1>1, KeysAssumption DEF Idle
  <2> /\ Cardinality(Holders(g)) \in Nat /\ Cardinality(EventHolders(g)) \in Nat
      /\ Cardinality(Droppers(g)) \in Nat
    BY HoldersCounted
  <2>3. refs[g] = Cardinality(Holders(g)) + Cardinality(EventHolders(g)) + Cardinality(Droppers(g))
    BY DEF GroupRefsExact
  <2>4. CASE at[t].grp = g
    <3>1. Droppers(g)' = Droppers(g) \ {t} /\ t \in Droppers(g)
      BY <2>4, <2>2, <1>1, DroppersStep
    <3>2. Cardinality(Droppers(g)') = Cardinality(Droppers(g)) - 1
      BY <3>1, HoldersCounted, FS_RemoveElement
    <3>3. refs'[g] = refs[g] - 1
      BY <2>4, <1>2, KeysAssumption DEF add_ref, IInv, TypeOK
    <3>4. QED
      BY <3>2, <3>3, <2>1, <2>3
  <2>5. CASE at[t].grp # g
    <3>1. Droppers(g)' = Droppers(g)
      BY <2>5, <2>2, <1>1, DroppersStep
    <3>2. refs'[g] = refs[g]
      BY <2>5, <1>2 DEF add_ref, IInv, TypeOK
    <3>3. QED
      BY <3>1, <3>2, <2>1, <2>3
  <2>6. QED
    BY <2>4, <2>5
<1>5. QED
  BY <1>3, <1>4

(* A key's free_time does not pass while a thread still has to read its      *)
(* group lock.                                                               *)
LEMMA FreeTimeGroup ==
  ASSUME IInv, GroupsKept, GroupRefsExact, ~Slow, NEW k \in Keys, FreeTime(k)
  PROVE  GroupsKept' /\ GroupRefsExact'
<1>1. /\ UNCHANGED <<where, closing, grp_lock, events, at, refs>> /\ due' = due \cup {k}
      /\ where[k] = "closing" /\ \A t \in Threads : at[t].key # k
  BY DEF FreeTime
<1>2. GroupsKept'
  BY <1>1 DEF GroupsKept, CallKept
<1>3. \A g \in Groups : Holders(g)' = Holders(g) /\ EventHolders(g)' = EventHolders(g)
                        /\ Droppers(g)' = Droppers(g)
  BY <1>1 DEF Holders, Registered, EventHolders, Droppers
<1>4. QED
  BY <1>1, <1>2, <1>3, SameHolders

(* The references the ioqueue takes on the group locks and those it gives    *)
(* back are balanced, for any number of keys, threads and groups, although   *)
(* the group lock is read from a key whose own reference is gone.  The       *)
(* hypothesis is what PJ_IOQUEUE_KEY_FREE_DELAY is for: no thread takes      *)
(* longer than that between the two.                                         *)
THEOREM GroupReferencesExact == ASSUME ~Slow PROVE Spec => []GroupRefsExact
<1>1. Init => GroupsKept /\ GroupRefsExact
  <2> SUFFICES ASSUME Init PROVE GroupsKept /\ GroupRefsExact
    OBVIOUS
  <2>1. GroupsKept
    BY DEF Init, GroupsKept, CallKept
  <2>2. \A g \in Groups : Holders(g) = {} /\ EventHolders(g) = {} /\ Droppers(g) = {}
    BY KeysAssumption DEF Init, Holders, Registered, EventHolders, Droppers, Idle
  <2>3. QED
    BY <2>1, <2>2, FS_EmptySet DEF Init, GroupRefsExact
<1>2. IInv /\ GroupsKept /\ GroupRefsExact /\ [Next]_vars => GroupsKept' /\ GroupRefsExact'
  <2> SUFFICES ASSUME IInv, GroupsKept, GroupRefsExact, [Next]_vars
               PROVE  GroupsKept' /\ GroupRefsExact'
    OBVIOUS
  <2>1. ASSUME NEW t \in Threads, NEW k \in Keys, NEW g \in Groups \cup {NULL},
               pj_ioqueue_register_sock2(t, k, g)
        PROVE  GroupsKept' /\ GroupRefsExact'
    BY <2>1, RegisterGroup
  <2>2. ASSUME NEW t \in Threads, NEW k \in Keys, pj_ioqueue_unregister(t, k)
        PROVE  GroupsKept' /\ GroupRefsExact'
    BY <2>2, UnregisterGroup
  <2>3. ASSUME NEW t \in Threads, UnregisterDecrement(t) PROVE GroupsKept' /\ GroupRefsExact'
    BY <2>3, UnregisterDecrementGroup
  <2>4. ASSUME NEW t \in Threads, NEW e \in events, PollDecrement(t, e)
        PROVE  GroupsKept' /\ GroupRefsExact'
    BY <2>4, PollDecrementGroup
  <2>5. ASSUME NEW t \in Threads, PollScan(t) PROVE GroupsKept' /\ GroupRefsExact'
    BY <2>5, PollScanGroup
  <2>6. ASSUME NEW t \in Threads, DropGroupRef(t) PROVE GroupsKept' /\ GroupRefsExact'
    BY <2>6, DropGroup
  <2>7. ASSUME NEW k \in Keys, FreeTime(k) PROVE GroupsKept' /\ GroupRefsExact'
    BY <2>7, FreeTimeGroup
  <2>8. CASE UNCHANGED vars
    <3>1. GroupsKept'
      BY <2>8 DEF vars, GroupsKept, CallKept
    <3>2. \A g \in Groups : Holders(g)' = Holders(g) /\ EventHolders(g)' = EventHolders(g)
                            /\ Droppers(g)' = Droppers(g)
      BY <2>8 DEF vars, Holders, Registered, EventHolders, Droppers
    <3>3. QED
      BY <2>8, <3>1, <3>2, SameHolders DEF vars
  <2>9. QED
    BY <2>1, <2>2, <2>3, <2>4, <2>5, <2>6, <2>7, <2>8, ScanGroup DEF Next, Finish
<1>3. QED
  BY <1>1, <1>2, InitIInv, NextIInv, PTL DEF Spec
=============================================================================
