----------------------------- MODULE IoqueueKeys -----------------------------
(***************************************************************************)
(* The life of the ioqueue's keys (ioqueue_select.c): a fixed set of keys   *)
(* moves from the free list to the active list, and, after unregistration   *)
(* and a delay, over the closing list back.  Polling threads hold references *)
(* to the keys whose events they collected, and to the keys' group locks.   *)
(*                                                                         *)
(* Sections under the ioqueue's lock are one step.  What the dispatch of an *)
(* event does to the key is in IoqueueOps.                                  *)
(***************************************************************************)
EXTENDS Integers, FiniteSets

CONSTANTS Keys, Threads, Groups, NULL,
          MAX_EVENTS, \* PJ_IOQUEUE_MAX_CAND_EVENTS, the events of one poll
          MaxRegs,   \* bound: registrations in a behaviour
          Slow       \* a thread may be descheduled for PJ_IOQUEUE_KEY_FREE_DELAY

Types == {"R", "W", "X"}

ASSUME KeysAssumption == /\ IsFiniteSet(Keys) /\ IsFiniteSet(Threads)
                         /\ NULL \notin Keys /\ NULL \notin Groups
                         /\ MAX_EVENTS \in Nat \ {0} /\ MaxRegs \in Nat /\ Slow \in BOOLEAN

VARIABLES where,      \* where[k]: the list k is in
          ref_count, closing,
          grp_lock,   \* grp_lock[k]: left as it is when k goes back to the free list
          reg,        \* reg[k]: which registration k serves
          regs,       \* registrations so far
          count,      \* the ioqueue's count
          due,        \* closing keys whose free_time has passed
          events,     \* what the threads collected and have not dispatched
          at,         \* at[t]: what t has to do next, with which key
          refs        \* refs[g]: the references to g taken by the ioqueue

vars == <<where, ref_count, closing, grp_lock, reg, regs, count, due, events, at, refs>>

(* An event, with the registration and the group lock it was collected for. *)
Event == [thr : Threads, key : Keys, type : Types, reg : 0 .. MaxRegs, grp : Groups \cup {NULL}]
At == [in : {"idle", "drain", "drop"}, key : Keys \cup {NULL}, grp : Groups \cup {NULL}]

Idle == [in |-> "idle", key |-> NULL, grp |-> NULL]

(* pj_ioqueue_create2: every key is free. *)
Init == /\ where = [k \in Keys |-> "free"]
        /\ ref_count = [k \in Keys |-> 0]
        /\ closing = [k \in Keys |-> FALSE]
        /\ grp_lock = [k \in Keys |-> NULL]
        /\ reg = [k \in Keys |-> 0]
        /\ regs = 0 /\ count = 0
        /\ due = {} /\ events = {}
        /\ at = [t \in Threads |-> Idle]
        /\ refs = [g \in Groups |-> 0]
-----------------------------------------------------------------------------
Max == Cardinality(Keys)

(* A thread may call from outside, or from the callback of the event it is *)
(* dispatching; it polls only when it has dispatched all it collected.      *)
MayCall(t) == at[t] = Idle
Resting(t) == at[t] = Idle /\ \A e \in events : e.thr # t

EventsOf(k) == {e \in events : e.key = k}

add_ref(g, n) == IF g = NULL THEN refs ELSE [refs EXCEPT ![g] = @ + n]

(* Mutant: keys come back before their time. *)
ScanAll(k) == IF where[k] = "closing" THEN "free" ELSE where[k]

(* scan_closing_keys. *)
scan_closing_keys(k) == IF where[k] = "closing" /\ k \in due THEN "free" ELSE where[k]

(* Registration: the closing keys are scanned, and a free key is taken. *)
pj_ioqueue_register_sock2(t, k, g) ==
  /\ MayCall(t) /\ regs < MaxRegs
  /\ count < Max /\ scan_closing_keys(k) = "free"
  /\ where' = [[j \in Keys |-> scan_closing_keys(j)] EXCEPT ![k] = "active"]
  /\ ref_count' = [ref_count EXCEPT ![k] = @ + 1]
  /\ closing' = [closing EXCEPT ![k] = FALSE]
  /\ grp_lock' = [grp_lock EXCEPT ![k] = g]
  /\ reg' = [reg EXCEPT ![k] = regs + 1]
  /\ regs' = regs + 1
  /\ count' = count + 1
  /\ due' = {}
  /\ refs' = add_ref(g, 1)
  /\ UNCHANGED <<events, at>>

(* set_nonblocking fails: the key goes back to the free list. *)
RegisterFails(t, k) ==
  /\ MayCall(t)
  /\ count < Max /\ scan_closing_keys(k) = "free"
  /\ where' = [j \in Keys |-> scan_closing_keys(j)]
  /\ closing' = [closing EXCEPT ![k] = FALSE]
  /\ grp_lock' = [grp_lock EXCEPT ![k] = NULL]
  /\ ref_count' = [ref_count EXCEPT ![k] = 0]
  /\ due' = {}
  /\ UNCHANGED <<reg, regs, count, events, at, refs>>

(* Mutant: without the test of IS_CLOSING. *)
MayUnregisterAgain(k) == where[k] = "active"
MayUnregister(k) == where[k] = "active" /\ ~closing[k]

(* Under the locks of the key and of the ioqueue: the socket is closed and  *)
(* the key is closing.  A second unregistration sees that and returns.      *)
pj_ioqueue_unregister(t, k) ==
  /\ MayCall(t) /\ MayUnregister(k)
  /\ count' = IF count > 0 THEN count - 1 ELSE count
  /\ closing' = [closing EXCEPT ![k] = TRUE]
  /\ at' = [at EXCEPT ![t] = [in |-> "drain", key |-> k, grp |-> grp_lock[k]]]
  /\ UNCHANGED <<where, ref_count, grp_lock, reg, regs, due, events, refs>>

(* Mutant: one reference too early. *)
LastButOne(k) == ref_count[k] <= 2
(* Mutant: the test before the decrement. *)
ZeroAlready(k) == ref_count[k] = 0
LastReference(k) == ref_count[k] = 1

decrement_counter(k) ==
  /\ ref_count' = [ref_count EXCEPT ![k] = @ - 1]
  /\ where' = IF LastReference(k) THEN [where EXCEPT ![k] = "closing"] ELSE where
  /\ UNCHANGED <<closing, grp_lock, reg, regs, count, due, refs>>

(* The writes are drained and the callbacks cleared: the reference goes. *)
UnregisterDecrement(t) ==
  /\ at[t].in = "drain"
  /\ decrement_counter(at[t].key)
  /\ at' = [at EXCEPT ![t].in = "drop"]
  /\ UNCHANGED events

Collectable(k) == where[k] = "active" /\ ~closing[k]

(* The scan of the active list after select(): any set of events of keys   *)
(* that are not closing, as far as the array goes, each with a reference.   *)
EventsFor(t) == {[thr |-> t, key |-> k, type |-> y, reg |-> reg[k], grp |-> grp_lock[k]] :
                   k \in {j \in Keys : Collectable(j)}, y \in Types}

PollScan(t) ==
  /\ Resting(t)
  /\ \E S \in SUBSET EventsFor(t) :
       /\ S # {} /\ Cardinality(S) <= MAX_EVENTS
       /\ events' = events \cup S
       /\ ref_count' = [k \in Keys |-> ref_count[k] + Cardinality({e \in S : e.key = k})]
       /\ refs' = [g \in Groups |-> refs[g] + Cardinality({e \in S : e.grp = g})]
  /\ UNCHANGED <<where, closing, grp_lock, reg, regs, count, due, at>>

(* No descriptor is set: no key has an operation pending. *)
PollIdle(t) ==
  /\ Resting(t)
  /\ where' = [j \in Keys |-> scan_closing_keys(j)]
  /\ due' = {}
  /\ UNCHANGED <<ref_count, closing, grp_lock, reg, regs, count, events, at, refs>>

(* After the dispatch of an event. *)
PollDecrement(t, e) ==
  /\ e \in events /\ e.thr = t /\ at[t] = Idle
  /\ decrement_counter(e.key)
  /\ events' = events \ {e}
  /\ at' = [at EXCEPT ![t] = [in |-> "drop", key |-> e.key, grp |-> e.grp]]

(* The group lock is read from the key after the key's reference was given *)
(* back.                                                                   *)
DropGroupRef(t) ==
  /\ at[t].in = "drop"
  /\ refs' = add_ref(grp_lock[at[t].key], -1)
  /\ at' = [at EXCEPT ![t] = Idle]
  /\ UNCHANGED <<where, ref_count, closing, grp_lock, reg, regs, count, due, events>>

(* free_time passes.  Unless threads are slow, that takes longer than the  *)
(* step from decrement_counter to the group lock.                          *)
FreeTime(k) ==
  /\ where[k] = "closing" /\ k \notin due
  /\ Slow \/ \A t \in Threads : at[t].key # k
  /\ due' = due \cup {k}
  /\ UNCHANGED <<where, ref_count, closing, grp_lock, reg, regs, count, events, at, refs>>

Finish(t) == \/ UnregisterDecrement(t) \/ DropGroupRef(t)
             \/ \E e \in events : PollDecrement(t, e)

Next == \/ \E t \in Threads :
             \/ \E k \in Keys : \/ \E g \in Groups \cup {NULL} : pj_ioqueue_register_sock2(t, k, g)
                                \/ RegisterFails(t, k)
                                \/ pj_ioqueue_unregister(t, k)
             \/ PollScan(t) \/ PollIdle(t) \/ Finish(t)
        \/ \E k \in Keys : FreeTime(k)

Spec == Init /\ [][Next]_vars
(* Threads go on with what they began, and time passes. *)
FairSpec == /\ Spec
            /\ \A t \in Threads : WF_vars(Finish(t))
            /\ \A k \in Keys : WF_vars(FreeTime(k))
-----------------------------------------------------------------------------
(* Every variable stays in its range. *)
TypeOK == /\ where \in [Keys -> {"free", "active", "closing"}]
          /\ ref_count \in [Keys -> Nat]
          /\ closing \in [Keys -> BOOLEAN]
          /\ grp_lock \in [Keys -> Groups \cup {NULL}]
          /\ reg \in [Keys -> 0 .. MaxRegs] /\ regs \in 0 .. MaxRegs
          /\ count \in Nat
          /\ due \subseteq Keys /\ events \subseteq Event
          /\ at \in [Threads -> At]
          /\ refs \in [Groups -> Int]

(* The registration's own reference, until unregistration gives it back. *)
Draining(k) == {t \in Threads : at[t].in = "drain" /\ at[t].key = k}
Own(k) == where[k] = "active" /\ (~closing[k] \/ Draining(k) # {})

(* ref_count is what increment_counter and decrement_counter are for: one   *)
(* for the registration and one for each event a thread still has to        *)
(* dispatch; a key outside the active list has none.                        *)
RefCountExact == \A k \in Keys : ref_count[k] = Cardinality(EventsOf(k)) + IF Own(k) THEN 1 ELSE 0

(* A key is not recycled under a poller: the events a thread collected are  *)
(* of a key that still serves the registration they were collected for.     *)
EventsOfLiveKeys == \A e \in events : where[e.key] = "active" /\ reg[e.key] = e.reg

(* The assertions of decrement_counter and scan_closing_keys: a key without *)
(* references is closing, and so is every key in the closing list.          *)
ClosingKeysClose == \A k \in Keys : /\ where[k] = "closing" => closing[k]
                                    /\ where[k] = "active" => ref_count[k] > 0

Registered == {k \in Keys : where[k] = "active" /\ ~closing[k]}

(* count, which registration compares with max and unregistration counts    *)
(* down, is the number of registered keys.                                  *)
CountExact == count = Cardinality(Registered)

(* Who holds a reference to g. *)
Holders(g) == {k \in Registered : grp_lock[k] = g}
EventHolders(g) == {e \in events : e.grp = g}
Droppers(g) == {t \in Threads : at[t].grp = g}

(* The references the ioqueue holds on a group lock: one per registered or  *)
(* draining key, one per collected event, and those being given back.       *)
GroupRefsExact == \A g \in Groups : refs[g] = Cardinality(Holders(g)) + Cardinality(EventHolders(g))
                                              + Cardinality(Droppers(g))

(* An unregistered key can be used again in the end. *)
KeyComesBack == \A k \in Keys : closing[k] ~> scan_closing_keys(k) = "free"
=============================================================================
