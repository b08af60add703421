----------------------------- MODULE TimerHeap -----------------------------
(***************************************************************************)
(* The timer heap of timer.c (PJ_TIMER_USE_COPY, binary heap), with a lock  *)
(* set: the heap array and its index arrays, growth, and the concurrent     *)
(* use of schedule, cancel and poll, whose callbacks run unlocked and may   *)
(* call back into the heap.                                                 *)
(***************************************************************************)
EXTENDS Integers, FiniteSets

CONSTANTS Entries, Threads, Nil,
          GrpEntries,      \* the entries scheduled with a group lock
          Delays,          \* the delays callers schedule with
          InitSize,        \* size argument of pj_timer_heap_create
          MaxPerPoll,      \* max_entries_per_poll
          GrowMayFail,     \* TRUE: the pool may be out of memory
          MaxTime          \* bound of the clock

ASSUME TimerHeapAssumption == /\ GrpEntries \subseteq Entries
                              /\ Delays \subseteq 0 .. MaxTime
                              /\ InitSize \in Nat
                              /\ MaxPerPoll \in Nat \ {0}
                              /\ GrowMayFail \in BOOLEAN
                              /\ MaxTime \in Nat

VARIABLES ht,         \* [heap, ids, free, size, max]: the arrays of pj_timer_heap_t
          dups,       \* dups[id]: timer_dups, the copy of the entry scheduled as id
          timer_id,   \* timer_id[e]: entry->_timer_id
          ref_cnt,    \* reference count of the group lock
          now,        \* pj_gettickcount
          call,       \* call[t]: t's schedule call that waits for the heap's lock
          poll,       \* poll[t]: where t is in pj_timer_heap_poll
          leaked      \* history: the ids taken by schedules that found no memory

vars == <<ht, dups, timer_id, ref_cnt, now, call, poll, leaked>>

NotPolling == [at |-> "idle"]
NoDup == [entry |-> Nil, time |-> 0, grp |-> FALSE]

(* pj_timer_heap_create: "Magic" two extra elements, ids from 1. *)
Init == /\ ht = [heap |-> [i \in 0 .. InitSize + 1 |-> 0],
                 ids  |-> [i \in 0 .. InitSize + 1 |-> -(i + 1)],
                 free |-> 1, size |-> 0, max |-> InitSize + 2]
        /\ dups = [i \in 0 .. InitSize + 1 |-> NoDup]
        /\ timer_id = [e \in Entries |-> -1]
        /\ ref_cnt = 1
        /\ now = 0
        /\ call = [t \in Threads |-> Nil]
        /\ poll = [t \in Threads |-> NotPolling]
        /\ leaked = {}
-----------------------------------------------------------------------------
(* The heap array: heap[slot] is the id of the copy in that slot, ids[id]   *)
(* its slot, or minus the next free id.                                     *)
HEAP_PARENT(x) == IF x = 0 THEN 0 ELSE (x - 1) \div 2
HEAP_LEFT(x) == x + x + 1

copy_node(h, slot, id) == [h EXCEPT !.heap[slot] = id, !.ids[id] = slot]

Before(d, i, j) == d[i].time < d[j].time

RECURSIVE reheap_up(_, _, _, _)
reheap_up(h, d, id, slot) ==
  LET up == HEAP_PARENT(slot) IN
  IF slot > 0 /\ Before(d, id, h.heap[up])
  THEN reheap_up(copy_node(h, slot, h.heap[up]), d, id, up)
  ELSE copy_node(h, slot, id)

(* Mutant: always goes to the left child. *)
RECURSIVE ReheapDownLeft(_, _, _, _)
ReheapDownLeft(h, d, id, slot) ==
  LET child == HEAP_LEFT(slot) IN
  IF child < h.size /\ Before(d, h.heap[child], id)
  THEN ReheapDownLeft(copy_node(h, slot, h.heap[child]), d, id, child)
  ELSE copy_node(h, slot, id)

RECURSIVE reheap_down(_, _, _, _)
reheap_down(h, d, id, slot) ==
  LET left  == HEAP_LEFT(slot)
      child == IF left + 1 < h.size /\ Before(d, h.heap[left + 1], h.heap[left])
               THEN left + 1 ELSE left
  IN IF left < h.size /\ Before(d, h.heap[child], id)
     THEN reheap_down(copy_node(h, slot, h.heap[child]), d, id, child)
     ELSE copy_node(h, slot, id)

push_freelist(h, id) == [h EXCEPT !.ids[id] = -h.free, !.free = id]

(* The last node takes the removed one's place and sinks or rises. *)
RemoveSlot(h, d, slot) ==
  LET g     == [push_freelist(h, h.heap[slot]) EXCEPT !.size = @ - 1]
      moved == g.heap[g.size]
      k     == copy_node(g, slot, moved)
      done  == IF slot >= g.size THEN g
               ELSE IF ~Before(d, moved, k.heap[HEAP_PARENT(slot)])
                    THEN reheap_down(k, d, moved, slot)
                    ELSE reheap_up(k, d, moved, slot)
  IN [done EXCEPT !.heap[g.size] = 0]  \* a slot past the end is never read

(* Takes the node out of the arrays and marks its entry as not running. *)
(* The copy is cleared: nothing reads it before the id is used again.       *)
remove_node(slot) ==
  LET id == ht.heap[slot]
      e  == dups[id].entry
  IN /\ ht' = RemoveSlot(ht, dups, slot)
     /\ dups' = [dups EXCEPT ![id] = NoDup]
     /\ timer_id' = [timer_id EXCEPT ![e] = IF @ = id THEN -1 ELSE @]

(* Stands for whatever timer_ids[max_size] reads as, past the array. *)
Stray == 0

(* Each failed growth takes an id for good, so that the list may be at its  *)
(* end when the next one is taken from it.                                  *)
pop_freelist(h) ==
  [h EXCEPT !.free = IF h.free \in DOMAIN h.ids THEN -h.ids[h.free] ELSE Stray]

(* timer_ids_freelist holds what was read past the array: from here on the  *)
(* C program is undefined: no thread gets at the heap any more, and nothing *)
(* is said of it.                                                           *)
Lost == ht.free = Stray

(* Mutant: the new ids do not continue the free list. *)
GrowWithoutIds(h) ==
  [h EXCEPT !.heap = [i \in 0 .. 2 * h.max - 1 |-> IF i < h.max THEN h.heap[i] ELSE 0],
            !.ids  = [i \in 0 .. 2 * h.max - 1 |-> IF i < h.max THEN h.ids[i] ELSE -i],
            !.max  = 2 * h.max]

(* All arrays double; the new ids continue the free list. *)
grow_heap(h) ==
  [h EXCEPT !.heap = [i \in 0 .. 2 * h.max - 1 |-> IF i < h.max THEN h.heap[i] ELSE 0],
            !.ids  = [i \in 0 .. 2 * h.max - 1 |-> IF i < h.max THEN h.ids[i] ELSE -(i + 1)],
            !.max  = 2 * h.max]

MustGrow(h) == h.size + 2 >= h.max

insert_node(h, id, copy) ==
  LET g == IF MustGrow(h) THEN grow_heap(h) ELSE h
      d == [i \in 0 .. g.max - 1 |-> IF i = id THEN copy
                                     ELSE IF i \in DOMAIN dups THEN dups[i] ELSE NoDup]
  IN /\ dups' = d
     /\ ht' = [reheap_up(g, d, id, g.size) EXCEPT !.size = @ + 1]

(* A thread may call the heap when it is not inside it: also from a         *)
(* callback.                                                                *)
MayCall(t) == ~Lost /\ call[t] = Nil /\ poll[t].at \in {"idle", "callback"}

(* The expiry time is computed before the lock is taken. *)
ScheduleCall(t, e, delay) ==
  /\ MayCall(t)
  /\ now + delay <= MaxTime
  /\ call' = [call EXCEPT ![t] = [entry |-> e, time |-> now + delay,
                                  grp |-> e \in GrpEntries]]
  /\ UNCHANGED <<ht, dups, timer_id, ref_cnt, now, poll, leaked>>

Running(e) == timer_id[e] >= 1

(* Mutant: an entry that is running is scheduled again. *)
ScheduleTwice(t) ==
  LET c == call[t] IN
  /\ ~Lost /\ c # Nil
  /\ timer_id' = [timer_id EXCEPT ![c.entry] = ht.free]
  /\ insert_node(pop_freelist(ht), ht.free, c)
  /\ ref_cnt' = ref_cnt + (IF c.grp THEN 1 ELSE 0)
  /\ call' = [call EXCEPT ![t] = Nil]
  /\ UNCHANGED <<now, poll, leaked>>

(* PJ_SUCCESS.  cur_size < max_size always holds: growth, which fails       *)
(* first, is due two elements earlier.                                      *)
schedule_w_grp_lock(t) ==
  LET c == call[t] IN
  /\ ~Lost /\ c # Nil /\ ~Running(c.entry)
  /\ timer_id' = [timer_id EXCEPT ![c.entry] = ht.free]
  /\ insert_node(pop_freelist(ht), ht.free, c)
  /\ ref_cnt' = ref_cnt + (IF c.grp THEN 1 ELSE 0)
  /\ call' = [call EXCEPT ![t] = Nil]
  /\ UNCHANGED <<now, poll, leaked>>

(* PJ_EINVALIDOP: the entry is already running. *)
ScheduleRefused(t) ==
  /\ ~Lost /\ call[t] # Nil /\ Running(call[t].entry)
  /\ call' = [call EXCEPT ![t] = Nil]
  /\ UNCHANGED <<ht, dups, timer_id, ref_cnt, now, poll, leaked>>

(* PJ_ENOMEM out of grow_heap: the id is already taken and stored. *)
ScheduleNoMemory(t) ==
  LET c == call[t] IN
  /\ GrowMayFail
  /\ ~Lost /\ c # Nil /\ ~Running(c.entry)
  /\ MustGrow(ht)
  /\ timer_id' = [timer_id EXCEPT ![c.entry] = ht.free]
  /\ ht' = pop_freelist(ht)
  /\ leaked' = leaked \cup {ht.free}
  /\ call' = [call EXCEPT ![t] = Nil]
  /\ UNCHANGED <<dups, ref_cnt, now, poll>>

(* Mutant: the cancelled timer's reference stays. *)
CancelKeepsRef(t, e) ==
  LET id == timer_id[e] IN
  /\ MayCall(t)
  /\ id >= 1 /\ id < ht.max
  /\ ht.ids[id] >= 0
  /\ dups[ht.heap[ht.ids[id]]].entry = e
  /\ remove_node(ht.ids[id])
  /\ UNCHANGED <<ref_cnt, now, call, poll, leaked>>

(* Found: taken out and its reference dropped, all under the lock. *)
cancel_timer(t, e) ==
  LET id == timer_id[e] IN
  /\ MayCall(t)
  /\ id >= 1 /\ id < ht.max
  /\ ht.ids[id] >= 0
  /\ dups[ht.heap[ht.ids[id]]].entry = e
  /\ remove_node(ht.ids[id])
  /\ ref_cnt' = ref_cnt - (IF dups[id].grp THEN 1 ELSE 0)
  /\ UNCHANGED <<now, call, poll, leaked>>

(* Not found although it has an id in range: the id is forgotten. *)
CancelStale(t, e) ==
  LET id == timer_id[e] IN
  /\ MayCall(t)
  /\ id >= 1 /\ id < ht.max
  /\ \/ ht.ids[id] < 0
     \/ ht.ids[id] >= 0 /\ dups[ht.heap[ht.ids[id]]].entry # e
  /\ timer_id' = [timer_id EXCEPT ![e] = -1]
  /\ UNCHANGED <<ht, dups, ref_cnt, now, call, poll, leaked>>

(* Mutant: the last node of the heap is not looked at. *)
ExpiredBehind(count) == ht.size > 1 /\ dups[ht.heap[0]].time <= now /\ count < MaxPerPoll

(* The loop test of pj_timer_heap_poll, under the lock. *)
Expired(count) == ht.size > 0 /\ dups[ht.heap[0]].time <= now /\ count < MaxPerPoll

PollTurn(t, count) ==
  IF Expired(count)
  THEN /\ remove_node(0)
       /\ poll' = [poll EXCEPT ![t] = [at    |-> "callback",
                                       entry |-> dups[ht.heap[0]].entry,
                                       grp   |-> dups[ht.heap[0]].grp,
                                       count |-> count + 1]]
  ELSE /\ poll' = [poll EXCEPT ![t] = NotPolling]
       /\ UNCHANGED <<ht, dups, timer_id>>

PollBegin(t) ==
  /\ ~Lost /\ call[t] = Nil /\ poll[t].at = "idle"
  /\ PollTurn(t, 0)
  /\ UNCHANGED <<ref_cnt, now, call, leaked>>

(* The callback returns; the timer's reference is dropped, still unlocked. *)
CallbackReturns(t) ==
  /\ call[t] = Nil /\ poll[t].at = "callback"
  /\ ref_cnt' = ref_cnt - (IF poll[t].grp THEN 1 ELSE 0)
  /\ poll' = [poll EXCEPT ![t] = [at |-> "relock", count |-> poll[t].count]]
  /\ UNCHANGED <<ht, dups, timer_id, now, call, leaked>>

PollContinue(t) ==
  /\ ~Lost /\ poll[t].at = "relock"
  /\ PollTurn(t, poll[t].count)
  /\ UNCHANGED <<ref_cnt, now, call, leaked>>

Tick == /\ now < MaxTime
        /\ now' = now + 1
        /\ UNCHANGED <<ht, dups, timer_id, ref_cnt, call, poll, leaked>>

Polling(t) == PollBegin(t) \/ CallbackReturns(t) \/ PollContinue(t)
Scheduling(t) == schedule_w_grp_lock(t) \/ ScheduleRefused(t) \/ ScheduleNoMemory(t)

Next == \/ Tick
        \/ \E t \in Threads :
             \/ Polling(t) \/ Scheduling(t)
             \/ \E e \in Entries : \/ cancel_timer(t, e) \/ CancelStale(t, e)
                                   \/ \E delay \in Delays : ScheduleCall(t, e, delay)
        \/ Lost /\ UNCHANGED vars

(* The clock advances; a thread gets the lock it waits for, comes back from *)
(* its callbacks, and polls again when it is done.                          *)
Fairness == /\ WF_vars(Tick)
            /\ \A t \in Threads : WF_vars(Polling(t) \/ Scheduling(t))

Spec == Init /\ [][Next]_vars
FairSpec == Spec /\ Fairness
-----------------------------------------------------------------------------
InHeap == {ht.heap[i] : i \in 0 .. ht.size - 1}
NodesOf(e) == {id \in InHeap : dups[id].entry = e}

(* The earliest timer is always at heap[0]: no parent expires after its     *)
(* child, after any mix of insertions, removals from the middle and growth. *)
HeapOrdered == \A i \in 0 .. ht.size - 1 : ~Before(dups, ht.heap[i], ht.heap[HEAP_PARENT(i)])

(* Following the free list from timer_ids_freelist. *)
NextFree(id) == IF id \in 1 .. ht.max - 1 /\ ht.ids[id] < 0 THEN -ht.ids[id] ELSE id
FreeWalk == LET f[n \in 0 .. ht.max] == IF n = 0 THEN ht.free ELSE NextFree(f[n - 1]) IN f

FreeIds == (1 .. ht.max - 1) \ InHeap
FreeListExact == {FreeWalk[n] : n \in 0 .. ht.max} = (FreeIds \ leaked) \cup {ht.max}

(* timer_ids serves two purposes at once: for every node in the heap it has *)
(* the node's slot, and the remaining ids form one free list that visits    *)
(* each of them and ends just past the array, where growth continues it;    *)
(* while no growth has failed there is always an id left to take.           *)
IndexConsistent ==
  ~Lost => /\ \A i \in 0 .. ht.size - 1 : ht.heap[i] # 0 /\ ht.ids[ht.heap[i]] = i
           /\ \A id \in FreeIds : ht.ids[id] < 0
           /\ FreeListExact
           /\ leaked = {} => ht.free < ht.max

(* A schedule that finds no memory for growth does no more harm than it     *)
(* must: every entry in the heap can still be cancelled (it has the id of   *)
(* its node, and none is there twice), and the ids missing from the free    *)
(* list are the ones the failed schedules took.  That holds until a         *)
(* schedule takes an id from beyond the end of the list they shortened.     *)
FailedGrowthContained ==
  ~Lost => /\ \A id \in InHeap : dups[id].entry # Nil /\ timer_id[dups[id].entry] = id
           /\ FreeListExact

(* The heap implements the timer set: an entry fires at most once per       *)
(* scheduling, only when expired and only the earliest one, is never both   *)
(* cancelled and called back, and its group lock reference follows it.      *)
(* Growth may fail; what happens after a schedule has taken an id from      *)
(* beyond the free list's end is not claimed.                               *)
Timers == INSTANCE TimerSet WITH
  running <- [e \in Entries |-> IF NodesOf(e) = {} THEN Nil
                                ELSE LET id == CHOOSE n \in NodesOf(e) : TRUE
                                     IN [time |-> dups[id].time, grp |-> dups[id].grp]],
  firing  <- [t \in Threads |-> IF poll[t].at = "callback"
                                THEN [entry |-> poll[t].entry, grp |-> poll[t].grp]
                                ELSE Nil]
ImplementsTimerSet == Timers!Init /\ [][Lost \/ UNCHANGED Timers!vars \/ Timers!Next]_(Timers!vars)

(* A timer that was scheduled fires or is cancelled in the end, unless the  *)
(* free list is lost first.                                                 *)
EveryTimerEnds == \A e \in Entries : NodesOf(e) # {} ~> NodesOf(e) = {} \/ Lost
=============================================================================
