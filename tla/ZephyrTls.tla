----------------------------- MODULE ZephyrTls -----------------------------
(***************************************************************************)
(* The thread-local storage table of the Zephyr port (os_core_unix.c).      *)
(*                                                                         *)
(* Zephyr's pthread keys work only in pthread-created threads, so the port  *)
(* keeps one static table, protected by one spinlock: a bitmask of the      *)
(* allocated keys, a generation number per key, and one slot per thread     *)
(* with a value and the generation it was stored under for each key.        *)
(* Every operation runs under zephyr_tls_lock, so each is one step.         *)
(***************************************************************************)
EXTENDS Integers, FiniteSets

CONSTANTS Threads,      \* native thread ids (k_tid_t)
          Values,       \* the pointers callers store
          NULL,
          MaxKeys,      \* PJ_ZEPHYR_TLS_MAX_KEYS
          MaxThreads,   \* PJ_ZEPHYR_TLS_MAX_THREADS
          GenMod,       \* 2^32: generations are unsigned
          MaxEpoch      \* bound: how often one key changes hands in a behaviour

ASSUME TlsAssumption == /\ MaxKeys \in Nat \ {0}
                        /\ MaxThreads \in Nat \ {0}
                        /\ GenMod \in Nat \ {0, 1}
                        /\ MaxEpoch \in Nat
                        /\ NULL \notin Threads
                        /\ NULL \notin Values

Keys  == 0 .. MaxKeys - 1
Slots == 0 .. MaxThreads - 1

VARIABLES keys,              \* zephyr_tls_keys: the allocated keys
          generation,        \* zephyr_tls_generation
          thread,            \* zephyr_tls_threads[s].thread
          values,            \* zephyr_tls_threads[s].values
          value_generation,  \* zephyr_tls_threads[s].value_generation
          epoch              \* how often each key was allocated or freed (bound)

table == <<thread, values, value_generation>>
vars  == <<keys, generation, table, epoch>>

ZeroValues      == [k \in Keys |-> NULL]
ZeroGenerations == [k \in Keys |-> 0]

Init == /\ keys = {}
        /\ generation = ZeroGenerations
        /\ thread = [s \in Slots |-> NULL]
        /\ values = [s \in Slots |-> ZeroValues]
        /\ value_generation = [s \in Slots |-> ZeroGenerations]
        /\ epoch = ZeroGenerations
-----------------------------------------------------------------------------
(* ++zephyr_tls_generation[i], skipping 0 on wrap-around. *)
NextGeneration(g) == IF (g + 1) % GenMod = 0 THEN 1 ELSE (g + 1) % GenMod

(* A key changes hands: its generation moves on.  The guard is the bound. *)
NewGeneration(k) == /\ epoch[k] < MaxEpoch
                    /\ epoch' = [epoch EXCEPT ![k] = @ + 1]
                    /\ generation' = [generation EXCEPT ![k] = NextGeneration(@)]

(* The first clear bit of the mask. *)
IsFirstFreeKey(k) == k \notin keys /\ \A j \in Keys : j < k => j \in keys

pj_thread_local_alloc(k) == /\ IsFirstFreeKey(k)
                            /\ keys' = keys \cup {k}
                            /\ NewGeneration(k)
                            /\ UNCHANGED table

(* Frees any index in range, allocated or not. *)
pj_thread_local_free(k) == /\ NewGeneration(k)
                           /\ keys' = keys \ {k}
                           /\ UNCHANGED table

(* Mutant: the search stops at the first free slot, before t's own. *)
FirstUsableSlot(t, s) == /\ thread[s] \in {t, NULL}
                         /\ \A r \in Slots : r < s => thread[r] \notin {t, NULL}

(* The slot the search loop of pj_thread_local_set ends with: t's own slot  *)
(* wherever it is, else the first free one.                                 *)
IsEntryFor(t, s) ==
  \/ /\ thread[s] = t
     /\ \A r \in Slots : r < s => thread[r] # t
  \/ /\ thread[s] = NULL
     /\ \A r \in Slots : thread[r] # t
     /\ \A r \in Slots : r < s => thread[r] # NULL

(* A slot taken from the free ones is wiped before it is used. *)
Store(t, k, v, s) ==
  LET fresh == thread[s] = NULL
      vs    == IF fresh THEN ZeroValues ELSE values[s]
      gs    == IF fresh THEN ZeroGenerations ELSE value_generation[s]
  IN /\ thread' = [thread EXCEPT ![s] = t]
     /\ values' = [values EXCEPT ![s] = [vs EXCEPT ![k] = v]]
     /\ value_generation' =
          [value_generation EXCEPT ![s] = [gs EXCEPT ![k] = generation[k]]]

(* PJ_SUCCESS.  The PJ_EINVAL and PJ_ETOOMANY returns change nothing. *)
pj_thread_local_set(t, k, v) == /\ k \in keys
                                /\ \E s \in Slots : IsEntryFor(t, s) /\ Store(t, k, v, s)
                                /\ UNCHANGED <<keys, generation, epoch>>

(* PJ_ETOOMANY: neither an own nor a free slot. *)
TlsTableFull(t) == \A s \in Slots : thread[s] \notin {t, NULL}

(* Mutant: a value is returned whatever generation it was stored under. *)
GetAnyGeneration(t, k) ==
  IF k \in keys /\ \E s \in Slots : thread[s] = t
  THEN values[CHOOSE s \in Slots : thread[s] = t][k]
  ELSE NULL

(* The slots whose value for k is t's, stored in k's present life. *)
ValidSlots(t, k) == {s \in Slots : thread[s] = t /\ value_generation[s][k] = generation[k]}

FirstOf(S) == CHOOSE s \in S : \A r \in S : s <= r

(* What t reads under k: from the first valid slot, else NULL. *)
pj_thread_local_get(t, k) ==
  IF k \in keys /\ ValidSlots(t, k) # {}
  THEN values[FirstOf(ValidSlots(t, k))][k]
  ELSE NULL

ReleaseSlot(s) == /\ thread' = [thread EXCEPT ![s] = NULL]
                  /\ values' = [values EXCEPT ![s] = ZeroValues]
                  /\ value_generation' = [value_generation EXCEPT ![s] = ZeroGenerations]

(* Frees t's first slot, if it has one. *)
zephyr_tls_clear_thread(t) ==
  /\ \/ \E s \in Slots : /\ thread[s] = t
                         /\ \A r \in Slots : r < s => thread[r] # t
                         /\ ReleaseSlot(s)
     \/ (\A s \in Slots : thread[s] # t) /\ UNCHANGED table
  /\ UNCHANGED <<keys, generation, epoch>>

Next == \/ \E k \in Keys : pj_thread_local_alloc(k) \/ pj_thread_local_free(k)
        \/ \E t \in Threads, k \in Keys, v \in Values \cup {NULL} :
              pj_thread_local_set(t, k, v)
        \/ \E t \in Threads : zephyr_tls_clear_thread(t)

Spec == Init /\ [][Next]_vars
-----------------------------------------------------------------------------
(* Every variable stays in its C type's range. *)
TypeOK ==
  /\ keys \subseteq Keys
  /\ generation \in [Keys -> 0 .. GenMod - 1]
  /\ thread \in [Slots -> Threads \cup {NULL}]
  /\ values \in [Slots -> [Keys -> Values \cup {NULL}]]
  /\ value_generation \in [Slots -> [Keys -> 0 .. GenMod - 1]]
  /\ epoch \in [Keys -> 0 .. MaxEpoch]

(* No thread ever owns two slots of zephyr_tls_threads: otherwise           *)
(* pj_thread_local_set and pj_thread_local_get could work on different      *)
(* copies, and zephyr_tls_clear_thread would leave one behind.              *)
OneSlotPerThread ==
  \A r, s \in Slots : thread[r] = thread[s] /\ thread[r] # NULL => r = s

(* An allocated key never has generation 0, the generation of a wiped cell, *)
(* even after its counter wrapped: a cell the thread never stored into is   *)
(* never taken for a stored value.                                          *)
LiveKeyGenerationNonZero == \A k \in keys : generation[k] # 0

(* The table behaves like per-thread cells.  As long as no key changes      *)
(* hands 2^32 - 1 times, no sequence of pj_thread_local_alloc, free, set    *)
(* and zephyr_tls_clear_thread lets a thread read another thread's value,   *)
(* a value stored under a previous owner of the key, or a value left in a   *)
(* recycled slot.                                                           *)
Cells == INSTANCE ThreadLocal WITH
           store <- [t \in Threads |-> [k \in Keys |-> pj_thread_local_get(t, k)]]
IsolatedCells == Cells!Spec
=============================================================================
