-------------------------- MODULE ZephyrTlsProofs --------------------------
(***************************************************************************)
(* Proofs about the Zephyr TLS table, for any number of keys, slots,        *)
(* threads and any generation width.                                        *)
(***************************************************************************)
EXTENDS ZephyrTls, TLAPS

(* NextGeneration stays inside the unsigned range and never yields 0. *)
LEMMA NextGenerationRange ==
  ASSUME NEW g \in 0 .. GenMod - 1
  PROVE  NextGeneration(g) \in 1 .. GenMod - 1
<1>1. (g + 1) % GenMod \in 0 .. GenMod - 1
  BY TlsAssumption, SMT
<1> QED  BY <1>1, TlsAssumption, SMT DEF NextGeneration

(* Below the top of the range the generation simply counts. *)
LEMMA NextGenerationCounts ==
  ASSUME NEW g \in Nat, g + 1 < GenMod
  PROVE  NextGeneration(g) = g + 1
<1>1. (g + 1) % GenMod = g + 1
  BY TlsAssumption, SMT
<1> QED  BY <1>1, SMT DEF NextGeneration

(* Every operation on the table keeps every variable in its range. *)
THEOREM TypeCorrect == Spec => []TypeOK
<1>1. Init => TypeOK
  BY TlsAssumption DEF Init, TypeOK, ZeroValues, ZeroGenerations, Keys, Slots
<1>2. TypeOK /\ [Next]_vars => TypeOK'
  <2> SUFFICES ASSUME TypeOK, [Next]_vars PROVE TypeOK'
    OBVIOUS
  <2> USE DEF TypeOK
  <2>1. ASSUME NEW k \in Keys, NewGeneration(k)
        PROVE  /\ generation' \in [Keys -> 0 .. GenMod - 1]
               /\ epoch' \in [Keys -> 0 .. MaxEpoch]
    <3>1. NextGeneration(generation[k]) \in 0 .. GenMod - 1
      BY NextGenerationRange, TlsAssumption
    <3>2. epoch[k] + 1 \in 0 .. MaxEpoch
      BY <2>1, TlsAssumption DEF NewGeneration
    <3> QED  BY <2>1, <3>1, <3>2 DEF NewGeneration
  <2>2. ASSUME NEW k \in Keys, pj_thread_local_alloc(k) PROVE TypeOK'
    BY <2>1, <2>2 DEF pj_thread_local_alloc, table
  <2>3. ASSUME NEW k \in Keys, pj_thread_local_free(k) PROVE TypeOK'
    BY <2>1, <2>3 DEF pj_thread_local_free, table
  <2>4. ASSUME NEW t \in Threads, NEW k \in Keys, NEW v \in Values \cup {NULL},
               pj_thread_local_set(t, k, v)
        PROVE  TypeOK'
    <3>1. PICK s \in Slots : Store(t, k, v, s)
      BY <2>4 DEF pj_thread_local_set
    <3>2. ZeroValues \in [Keys -> Values \cup {NULL}]
      BY DEF ZeroValues
    <3>3. ZeroGenerations \in [Keys -> 0 .. GenMod - 1]
      BY TlsAssumption DEF ZeroGenerations
    <3> QED  BY <2>4, <3>1, <3>2, <3>3 DEF pj_thread_local_set, Store
  <2>5. ASSUME NEW t \in Threads, zephyr_tls_clear_thread(t) PROVE TypeOK'
    <3>1. CASE UNCHANGED table
      BY <2>5, <3>1 DEF zephyr_tls_clear_thread, table
    <3>2. CASE \E s \in Slots : ReleaseSlot(s)
      <4>1. PICK s \in Slots : ReleaseSlot(s)
        BY <3>2
      <4>2. /\ ZeroValues \in [Keys -> Values \cup {NULL}]
            /\ ZeroGenerations \in [Keys -> 0 .. GenMod - 1]
        BY TlsAssumption DEF ZeroValues, ZeroGenerations
      <4> QED  BY <2>5, <4>1, <4>2 DEF zephyr_tls_clear_thread, ReleaseSlot
    <3> QED  BY <2>5, <3>1, <3>2 DEF zephyr_tls_clear_thread
  <2>6. CASE UNCHANGED vars
    BY <2>6 DEF vars, table
  <2> QED  BY <2>2, <2>3, <2>4, <2>5, <2>6 DEF Next
<1> QED  BY <1>1, <1>2, PTL DEF Spec

(* A step leaves no thread with two slots: pj_thread_local_set takes a free *)
(* slot only when its search met no slot of the calling thread.             *)
LEMMA OneSlotStep ==
  ASSUME TypeOK, OneSlotPerThread, [Next]_vars PROVE OneSlotPerThread'
<1> USE DEF TypeOK, OneSlotPerThread
<1>1. ASSUME NEW k \in Keys, pj_thread_local_alloc(k) \/ pj_thread_local_free(k)
      PROVE  OneSlotPerThread'
  BY <1>1 DEF pj_thread_local_alloc, pj_thread_local_free, table
<1>2. ASSUME NEW t \in Threads, NEW k \in Keys, NEW v \in Values \cup {NULL},
             pj_thread_local_set(t, k, v)
      PROVE  OneSlotPerThread'
  <2>1. PICK s \in Slots : IsEntryFor(t, s) /\ Store(t, k, v, s)
    BY <1>2 DEF pj_thread_local_set
  <2>2. thread' = [thread EXCEPT ![s] = t]
    BY <2>1 DEF Store
  <2>3. \A r \in Slots : thread[r] = t => r = s
    BY <2>1, TlsAssumption DEF IsEntryFor
  <2> QED  BY <2>2, <2>3
<1>3. ASSUME NEW t \in Threads, zephyr_tls_clear_thread(t)
      PROVE  OneSlotPerThread'
  <2>1. CASE UNCHANGED table
    BY <2>1 DEF table
  <2>2. CASE \E s \in Slots : ReleaseSlot(s)
    <3>1. PICK s \in Slots : thread' = [thread EXCEPT ![s] = NULL]
      BY <2>2 DEF ReleaseSlot
    <3> QED  BY <3>1
  <2> QED  BY <1>3, <2>1, <2>2 DEF zephyr_tls_clear_thread
<1>4. CASE UNCHANGED vars
  BY <1>4 DEF vars, table
<1> QED  BY <1>1, <1>2, <1>3, <1>4 DEF Next

(* No thread ever owns two slots of zephyr_tls_threads. *)
THEOREM SlotsUnique == Spec => []OneSlotPerThread
<1>1. Init => OneSlotPerThread
  BY DEF Init, OneSlotPerThread
<1>2. TypeOK /\ OneSlotPerThread /\ [Next]_vars => OneSlotPerThread'
  BY OneSlotStep
<1> QED  BY <1>1, <1>2, TypeCorrect, PTL DEF Spec

(* Wiped cells never look stored: allocated keys have non-zero generations. *)
THEOREM GenerationNonZero == Spec => []LiveKeyGenerationNonZero
<1>1. Init => LiveKeyGenerationNonZero
  BY DEF Init, LiveKeyGenerationNonZero
<1>2. TypeOK /\ LiveKeyGenerationNonZero /\ [Next]_vars => LiveKeyGenerationNonZero'
  <2> SUFFICES ASSUME TypeOK, LiveKeyGenerationNonZero, [Next]_vars
               PROVE  LiveKeyGenerationNonZero'
    OBVIOUS
  <2> USE DEF LiveKeyGenerationNonZero
  <2>1. ASSUME NEW k \in Keys, pj_thread_local_alloc(k) \/ pj_thread_local_free(k)
        PROVE  LiveKeyGenerationNonZero'
    <3>1. NextGeneration(generation[k]) # 0
      BY NextGenerationRange DEF TypeOK
    <3> QED  BY <2>1, <3>1
             DEF TypeOK, pj_thread_local_alloc, pj_thread_local_free, NewGeneration
  <2>2. ASSUME NEW t \in Threads, NEW k \in Keys, NEW v \in Values \cup {NULL},
               pj_thread_local_set(t, k, v)
        PROVE  LiveKeyGenerationNonZero'
    BY <2>2 DEF pj_thread_local_set
  <2>3. ASSUME NEW t \in Threads, zephyr_tls_clear_thread(t)
        PROVE  LiveKeyGenerationNonZero'
    BY <2>3 DEF zephyr_tls_clear_thread
  <2>4. CASE UNCHANGED vars
    BY <2>4 DEF vars
  <2> QED  BY <2>1, <2>2, <2>3, <2>4 DEF Next
<1> QED  BY <1>1, <1>2, TypeCorrect, PTL DEF Spec
-----------------------------------------------------------------------------
(* What pj_thread_local_get returns, slot by slot. *)
GetFacts ==
  \A t \in Threads, k \in Keys :
    /\ \A s \in Slots : thread[s] = t =>
         pj_thread_local_get(t, k) =
           IF k \in keys /\ value_generation[s][k] = generation[k]
           THEN values[s][k] ELSE NULL
    /\ (\A s \in Slots : thread[s] # t) => pj_thread_local_get(t, k) = NULL

(* With one slot per thread the search of pj_thread_local_get has at most   *)
(* one candidate.                                                           *)
LEMMA GetCharacterised == OneSlotPerThread => GetFacts
<1> SUFFICES ASSUME OneSlotPerThread, NEW t \in Threads, NEW k \in Keys
             PROVE  /\ \A s \in Slots : thread[s] = t =>
                         pj_thread_local_get(t, k) =
                           IF k \in keys /\ value_generation[s][k] = generation[k]
                           THEN values[s][k] ELSE NULL
                    /\ (\A s \in Slots : thread[s] # t) =>
                         pj_thread_local_get(t, k) = NULL
  BY DEF GetFacts
<1>1. ASSUME NEW s \in Slots, thread[s] = t
      PROVE  pj_thread_local_get(t, k) =
               IF k \in keys /\ value_generation[s][k] = generation[k]
               THEN values[s][k] ELSE NULL
  <2>1. \A r \in ValidSlots(t, k) : r = s
    BY <1>1, TlsAssumption DEF ValidSlots, OneSlotPerThread
  <2>2. CASE value_generation[s][k] = generation[k]
    <3>1. ValidSlots(t, k) = {s}
      BY <1>1, <2>1, <2>2 DEF ValidSlots
    <3>2. FirstOf({s}) = s
      BY TlsAssumption DEF Slots, FirstOf
    <3> QED  BY <2>2, <3>1, <3>2 DEF pj_thread_local_get
  <2>3. CASE value_generation[s][k] # generation[k]
    <3>1. ValidSlots(t, k) = {}
      BY <2>1, <2>3 DEF ValidSlots
    <3> QED  BY <2>3, <3>1 DEF pj_thread_local_get
  <2> QED  BY <2>2, <2>3
<1>2. ASSUME \A s \in Slots : thread[s] # t
      PROVE  pj_thread_local_get(t, k) = NULL
  BY <1>2 DEF pj_thread_local_get, ValidSlots
<1> QED  BY <1>1, <1>2

(* The same after a step. *)
LEMMA GetCharacterisedPrime == OneSlotPerThread' => GetFacts'
BY GetCharacterised, PTL

(* While no generation can wrap, generations count the lives of their key   *)
(* and no cell carries a stamp from the future.                             *)
StampsInPast ==
  /\ \A k \in Keys : generation[k] = epoch[k]
  /\ \A s \in Slots, k \in Keys : value_generation[s][k] <= epoch[k]

(* StampsInPast and the other invariants are kept by every step. *)
LEMMA StampsStep ==
  ASSUME MaxEpoch < GenMod, TypeOK, StampsInPast, [Next]_vars
  PROVE  StampsInPast'
<1> USE DEF TypeOK, StampsInPast
<1>1. ASSUME NEW k \in Keys, NewGeneration(k), UNCHANGED table
      PROVE  StampsInPast'
  <2>1. NextGeneration(generation[k]) = epoch[k] + 1
    <3>1. generation[k] \in Nat /\ generation[k] + 1 < GenMod
      BY <1>1, TlsAssumption DEF NewGeneration
    <3> QED  BY <3>1, NextGenerationCounts
  <2>2. /\ epoch' = [epoch EXCEPT ![k] = @ + 1]
        /\ generation' = [generation EXCEPT ![k] = epoch[k] + 1]
        /\ value_generation' = value_generation
    BY <1>1, <2>1 DEF NewGeneration, table
  <2>3. \A j \in Keys : epoch'[j] \in Nat /\ epoch[j] <= epoch'[j]
    BY <2>2, TlsAssumption
  <2>4. \A j \in Keys : generation'[j] = epoch'[j]
    BY <2>2
  <2>5. \A s \in Slots, j \in Keys : value_generation'[s][j] <= epoch'[j]
    BY <2>2, <2>3, TlsAssumption
  <2> QED  BY <2>4, <2>5
<1>2. ASSUME NEW t \in Threads, NEW k \in Keys, NEW v \in Values \cup {NULL},
             pj_thread_local_set(t, k, v)
      PROVE  StampsInPast'
  <2>1. PICK s \in Slots : Store(t, k, v, s)
    BY <1>2 DEF pj_thread_local_set
  <2>2. \A r \in Slots, j \in Keys :
          value_generation'[r][j] \in {0, value_generation[r][j], generation[j]}
    BY <2>1 DEF Store, ZeroGenerations
  <2>3. epoch' = epoch /\ generation' = generation
    BY <1>2 DEF pj_thread_local_set
  <2>4. ASSUME NEW r \in Slots, NEW j \in Keys
        PROVE  value_generation'[r][j] <= epoch[j]
    <3>1. 0 <= epoch[j]
      BY TlsAssumption
    <3>2. value_generation[r][j] <= epoch[j] /\ generation[j] <= epoch[j]
      BY TlsAssumption
    <3> QED  BY <2>2, <3>1, <3>2
  <2> QED  BY <2>3, <2>4
<1>3. ASSUME NEW t \in Threads, zephyr_tls_clear_thread(t)
      PROVE  StampsInPast'
  <2>1. \A r \in Slots, j \in Keys :
          value_generation'[r][j] \in {0, value_generation[r][j]}
    <3>1. CASE UNCHANGED table
      BY <3>1 DEF table
    <3>2. CASE \E s \in Slots : ReleaseSlot(s)
      <4>1. PICK s \in Slots : ReleaseSlot(s)
        BY <3>2
      <4> QED  BY <4>1 DEF ReleaseSlot, ZeroGenerations
    <3> QED  BY <1>3, <3>1, <3>2 DEF zephyr_tls_clear_thread
  <2> QED  BY <1>3, <2>1, TlsAssumption DEF zephyr_tls_clear_thread
<1>4. CASE UNCHANGED vars
  BY <1>4 DEF vars, table
<1> QED  BY <1>1, <1>2, <1>3, <1>4
         DEF Next, pj_thread_local_alloc, pj_thread_local_free

(* The refinement mapping's cells. *)
Cell == [t \in Threads |-> [k \in Keys |-> pj_thread_local_get(t, k)]]

IInv == TypeOK /\ OneSlotPerThread /\ LiveKeyGenerationNonZero /\ StampsInPast

(* Allocating or freeing k makes k's cell NULL for everyone (no stamp can   *)
(* equal the new generation) and leaves the other cells alone.              *)
LEMMA KeyStep ==
  ASSUME MaxEpoch < GenMod, IInv, IInv', NEW k \in Keys,
         pj_thread_local_alloc(k) \/ pj_thread_local_free(k)
  PROVE  Cells!Alloc(k) \/ Cells!Free(k)
<1>1. /\ thread' = thread /\ values' = values
      /\ value_generation' = value_generation
      /\ \A j \in Keys : j # k => generation'[j] = generation[j] /\ (j \in keys' <=> j \in keys)
      /\ epoch'[k] = epoch[k] + 1
  BY DEF IInv, TypeOK, pj_thread_local_alloc, pj_thread_local_free, NewGeneration, table
<1>2. \A s \in Slots : value_generation'[s][k] # generation'[k]
  BY <1>1, TlsAssumption DEF IInv, TypeOK, StampsInPast
<1>3. GetFacts /\ GetFacts'
  BY GetCharacterised, GetCharacterisedPrime DEF IInv
<1>4. ASSUME NEW t \in Threads, NEW j \in Keys
      PROVE  pj_thread_local_get(t, j)' = IF j = k THEN NULL ELSE pj_thread_local_get(t, j)
  <2>1. CASE \E s \in Slots : thread[s] = t
    <3>1. PICK s \in Slots : thread[s] = t
      BY <2>1
    <3>2. /\ pj_thread_local_get(t, j) =
               IF j \in keys /\ value_generation[s][j] = generation[j]
               THEN values[s][j] ELSE NULL
          /\ pj_thread_local_get(t, j)' =
               IF j \in keys' /\ value_generation'[s][j] = generation'[j]
               THEN values'[s][j] ELSE NULL
      BY <1>1, <1>3, <3>1 DEF GetFacts
    <3> QED  BY <1>1, <1>2, <3>2
  <2>2. CASE \A s \in Slots : thread[s] # t
    BY <1>1, <1>3, <2>2 DEF GetFacts
  <2> QED  BY <2>1, <2>2
<1>5. Cell' = [t \in Threads |-> [Cell[t] EXCEPT ![k] = NULL]]
  BY <1>4 DEF Cell
<1>6. Cells!WipeKey(k)
  BY <1>5 DEF Cells!WipeKey, Cell
<1>7. CASE pj_thread_local_alloc(k)
  BY <1>6, <1>7 DEF Cells!Alloc, pj_thread_local_alloc, IsFirstFreeKey
<1>8. CASE pj_thread_local_free(k)
  BY <1>6, <1>8 DEF Cells!Free, pj_thread_local_free
<1> QED  BY <1>7, <1>8

(* A store changes the calling thread's cell for that key and no other: a   *)
(* slot it takes from the free ones holds no valid stamp.                   *)
LEMMA SetStep ==
  ASSUME IInv, IInv', NEW t \in Threads, NEW k \in Keys, NEW v \in Values \cup {NULL},
         pj_thread_local_set(t, k, v)
  PROVE  Cells!Set(t, k, v)
<1>1. PICK s \in Slots : IsEntryFor(t, s) /\ Store(t, k, v, s)
  BY DEF pj_thread_local_set
<1>2. keys' = keys /\ generation' = generation /\ k \in keys
  BY DEF pj_thread_local_set
<1>3. GetFacts /\ GetFacts'
  BY GetCharacterised, GetCharacterisedPrime DEF IInv
<1>4. /\ thread' = [thread EXCEPT ![s] = t]
      /\ \A r \in Slots : r # s => /\ values'[r] = values[r]
                                   /\ value_generation'[r] = value_generation[r]
      /\ values'[s][k] = v /\ value_generation'[s][k] = generation[k]
      /\ thread'[s] = t
  BY <1>1 DEF Store, IInv, TypeOK, ZeroValues, ZeroGenerations
<1>5. ASSUME NEW u \in Threads, NEW j \in Keys
      PROVE  pj_thread_local_get(u, j)' =
               IF u = t /\ j = k THEN v ELSE pj_thread_local_get(u, j)
  <2>1. CASE u = t
    <3>1. pj_thread_local_get(t, j)' =
            IF j \in keys /\ value_generation'[s][j] = generation[j]
            THEN values'[s][j] ELSE NULL
      BY <1>2, <1>3, <1>4 DEF GetFacts
    <3>2. CASE j = k
      BY <1>2, <1>4, <2>1, <3>1, <3>2
    <3>3. CASE j # k /\ thread[s] = t
      <4>1. /\ values'[s][j] = values[s][j]
            /\ value_generation'[s][j] = value_generation[s][j]
        BY <1>1, <3>3, TlsAssumption DEF Store, IInv, TypeOK
      <4>2. pj_thread_local_get(t, j) =
              IF j \in keys /\ value_generation[s][j] = generation[j]
              THEN values[s][j] ELSE NULL
        BY <1>3, <3>3 DEF GetFacts
      <4> QED  BY <2>1, <3>1, <3>3, <4>1, <4>2
    <3>4. CASE j # k /\ thread[s] # t
      <4>1. thread[s] = NULL /\ \A r \in Slots : thread[r] # t
        BY <1>1, <3>4 DEF IsEntryFor
      <4>2. value_generation'[s][j] = 0
        BY <1>1, <3>4, <4>1 DEF Store, IInv, TypeOK, ZeroGenerations
      <4>3. pj_thread_local_get(t, j)' = NULL
        BY <3>1, <4>2 DEF IInv, LiveKeyGenerationNonZero
      <4>4. pj_thread_local_get(t, j) = NULL
        BY <1>3, <4>1 DEF GetFacts
      <4> QED  BY <2>1, <3>4, <4>3, <4>4
    <3> QED  BY <3>2, <3>3, <3>4
  <2>2. CASE u # t
    <3>1. thread[s] # u /\ \A r \in Slots : thread'[r] = u <=> thread[r] = u
      BY <1>1, <1>4, <2>2, TlsAssumption DEF IsEntryFor, IInv, TypeOK
    <3>2. CASE \E r \in Slots : thread[r] = u
      <4>1. PICK r \in Slots : thread[r] = u
        BY <3>2
      <4>2. /\ r # s /\ thread'[r] = u
            /\ values'[r] = values[r] /\ value_generation'[r] = value_generation[r]
        BY <1>4, <3>1, <4>1
      <4>3. /\ pj_thread_local_get(u, j) =
                 IF j \in keys /\ value_generation[r][j] = generation[j]
                 THEN values[r][j] ELSE NULL
            /\ pj_thread_local_get(u, j)' =
                 IF j \in keys' /\ value_generation'[r][j] = generation'[j]
                 THEN values'[r][j] ELSE NULL
        BY <1>3, <4>1, <4>2 DEF GetFacts
      <4> QED  BY <1>2, <2>2, <4>2, <4>3
    <3>3. CASE \A r \in Slots : thread[r] # u
      <4>1. \A r \in Slots : thread'[r] # u
        BY <3>1, <3>3
      <4> QED  BY <1>3, <2>2, <3>3, <4>1 DEF GetFacts
    <3> QED  BY <3>2, <3>3
  <2> QED  BY <2>1, <2>2
<1>6. Cell' = [Cell EXCEPT ![t][k] = v]
  BY <1>5 DEF Cell
<1> QED  BY <1>2, <1>6 DEF Cells!Set, Cell

(* Ending a thread's registration empties its cells and no other's. *)
LEMMA ClearStep ==
  ASSUME IInv, IInv', NEW t \in Threads, zephyr_tls_clear_thread(t)
  PROVE  Cells!ClearThread(t)
<1>1. keys' = keys /\ generation' = generation
  BY DEF zephyr_tls_clear_thread
<1>2. GetFacts /\ GetFacts'
  BY GetCharacterised, GetCharacterisedPrime DEF IInv
<1>3. /\ \A r \in Slots : thread'[r] # t
      /\ \A r \in Slots : thread[r] # t => /\ thread'[r] = thread[r]
                                           /\ values'[r] = values[r]
                                           /\ value_generation'[r] = value_generation[r]
  <2>1. CASE \A s \in Slots : thread[s] # t
    BY <2>1 DEF zephyr_tls_clear_thread, table
  <2>2. CASE \E s \in Slots : thread[s] = t
    <3>1. PICK s \in Slots : thread[s] = t /\ ReleaseSlot(s)
      BY <2>2 DEF zephyr_tls_clear_thread
    <3>2. \A r \in Slots : thread[r] = t => r = s
      BY <3>1, TlsAssumption DEF IInv, OneSlotPerThread
    <3> QED  BY <3>1, <3>2, TlsAssumption DEF ReleaseSlot, IInv, TypeOK
  <2> QED  BY <2>1, <2>2
<1>4. ASSUME NEW u \in Threads, NEW j \in Keys
      PROVE  pj_thread_local_get(u, j)' =
               IF u = t THEN NULL ELSE pj_thread_local_get(u, j)
  <2>1. CASE u = t
    BY <1>2, <1>3, <2>1 DEF GetFacts
  <2>2. CASE u # t /\ \E r \in Slots : thread[r] = u
    <3>1. PICK r \in Slots : thread[r] = u
      BY <2>2
    <3>2. /\ thread'[r] = u
          /\ values'[r] = values[r] /\ value_generation'[r] = value_generation[r]
      BY <1>3, <2>2, <3>1
    <3>3. /\ pj_thread_local_get(u, j) =
               IF j \in keys /\ value_generation[r][j] = generation[j]
               THEN values[r][j] ELSE NULL
          /\ pj_thread_local_get(u, j)' =
               IF j \in keys' /\ value_generation'[r][j] = generation'[j]
               THEN values'[r][j] ELSE NULL
      BY <1>2, <3>1, <3>2 DEF GetFacts
    <3> QED  BY <1>1, <2>2, <3>2, <3>3
  <2>3. CASE u # t /\ \A r \in Slots : thread[r] # u
    <3>1. \A r \in Slots : thread'[r] # u
      <4>1. CASE \A s \in Slots : thread[s] # t
        BY <1>3, <2>3, <4>1
      <4>2. CASE \E s \in Slots : thread[s] = t
        <5>1. PICK s \in Slots : ReleaseSlot(s)
          BY <4>2 DEF zephyr_tls_clear_thread
        <5> QED  BY <2>3, <5>1, TlsAssumption DEF ReleaseSlot, IInv, TypeOK
      <4> QED  BY <4>1, <4>2
    <3> QED  BY <1>2, <2>3, <3>1 DEF GetFacts
  <2> QED  BY <2>1, <2>2, <2>3
<1>5. Cell' = [Cell EXCEPT ![t] = ZeroValues]
  BY <1>4 DEF Cell, ZeroValues
<1> QED  BY <1>1, <1>5 DEF Cells!ClearThread, Cells!Empty, Cell, ZeroValues

(* The table implements per-thread cells for any number of keys, slots and  *)
(* threads, as long as no key changes hands as often as the generation      *)
(* counter has values.                                                      *)
THEOREM TableImplementsCells ==
  ASSUME MaxEpoch < GenMod PROVE Spec => IsolatedCells
<1>1. Init => StampsInPast
  BY TlsAssumption DEF Init, StampsInPast, ZeroGenerations, Keys, Slots
<1>2. TypeOK /\ StampsInPast /\ [Next]_vars => StampsInPast'
  BY StampsStep
<1>3. Spec => []IInv
  BY <1>1, <1>2, TypeCorrect, SlotsUnique, GenerationNonZero, PTL DEF Spec, IInv
<1>4. Init => Cells!Init
  <2> SUFFICES ASSUME Init PROVE Cells!Init
    OBVIOUS
  <2>1. \A t \in Threads, k \in Keys : pj_thread_local_get(t, k) = NULL
    BY DEF Init, pj_thread_local_get
  <2> QED  BY <2>1 DEF Init, Cells!Init, Cells!Empty
<1>5. IInv /\ IInv' /\ [Next]_vars => [Cells!Next]_(Cells!vars)
  <2> SUFFICES ASSUME IInv, IInv', [Next]_vars PROVE [Cells!Next]_(Cells!vars)
    OBVIOUS
  <2>1. ASSUME NEW k \in Keys, pj_thread_local_alloc(k) \/ pj_thread_local_free(k)
        PROVE  Cells!Next
    BY <2>1, KeyStep DEF Cells!Next
  <2>2. ASSUME NEW t \in Threads, NEW k \in Keys, NEW v \in Values \cup {NULL},
               pj_thread_local_set(t, k, v)
        PROVE  Cells!Next
    BY <2>2, SetStep DEF Cells!Next
  <2>3. ASSUME NEW t \in Threads, zephyr_tls_clear_thread(t)
        PROVE  Cells!Next
    BY <2>3, ClearStep DEF Cells!Next
  <2>4. CASE UNCHANGED vars
    BY <2>4 DEF vars, table, Cells!vars, pj_thread_local_get, ValidSlots
  <2> QED  BY <2>1, <2>2, <2>3, <2>4 DEF Next
<1> QED  BY <1>3, <1>4, <1>5, PTL DEF Spec, IsolatedCells, Cells!Spec
=============================================================================
