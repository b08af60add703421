---------------------------- MODULE ThreadLocal ----------------------------
(***************************************************************************)
(* What pj_thread_local_alloc/free/set/get promise their callers, with no   *)
(* table, slot or generation in sight: every thread has its own cell for    *)
(* every allocated key, a cell is NULL until its owner stores into it, and  *)
(* nothing but the owner's own store, the end of the owner's registration   *)
(* or the death of the key changes it.                                      *)
(***************************************************************************)
CONSTANTS Threads, Keys, Values, NULL

VARIABLES keys,    \* the allocated keys
          store    \* store[t][k]: what t reads under k

vars == <<keys, store>>

Empty == [k \in Keys |-> NULL]

Init == /\ keys = {}
        /\ store = [t \in Threads |-> Empty]

(* A key starts and ends its life NULL for every thread. *)
WipeKey(k) == store' = [t \in Threads |-> [store[t] EXCEPT ![k] = NULL]]

Alloc(k) == /\ k \notin keys
            /\ keys' = keys \cup {k}
            /\ WipeKey(k)

Free(k) == /\ keys' = keys \ {k}
           /\ WipeKey(k)

Set(t, k, v) == /\ k \in keys
                /\ store' = [store EXCEPT ![t][k] = v]
                /\ UNCHANGED keys

ClearThread(t) == /\ store' = [store EXCEPT ![t] = Empty]
                  /\ UNCHANGED keys

Next == \/ \E k \in Keys : Alloc(k) \/ Free(k)
        \/ \E t \in Threads, k \in Keys, v \in Values \cup {NULL} : Set(t, k, v)
        \/ \E t \in Threads : ClearThread(t)

Spec == Init /\ [][Next]_vars
=============================================================================
