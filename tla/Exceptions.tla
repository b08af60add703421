----------------------------- MODULE Exceptions -----------------------------
(***************************************************************************)
(* PJLIB's exceptions (except.c): PJ_TRY, PJ_THROW, PJ_CATCH and PJ_END.    *)
(*                                                                         *)
(* A thread's open handlers form a list through prev; its head is the       *)
(* thread's value of one thread-local key, allocated without a lock by the  *)
(* first PJ_TRY of the process and freed by an atexit function.  The steps  *)
(* run on the port's own table, module ZephyrTls.  A handler is             *)
(* <<thread, nesting level>>: it lives in the stack frame of its PJ_TRY.    *)
(***************************************************************************)
EXTENDS ZephyrTls, Sequences

CONSTANTS Users,       \* the threads that use exceptions
          MaxNest,     \* bound: nested PJ_TRY blocks of one thread
          MaxAtexit    \* PJ_ARRAY_SIZE(atexit_func)

VARIABLES thread_local_id,  \* the key, -1 before the first PJ_TRY
          atexit_func,      \* the registered functions, oldest first
          at,               \* where each thread is; "run" is application code
          try,              \* how many PJ_TRY blocks each thread has open
          rec,              \* the handler a thread is popping, or caught with
          prev,             \* rec->prev of each handler
          nest,             \* bound: how many blocks a thread nests in this behaviour
          raced,            \* history: two first PJ_TRYs both allocated a key
          leaked            \* history: keys whose only reference was lost

excvars == <<thread_local_id, try, rec, prev, nest, raced>>

Handlers == Threads \X (1 .. MaxNest)

ExcInit == /\ thread_local_id = -1
           /\ try = [t \in Threads |-> 0]
           /\ rec = [t \in Threads |-> NULL]
           /\ prev = [h \in Handlers |-> NULL]
           /\ raced = FALSE

Go(t, place) == at' = [at EXCEPT ![t] = place]

(* The thread's innermost handler, as the code finds it. *)
Head_(t) == pj_thread_local_get(t, thread_local_id)

(* pj_thread_local_set with its result ignored: nothing happens when the    *)
(* key is not allocated or the table is full.                               *)
SetHead(t, h) ==
  IF thread_local_id \in keys /\ ~TlsTableFull(t)
  THEN pj_thread_local_set(t, thread_local_id, h)
  ELSE UNCHANGED vars
-----------------------------------------------------------------------------
(* pj_atexit: PJ_ETOOMANY when the array is full. *)
pj_atexit(f) == IF Len(atexit_func) < MaxAtexit
                THEN atexit_func' = Append(atexit_func, f)
                ELSE UNCHANGED atexit_func

(* PJ_TRY: pj_push_exception_handler_ tests thread_local_id without a lock. *)
PushBegin(t) == /\ at[t] = "run"
                /\ try[t] < nest[t]
                /\ Go(t, IF thread_local_id = -1 THEN "alloc" ELSE "link")
                /\ UNCHANGED <<vars, excvars, atexit_func, leaked>>

(* With every key taken the assertion after the call stops the thread. *)
PushAlloc(t) ==
  /\ at[t] = "alloc"
  /\ \E k \in Keys : /\ pj_thread_local_alloc(k)
                     /\ thread_local_id' = k
  /\ raced' = (raced \/ thread_local_id # -1)
  /\ leaked' = leaked \cup ({thread_local_id} \ {-1})
  /\ Go(t, "atexit")
  /\ UNCHANGED <<try, rec, prev, nest, atexit_func>>

(* atexit_func[atexit_count++] is not atomic: of two threads here, one may  *)
(* overwrite the other's entry.                                             *)
PushAtexit(t) ==
  /\ at[t] = "atexit"
  /\ \/ pj_atexit("exception_cleanup")
     \/ /\ \E u \in Users \ {t} : at[u] = "atexit"
        /\ UNCHANGED atexit_func
  /\ Go(t, "link")
  /\ UNCHANGED <<vars, excvars, leaked>>

PushLink(t) == /\ at[t] = "link"
               /\ prev' = [prev EXCEPT ![<<t, try[t] + 1>>] = Head_(t)]
               /\ Go(t, "set")
               /\ UNCHANGED <<vars, thread_local_id, try, rec, nest, raced, atexit_func, leaked>>

(* The handler is in place, and pj_setjmp returns 0: the block is open. *)
PushSet(t) == /\ at[t] = "set"
              /\ SetHead(t, <<t, try[t] + 1>>)
              /\ try' = [try EXCEPT ![t] = @ + 1]
              /\ Go(t, "run")
              /\ UNCHANGED <<thread_local_id, rec, prev, nest, raced, atexit_func, leaked>>
-----------------------------------------------------------------------------
(* A handler's stack frame is left. *)
FrameGone(h) == prev' = [prev EXCEPT ![h] = NULL]

(* PJ_THROW inside a block, or inside the catch clause of an inner one.     *)
(* With no handler the program has no place to go on.                       *)
pj_throw_exception_(t) ==
  /\ at[t] \in {"run", "catch"}
  /\ try[t] > 0
  /\ rec' = [rec EXCEPT ![t] = Head_(t)]
  /\ Go(t, IF Head_(t) = NULL THEN "crashed" ELSE "throw")
  /\ IF at[t] = "catch" THEN FrameGone(rec[t]) ELSE UNCHANGED prev
  /\ UNCHANGED <<vars, thread_local_id, try, nest, raced, atexit_func, leaked>>

(* PJ_END after a block that threw nothing: the block's own handler goes. *)
EndTry(t) == /\ at[t] = "run"
             /\ try[t] > 0
             /\ rec' = [rec EXCEPT ![t] = <<t, try[t]>>]
             /\ try' = [try EXCEPT ![t] = @ - 1]
             /\ Go(t, "end")
             /\ UNCHANGED <<vars, thread_local_id, prev, nest, raced, atexit_func, leaked>>

(* PJ_END after a catch clause pops the caught handler a second time. *)
EndCatch(t) == /\ at[t] = "catch"
               /\ Go(t, "end")
               /\ UNCHANGED <<vars, excvars, atexit_func, leaked>>

(* handler && handler==rec *)
PopMatches(t) == Head_(t) # NULL /\ Head_(t) = rec[t]

(* pj_longjmp(handler->state): control is in the catch clause of the        *)
(* handler's block; the blocks around it are still open.                    *)
LongJump(t) == /\ Go(t, "catch")
               /\ try' = [try EXCEPT ![t] = rec[t][2] - 1]
               /\ UNCHANGED <<rec, prev>>

BlockLeft(t) == /\ Go(t, "run")
                /\ rec' = [rec EXCEPT ![t] = NULL]
                /\ FrameGone(rec[t])
                /\ UNCHANGED try

(* Mutant: PJ_THROW leaves the handler it jumps to on the list. *)
ThrowUnpopped(t) ==
  /\ at[t] \in {"throw", "end"}
  /\ IF at[t] = "end" /\ PopMatches(t)
     THEN Go(t, "endset") /\ UNCHANGED <<try, rec, prev>>
     ELSE IF at[t] = "throw" THEN LongJump(t) ELSE BlockLeft(t)
  /\ UNCHANGED <<vars, thread_local_id, nest, raced, atexit_func, leaked>>

(* The get of pj_pop_exception_handler_; a handler not on top stays. *)
PopGet(t) ==
  /\ at[t] \in {"throw", "end"}
  /\ IF PopMatches(t)
     THEN Go(t, IF at[t] = "throw" THEN "throwset" ELSE "endset") /\ UNCHANGED <<try, rec, prev>>
     ELSE IF at[t] = "throw" THEN LongJump(t) ELSE BlockLeft(t)
  /\ UNCHANGED <<vars, thread_local_id, nest, raced, atexit_func, leaked>>

PopSet(t) ==
  /\ at[t] \in {"throwset", "endset"}
  /\ SetHead(t, prev[rec[t]])
  /\ IF at[t] = "throwset" THEN LongJump(t) ELSE BlockLeft(t)
  /\ UNCHANGED <<thread_local_id, nest, raced, atexit_func, leaked>>

ExcNext == \E t \in Users :
              \/ PushBegin(t) \/ PushAlloc(t) \/ PushAtexit(t) \/ PushLink(t) \/ PushSet(t)
              \/ pj_throw_exception_(t) \/ EndTry(t) \/ EndCatch(t)
              \/ PopGet(t) \/ PopSet(t)

(* The atexit function; the caller removes it from the list. *)
exception_cleanup ==
  /\ IF thread_local_id # -1 THEN pj_thread_local_free(thread_local_id) ELSE UNCHANGED vars
  /\ thread_local_id' = -1
  /\ raced' = FALSE
-----------------------------------------------------------------------------
(* A thread between two exception operations finds exactly its own open     *)
(* blocks: the head of its list is the handler of its innermost block, or   *)
(* NULL when it has none, so that PJ_THROW jumps to the nearest enclosing   *)
(* PJ_TRY of the same thread, whatever the other threads push, pop, throw   *)
(* or first-use, and after a PJ_END that popped twice.  After a raced first *)
(* use, in which two threads both allocated the key, it may miss blocks;    *)
(* but even then, and whichever keys were freed and allocated again by      *)
(* restarts of the library, it never finds a handler of another thread.     *)
InnermostHandler ==
  \A t \in Users :
    /\ at[t] \in {"run", "catch"} /\ ~raced
         => Head_(t) = IF try[t] = 0 THEN NULL ELSE <<t, try[t]>>
    /\ Head_(t) = NULL \/ \E n \in 1 .. MaxNest : Head_(t) = <<t, n>>

=============================================================================
