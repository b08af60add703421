------------------------------ MODULE Lifecycle ------------------------------
(***************************************************************************)
(* Starting and stopping PJLIB and its threads (os_core_unix.c, log.c),     *)
(* composed with the exceptions (module Exceptions) and the port's          *)
(* thread-local table (module ZephyrTls) that both live on.                 *)
(*                                                                         *)
(* The main thread runs pj_init and pj_shutdown, each a sequence of steps   *)
(* that may fail half way; workers come from pj_thread_create and leave     *)
(* through thread_main; foreign threads call pj_thread_register and         *)
(* pj_thread_unregister.  A native thread id is reused by the next life of  *)
(* its thread, whose descriptor is a new one.                               *)
(***************************************************************************)
EXTENDS Exceptions

CONSTANTS main, Workers, Foreign,
          MaxExcId,    \* PJ_MAX_EXCEPTION_ID - 1: the ids are 1 .. MaxExcId
          MaxLife,     \* bound: lives of one native thread
          MaxInit,     \* bound: nested pj_init calls
          Plans        \* bounds of a behaviour: nest and lives of each thread, how
                       \* often pj_init is called on a stopped library and fails

VARIABLES initialized,              \* the pj_init count
          thread_suspended_tls_id, thread_indent_tls_id, thread_tls_id,
          names,                    \* exception_id_names: the allocated exception ids
          no_memory,                \* PJ_NO_MEMORY_EXCEPTION
          app_exception,            \* an exception id of the application, or -1
          critical_section,         \* the global mutex exists
          life,                     \* the thread's present (or last) life
          held,                     \* the thread's suspended_mutex is locked
          identified,               \* history: threads that stored their descriptor
          stranded,                 \* history: threads that could not unregister
          lost_names, starts, fails,  \* history: ids lost by, and counts of pj_init calls
          plan

logvars  == <<thread_suspended_tls_id, thread_indent_tls_id>>
namevars == <<names, no_memory, app_exception>>
threadvars == <<life, held, identified, stranded>>
planvars == <<lost_names, starts, fails, plan>>
lifevars == <<initialized, logvars, thread_tls_id, namevars, critical_section, threadvars,
              planvars>>
allvars  == <<vars, excvars, atexit_func, at, leaked, lifevars>>

desc(t) == <<"desc", t, life[t]>>
Descriptors == {"desc"} \X Threads \X (0 .. MaxLife)

LifeInit == /\ Init
            /\ ExcInit
            /\ atexit_func = <<>>
            /\ leaked = {}
            /\ at = [t \in Threads |-> "off"]
            /\ initialized = 0
            /\ thread_suspended_tls_id = -1 /\ thread_indent_tls_id = -1
            /\ thread_tls_id = 0
            /\ names = {} /\ no_memory = -1 /\ app_exception = -1
            /\ critical_section = FALSE
            /\ life = [t \in Threads |-> 0]
            /\ held = [t \in Threads |-> FALSE]
            /\ identified = {} /\ stranded = {}
            /\ lost_names = {} /\ starts = 0 /\ fails = 0
            /\ plan \in Plans /\ nest = plan.nest

(* A set whose caller looks at the result: done, or no slot left. *)
Identify(t, d) == /\ pj_thread_local_set(t, thread_tls_id, d)
                  /\ identified' = identified \cup {t}
-----------------------------------------------------------------------------
(* pj_exception_id_alloc takes the first free id. *)
pj_exception_id_alloc(i) == /\ i \in 1 .. MaxExcId \ names
                            /\ 1 .. i - 1 \subseteq names
                            /\ names' = names \cup {i}

pj_exception_id_free(i) == names' = names \ {i}

(* pj_init *)
InitBegin ==
  /\ at[main] = IF initialized = 0 THEN "off" ELSE "run"
  /\ initialized < MaxInit
  /\ IF initialized = 0
     THEN /\ starts < plan.starts
          /\ starts' = starts + 1
          /\ Go(main, IF thread_suspended_tls_id = -1 THEN "log1" ELSE "thread")
          /\ UNCHANGED initialized
     ELSE initialized' = initialized + 1 /\ UNCHANGED <<at, starts>>
  /\ UNCHANGED <<vars, excvars, atexit_func, leaked, logvars, thread_tls_id, namevars,
                 critical_section, threadvars, lost_names, fails, plan>>

(* pj_log_init; its result is ignored. *)
InitLogSuspended ==
  /\ at[main] = "log1"
  /\ IF keys = Keys
     THEN Go(main, "thread") /\ UNCHANGED <<vars, thread_suspended_tls_id>>
     ELSE /\ \E k \in Keys : /\ pj_thread_local_alloc(k)
                             /\ thread_suspended_tls_id' = k
          /\ Go(main, "log2")
  /\ UNCHANGED <<excvars, atexit_func, leaked, initialized, thread_indent_tls_id,
                 thread_tls_id, namevars, critical_section, threadvars, planvars>>

InitLogIndent ==
  /\ at[main] = "log2"
  /\ IF keys = Keys
     THEN /\ pj_thread_local_free(thread_suspended_tls_id)
          /\ thread_suspended_tls_id' = -1
          /\ Go(main, "thread")
          /\ UNCHANGED <<atexit_func, thread_indent_tls_id>>
     ELSE /\ \E k \in Keys : /\ pj_thread_local_alloc(k)
                             /\ thread_indent_tls_id' = k
          /\ pj_atexit("logging_shutdown")
          /\ Go(main, "thread")
          /\ UNCHANGED thread_suspended_tls_id
  /\ UNCHANGED <<excvars, leaked, initialized, thread_tls_id, namevars,
                 critical_section, threadvars, planvars>>

(* An error return of pj_init undoes nothing: what it had allocated so far  *)
(* stays allocated, and the next pj_init allocates it again.                *)
InitFails(lostKeys, lostIds) ==
  /\ Go(main, "off")
  /\ fails' = fails + 1
  /\ leaked' = leaked \cup lostKeys
  /\ lost_names' = lost_names \cup lostIds

(* pj_thread_init *)
InitThreadKey ==
  /\ at[main] = "thread"
  /\ IF keys = Keys
     THEN InitFails({}, {}) /\ UNCHANGED <<vars, thread_tls_id>>
     ELSE /\ \E k \in Keys : /\ pj_thread_local_alloc(k)
                             /\ thread_tls_id' = k
          /\ Go(main, "register")
          /\ UNCHANGED <<leaked, lost_names, fails>>
  /\ UNCHANGED <<excvars, atexit_func, initialized, logvars, namevars, critical_section,
                 life, held, identified, stranded, starts, plan>>

InitRegister ==
  /\ at[main] = "register"
  /\ IF TlsTableFull(main)
     THEN InitFails({thread_tls_id}, {}) /\ UNCHANGED <<vars, identified>>
     ELSE /\ Identify(main, desc(main))
          /\ Go(main, "critsec")
          /\ UNCHANGED <<leaked, lost_names, fails>>
  /\ UNCHANGED <<excvars, atexit_func, initialized, logvars, thread_tls_id, namevars,
                 critical_section, life, held, stranded, starts, plan>>

(* init_mutex of the critical section, which may fail, then the id of the   *)
(* pool's exception.                                                        *)
InitCritsec ==
  /\ at[main] = "critsec"
  /\ \/ /\ critical_section' = TRUE
        /\ IF names = 1 .. MaxExcId
           THEN /\ InitFails({thread_tls_id}, {})
                /\ identified' = identified \ {main}
                /\ UNCHANGED <<names, no_memory>>
           ELSE /\ \E i \in 1 .. MaxExcId : pj_exception_id_alloc(i) /\ no_memory' = i
                /\ Go(main, "stamp")
                /\ UNCHANGED <<leaked, lost_names, fails, identified>>
     \/ /\ fails < plan.fails
        /\ InitFails({thread_tls_id}, {})
        /\ identified' = identified \ {main}
        /\ UNCHANGED <<names, no_memory, critical_section>>
  /\ UNCHANGED <<vars, excvars, atexit_func, initialized, logvars, thread_tls_id,
                 app_exception, life, held, stranded, starts, plan>>

(* pj_get_timestamp, which may fail, then ++initialized. *)
InitTimestamp ==
  /\ at[main] = "stamp"
  /\ \/ /\ initialized' = 1
        /\ Go(main, "run")
        /\ UNCHANGED <<leaked, lost_names, fails, identified>>
     \/ /\ fails < plan.fails
        /\ InitFails({thread_tls_id}, {no_memory})
        /\ identified' = identified \ {main}
        /\ UNCHANGED initialized
  /\ UNCHANGED <<vars, excvars, atexit_func, logvars, thread_tls_id, namevars,
                 critical_section, life, held, stranded, starts, plan>>
-----------------------------------------------------------------------------
(* The application, on the main thread of a started library. *)
AppAtexit == /\ at[main] = "run"
             /\ "app" \notin {atexit_func[i] : i \in 1 .. Len(atexit_func)}
             /\ pj_atexit("app")
             /\ UNCHANGED <<vars, excvars, at, leaked, lifevars>>

AppException ==
  /\ at[main] = "run"
  /\ IF app_exception = -1
     THEN \E i \in 1 .. MaxExcId : pj_exception_id_alloc(i) /\ app_exception' = i
     ELSE pj_exception_id_free(app_exception) /\ app_exception' = -1
  /\ UNCHANGED <<vars, excvars, atexit_func, at, leaked, initialized, logvars,
                 thread_tls_id, no_memory, critical_section, threadvars, planvars>>

(* pj_shutdown, called when no worker is left, the main thread has no open  *)
(* PJ_TRY and the application freed its exception id.                       *)
ShutdownBegin ==
  /\ at[main] = "run"
  /\ initialized' = initialized - 1
  /\ IF initialized = 1
     THEN /\ \A w \in Workers : at[w] = "off"
          /\ try[main] = 0 /\ app_exception = -1
          /\ Go(main, "atexit_call")
     ELSE UNCHANGED at
  /\ UNCHANGED <<vars, excvars, atexit_func, leaked, logvars, thread_tls_id, namevars,
                 critical_section, threadvars, planvars>>

PopAtexit == atexit_func' = SubSeq(atexit_func, 1, Len(atexit_func) - 1)
LastAtexit == atexit_func[Len(atexit_func)]

(* The atexit functions, newest first. *)
CallAppFunction ==
  /\ at[main] = "atexit_call" /\ atexit_func # <<>>
  /\ LastAtexit = "app"
  /\ PopAtexit
  /\ UNCHANGED <<vars, excvars, at, leaked, lifevars>>

CallExceptionCleanup ==
  /\ at[main] = "atexit_call" /\ atexit_func # <<>>
  /\ LastAtexit = "exception_cleanup"
  /\ exception_cleanup
  /\ names' = {} /\ lost_names' = {}
  /\ PopAtexit
  /\ UNCHANGED <<try, rec, prev, nest, at, leaked, initialized, logvars, thread_tls_id,
                 no_memory, app_exception, critical_section, threadvars, starts, fails,
                 plan>>

(* logging_shutdown, one key at a time. *)
FreeSuspendedKey ==
  /\ at[main] = "atexit_call" /\ atexit_func # <<>>
  /\ LastAtexit = "logging_shutdown"
  /\ IF thread_suspended_tls_id # -1
     THEN pj_thread_local_free(thread_suspended_tls_id)
     ELSE UNCHANGED vars
  /\ thread_suspended_tls_id' = -1
  /\ Go(main, "indent_key")
  /\ UNCHANGED <<excvars, atexit_func, leaked, initialized, thread_indent_tls_id,
                 thread_tls_id, namevars, critical_section, threadvars, planvars>>

FreeIndentKey ==
  /\ at[main] = "indent_key"
  /\ IF thread_indent_tls_id # -1
     THEN pj_thread_local_free(thread_indent_tls_id)
     ELSE UNCHANGED vars
  /\ thread_indent_tls_id' = -1
  /\ PopAtexit
  /\ Go(main, "atexit_call")
  /\ UNCHANGED <<excvars, leaked, initialized, thread_suspended_tls_id, thread_tls_id,
                 namevars, critical_section, threadvars, planvars>>

(* PJ_NO_MEMORY_EXCEPTION and the critical section. *)
ShutdownFreeId ==
  /\ at[main] = "atexit_call" /\ atexit_func = <<>>
  /\ pj_exception_id_free(no_memory)
  /\ no_memory' = -1
  /\ critical_section' = FALSE
  /\ Go(main, "thread_key")
  /\ UNCHANGED <<vars, excvars, atexit_func, leaked, initialized, logvars,
                 thread_tls_id, app_exception, threadvars, planvars>>

(* Mutant: the key of the thread descriptors is forgotten, not freed. *)
ForgetThreadKey ==
  /\ at[main] = "thread_key"
  /\ thread_tls_id' = -1
  /\ identified' = {}
  /\ Go(main, "clear")
  /\ UNCHANGED <<vars, excvars, atexit_func, leaked, initialized, logvars, namevars,
                 critical_section, life, held, stranded, planvars>>

(* The key of the thread descriptors: from here on no thread is known. *)
ShutdownFreeKey ==
  /\ at[main] = "thread_key"
  /\ pj_thread_local_free(thread_tls_id)
  /\ thread_tls_id' = -1
  /\ identified' = {}
  /\ Go(main, "clear")
  /\ UNCHANGED <<excvars, atexit_func, leaked, initialized, logvars, namevars,
                 critical_section, life, held, stranded, planvars>>

ShutdownClear ==
  /\ at[main] = "clear"
  /\ zephyr_tls_clear_thread(main)
  /\ Go(main, "off")
  /\ UNCHANGED <<excvars, atexit_func, leaked, lifevars>>
-----------------------------------------------------------------------------
(* pj_thread_create by the main thread, suspended or not. *)
pj_thread_create(w, suspended) ==
  /\ at[main] = "run"
  /\ at[w] = "off" /\ life[w] < plan.lives[w]
  /\ Go(w, "start")
  /\ life' = [life EXCEPT ![w] = @ + 1]
  /\ held' = [held EXCEPT ![w] = suspended]
  /\ UNCHANGED <<vars, excvars, atexit_func, leaked, initialized, logvars,
                 thread_tls_id, namevars, critical_section, identified, stranded,
                 planvars>>

(* Unlocks suspended_mutex. *)
pj_thread_resume(w) ==
  /\ at[main] = "run" /\ held[w]
  /\ held' = [held EXCEPT ![w] = FALSE]
  /\ UNCHANGED <<vars, excvars, atexit_func, at, leaked, initialized, logvars,
                 thread_tls_id, namevars, critical_section, life, identified, stranded,
                 planvars>>

(* thread_main stores the descriptor; with a full table it only asserts. *)
ThreadStarts(w) ==
  /\ at[w] = "start"
  /\ IF TlsTableFull(w)
     THEN UNCHANGED <<vars, identified>>
     ELSE Identify(w, desc(w))
  /\ Go(w, "suspended")
  /\ UNCHANGED <<excvars, atexit_func, leaked, initialized, logvars, thread_tls_id,
                 namevars, critical_section, life, held, stranded, planvars>>

(* Locks and unlocks suspended_mutex.  A thread without a descriptor may    *)
(* call nothing of PJLIB, and only leaves.                                  *)
ThreadRuns(w) ==
  /\ at[w] = "suspended" /\ ~held[w]
  /\ Go(w, IF w \in identified THEN "run" ELSE "unknown")
  /\ UNCHANGED <<vars, excvars, atexit_func, leaked, lifevars>>

(* Mutant: the thread ends with its slot still taken. *)
ThreadEndsUncleared(w) ==
  /\ at[w] \in {"run", "unknown"} /\ try[w] = 0
  /\ identified' = identified \ {w}
  /\ Go(w, "off")
  /\ UNCHANGED <<vars, excvars, atexit_func, leaked, initialized, logvars,
                 thread_tls_id, namevars, critical_section, life, held, stranded,
                 planvars>>

(* The thread's function returned: its slot is freed, and the native id may *)
(* come back as another thread.                                             *)
ThreadEnds(w) ==
  /\ at[w] \in {"run", "unknown"} /\ try[w] = 0
  /\ zephyr_tls_clear_thread(w)
  /\ identified' = identified \ {w}
  /\ Go(w, "off")
  /\ UNCHANGED <<excvars, atexit_func, leaked, initialized, logvars, thread_tls_id,
                 namevars, critical_section, life, held, stranded, planvars>>

(* A thread that PJLIB did not create registers, for the first time or      *)
(* again, with a new descriptor.  A full table is reported to the caller,   *)
(* which stays outside.                                                     *)
pj_thread_register(f) ==
  /\ at[main] = "run"
  /\ at[f] \in {"off", "run"} /\ life[f] < plan.lives[f]
  /\ life' = [life EXCEPT ![f] = @ + 1]
  /\ Identify(f, <<"desc", f, life[f] + 1>>)
  /\ stranded' = stranded \ {f}
  /\ Go(f, "run")
  /\ UNCHANGED <<excvars, atexit_func, leaked, initialized, logvars, thread_tls_id,
                 namevars, critical_section, held, planvars>>

(* pj_thread_unregister: PJ_EBUG for a thread PJLIB does not know, which    *)
(* keeps its slot; else the descriptor is unset.                            *)
UnregisterUnset(f) ==
  /\ at[f] = "run"
  /\ IF pj_thread_local_get(f, thread_tls_id) = NULL
     THEN /\ Go(f, "off")
          /\ stranded' = stranded \cup {f}
          /\ UNCHANGED <<vars, identified>>
     ELSE /\ pj_thread_local_set(f, thread_tls_id, NULL)
          /\ identified' = identified \ {f}
          /\ Go(f, "clear")
          /\ UNCHANGED stranded
  /\ UNCHANGED <<excvars, atexit_func, leaked, initialized, logvars, thread_tls_id,
                 namevars, critical_section, life, held, planvars>>

UnregisterClear(f) ==
  /\ at[f] = "clear"
  /\ zephyr_tls_clear_thread(f)
  /\ Go(f, "off")
  /\ UNCHANGED <<excvars, atexit_func, leaked, lifevars>>
-----------------------------------------------------------------------------
LifeNext ==
  \/ ExcNext /\ UNCHANGED lifevars
  \/ InitBegin \/ InitLogSuspended \/ InitLogIndent \/ InitThreadKey \/ InitRegister
  \/ InitCritsec \/ InitTimestamp
  \/ AppAtexit \/ AppException
  \/ ShutdownBegin \/ CallAppFunction \/ CallExceptionCleanup \/ FreeSuspendedKey
  \/ FreeIndentKey \/ ShutdownFreeId \/ ShutdownFreeKey \/ ShutdownClear
  \/ \E w \in Workers : \/ \E suspended \in BOOLEAN : pj_thread_create(w, suspended)
                        \/ pj_thread_resume(w)
                        \/ ThreadStarts(w) \/ ThreadRuns(w) \/ ThreadEnds(w)
  \/ \E f \in Foreign : pj_thread_register(f) \/ UnregisterUnset(f) \/ UnregisterClear(f)

LifeSpec == LifeInit /\ [][LifeNext]_allvars
-----------------------------------------------------------------------------
(* While the library is started, pj_thread_this() returns a thread's own    *)
(* descriptor of its present life from the moment it was stored until the   *)
(* thread ends or unregisters, and NULL otherwise: never the descriptor of  *)
(* an earlier thread with the same native id, of a registration before a    *)
(* restart of the library, or of another thread.                            *)
OwnIdentity ==
  initialized > 0 =>
    \A t \in Threads : pj_thread_local_get(t, thread_tls_id) =
                          IF t \in identified THEN desc(t) ELSE NULL

(* Between calls every allocated thread-local key and exception id has      *)
(* exactly one owner in the library or the application.  Repeated starts    *)
(* and stops lose none, and pj_shutdown never frees a number that was       *)
(* allocated again for someone else; what a failed pj_init or a raced first *)
(* PJ_TRY loses is counted apart.  Slots of the thread-local table are not  *)
(* lost either: one that is taken belongs to the main thread, to a thread   *)
(* between its start and its end, or to a foreign thread that the stop of   *)
(* the library kept from unregistering.                                     *)
IdsAccounted ==
  /\ \A s \in Slots : thread[s] \in {NULL, main} \cup stranded \/ at[thread[s]] # "off"
  /\ at[main] \in {"off", "run"} /\ (\A t \in Users : at[t] # "atexit") =>
    LET owned == <<thread_suspended_tls_id, thread_indent_tls_id, thread_local_id>>
                 \o IF initialized > 0 THEN <<thread_tls_id>> ELSE <<>>
        ids   == {owned[i] : i \in DOMAIN owned} \ {-1}
        taken == {no_memory, app_exception} \ {-1}
    IN /\ keys = ids \cup leaked
       /\ ids \cap leaked = {}
       /\ \A i, j \in DOMAIN owned : owned[i] = owned[j] /\ owned[i] # -1 => i = j
       /\ initialized > 0 => no_memory \in names /\ app_exception # no_memory
       /\ names \ lost_names = (IF initialized > 0 THEN taken ELSE taken \ {no_memory}) \ lost_names
=============================================================================
