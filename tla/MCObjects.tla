------------------------------ MODULE MCObjects ------------------------------
(***************************************************************************)
(* The smaller objects of PJLIB on small instances: the life of the library *)
(* and its threads with the exceptions, the event, the barrier, the pools   *)
(* with their factory, and the FIFO buffer.  They share no state, so a      *)
(* behaviour exercises one part, chosen at the start, while the others rest *)
(* in one initial state.                                                    *)
(***************************************************************************)
EXTENDS Lifecycle, Event, Barrier, CachingPool, FifoBuf, TLC

CONSTANTS worker, stranger

VARIABLE part

MCThreads == {main, worker, stranger}
MCValues  == Handlers \cup Descriptors
MCSizes   == (0 :> 6) @@ (1 :> 8) @@ (2 :> 12)

PerThread(m, w, f) == (main :> m) @@ (worker :> w) @@ (stranger :> f)

(* Nested and concurrent PJ_TRYs in one life of the library; the same after *)
(* a restart, with the worker's native id reused; a foreign thread across a *)
(* restart with the table full; failing starts until the keys run out.      *)
MCPlans == {
  [nest |-> PerThread(2, 1, 0), lives |-> PerThread(0, 1, 0), starts |-> 1, fails |-> 0],
  [nest |-> PerThread(1, 1, 0), lives |-> PerThread(0, 2, 0), starts |-> 2, fails |-> 0],
  [nest |-> PerThread(0, 1, 0), lives |-> PerThread(0, 1, 2), starts |-> 2, fails |-> 0],
  [nest |-> PerThread(1, 0, 0), lives |-> PerThread(0, 0, 1), starts |-> 4, fails |-> 3] }

Resting == CHOOSE p \in MCPlans : p.fails = 3

objectvars == <<part, allvars, eventvars, barriervars, poolvars, fifovars>>

ObjectsInit ==
  /\ part \in {"life", "event", "barrier", "pools", "fifo"}
  /\ LifeInit /\ (part # "life" => plan = Resting)
  /\ EventInit /\ (part # "event" => ~auto_reset /\ state = "EV_STATE_OFF")
  /\ BarrierInit
  /\ PoolInit
  /\ FifoInit /\ (part # "fifo" => \A c \in Capacities : capacity <= c)

LifeStep    == /\ part = "life" /\ LifeNext
               /\ UNCHANGED <<part, eventvars, barriervars, poolvars, fifovars>>
EventStep   == /\ part = "event" /\ EventNext
               /\ UNCHANGED <<part, allvars, barriervars, poolvars, fifovars>>
BarrierStep == /\ part = "barrier" /\ BarrierNext
               /\ UNCHANGED <<part, allvars, eventvars, poolvars, fifovars>>
PoolStep    == /\ part = "pools" /\ PoolNext
               /\ UNCHANGED <<part, allvars, eventvars, barriervars, fifovars>>
FifoStep    == /\ part = "fifo" /\ FifoNext
               /\ UNCHANGED <<part, allvars, eventvars, barriervars, poolvars>>

ObjectsNext == LifeStep \/ EventStep \/ BarrierStep \/ PoolStep \/ FifoStep

ObjectsSpec == ObjectsInit /\ [][ObjectsNext]_objectvars /\ BarrierFairness
=============================================================================
