---------------------------- MODULE MCTimerHeap ----------------------------
(* Small instances of the timer heap. *)
EXTENDS TimerHeap, TLC

(* Only insertions and cancellations by one caller, entries taken in order  *)
(* and cancelled only while at least three run: heaps deep enough for every *)
(* path of the array code are reached with few states.  Six nodes are the   *)
(* fewest for which the node moved by a removal has to rise.                *)
StructureNext ==
  \E t \in Threads :
    \/ Scheduling(t)
    \/ \E e \in Entries :
         \/ ht.size >= 3 /\ cancel_timer(t, e)
         \/ /\ \A f \in Entries : Running(f) <=> f < e
            /\ \E delay \in Delays : ScheduleCall(t, e, delay)
StructureSpec == Init /\ [][StructureNext]_vars
=============================================================================
