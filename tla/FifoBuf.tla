------------------------------- MODULE FifoBuf -------------------------------
(***************************************************************************)
(* The FIFO buffer (fifobuf.c): blocks of varying size in a ring, each      *)
(* preceded by its size, freed in the order they were allocated.  A block   *)
(* never wraps: when the end of the buffer is too short for it, the end is  *)
(* skipped.  Pointers are offsets from first.                               *)
(***************************************************************************)
EXTENDS Integers, Sequences

CONSTANTS Capacities,   \* sizes of the buffer, last - first
          SZ,           \* sizeof(unsigned)
          FifoSizes     \* sizes asked for

ASSUME FifoAssumption == Capacities \subseteq Nat /\ SZ \in Nat \ {0} /\ FifoSizes \subseteq Nat

VARIABLES capacity,     \* last
          ubegin, uend, full,
          sizes,        \* the size words of the live blocks, by offset; 0 elsewhere
          live          \* history: the blocks not yet freed, oldest first

fifovars == <<capacity, ubegin, uend, full, sizes, live>>

(* pj_fifobuf_init *)
FifoInit == /\ capacity \in Capacities
            /\ ubegin = 0 /\ uend = 0
            /\ full = (capacity = 0)
            /\ sizes = [o \in 0 .. capacity |-> 0]
            /\ live = <<>>
-----------------------------------------------------------------------------
(* How many bytes one more block may have. *)
pj_fifobuf_available_size ==
  LET end   == capacity - uend
      s     == CASE uend < ubegin -> ubegin - uend
                 [] uend >= ubegin /\ end <= SZ -> ubegin
                 [] uend >= ubegin /\ end > SZ /\ ubegin <= SZ -> end
                 [] OTHER -> IF end < ubegin THEN ubegin ELSE end
  IN  IF ~full /\ s >= SZ THEN s - SZ ELSE 0

(* Stores the size and hands out [start, start + size + SZ). *)
Put(start, size) == /\ sizes' = [sizes EXCEPT ![start] = size + SZ]
                    /\ live' = Append(live, [at |-> start, to |-> start + size + SZ])
                    /\ UNCHANGED <<capacity, ubegin>>

EndFits(size) == uend >= ubegin /\ capacity - uend >= size + SZ

(* The end of the buffer, if it is free and long enough. *)
AllocAtEnd(size) ==
  LET next == IF uend + size + SZ = capacity THEN 0 ELSE uend + size + SZ
  IN /\ ~full
     /\ EndFits(size)
     /\ uend' = next
     /\ full' = (next = ubegin)
     /\ Put(uend, size)

(* Mutant: a buffer that is used to the last byte does not count as full. *)
AllocNeverFull(size) ==
  LET start == IF uend <= ubegin THEN uend ELSE 0
  IN /\ ~full
     /\ ~EndFits(size)
     /\ ubegin - start >= size + SZ
     /\ uend' = start + size + SZ
     /\ UNCHANGED full
     /\ Put(start, size)

(* Else the gap before the oldest block; NULL, and no step, if that is too  *)
(* short as well.                                                           *)
AllocBeforeOldest(size) ==
  LET start == IF uend <= ubegin THEN uend ELSE 0
  IN /\ ~full
     /\ ~EndFits(size)
     /\ ubegin - start >= size + SZ
     /\ uend' = start + size + SZ
     /\ full' = (start + size + SZ = ubegin)
     /\ Put(start, size)

(* The checks of pj_fifobuf_free on the block whose size is at ptr: it is   *)
(* the oldest as far as ubegin tells, or the end was skipped and the oldest *)
(* is the first.                                                            *)
FreeAccepted(ptr) ==
  LET end == IF uend > ubegin THEN uend ELSE capacity
  IN  ptr \in {ubegin, 0} /\ ptr + sizes[ptr] <= end

(* The oldest block is freed; an empty buffer starts again at first. *)
pj_fifobuf_free ==
  LET ptr == Head(live).at
      u   == IF ptr + sizes[ptr] = capacity THEN 0 ELSE ptr + sizes[ptr]
  IN /\ live # <<>>
     /\ FreeAccepted(ptr)
     /\ ubegin' = IF u = uend THEN 0 ELSE u
     /\ uend' = IF u = uend THEN 0 ELSE uend
     /\ full' = FALSE
     /\ live' = Tail(live)
     /\ sizes' = [sizes EXCEPT ![ptr] = 0]
     /\ UNCHANGED capacity

FifoNext == \/ \E size \in FifoSizes : AllocAtEnd(size) \/ AllocBeforeOldest(size)
            \/ pj_fifobuf_free

FifoSpec == FifoInit /\ [][FifoNext]_fifovars
-----------------------------------------------------------------------------
(* Blocks handed out and not yet freed never overlap and lie inside the     *)
(* buffer, size word included, through wrap-around, skipped ends and an     *)
(* exactly full buffer.                                                     *)
FifoBlocksApart ==
  \A i \in DOMAIN live :
    /\ 0 <= live[i].at /\ live[i].to <= capacity
    /\ \A j \in 1 .. i - 1 : live[i].to <= live[j].at \/ live[j].to <= live[i].at

(* An application that frees in order is never refused: the oldest block    *)
(* passes every check of pj_fifobuf_free, with its size word intact, and a  *)
(* buffer with no block left takes the largest block again.                 *)
OldestFreeable ==
  /\ live # <<>> => /\ FreeAccepted(Head(live).at)
                    /\ sizes[Head(live).at] = Head(live).to - Head(live).at
  /\ live = <<>> /\ capacity >= SZ => pj_fifobuf_available_size = capacity - SZ

(* pj_fifobuf_available_size tells exactly which allocations succeed: a     *)
(* block of a non-zero size can be allocated if and only if it is not       *)
(* larger than what was reported.                                           *)
AvailableExact ==
  \A size \in FifoSizes \ {0} :
    LET start == IF uend <= ubegin THEN uend ELSE 0
    IN (~full /\ (EndFits(size) \/ ubegin - start >= size + SZ))
         <=> size <= pj_fifobuf_available_size
=============================================================================
