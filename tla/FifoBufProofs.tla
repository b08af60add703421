---------------------------- MODULE FifoBufProofs ----------------------------
(***************************************************************************)
(* The ring of the FIFO buffer is sound for every capacity, every size of   *)
(* the size word and every sizes of blocks.                                 *)
(*                                                                          *)
(* The blocks at ubegin or above are the older ones, those below it the     *)
(* younger ones that were placed after the end of the buffer had been       *)
(* reached; both groups are in order of age, and the younger blocks end at  *)
(* uend.  When the last of the older blocks is freed and the end had been   *)
(* skipped, ubegin points at the skipped end and all blocks lie below it.   *)
(***************************************************************************)
EXTENDS FifoBuf, SequenceTheorems, TLAPS

Block == [at : Nat, to : Nat]

FifoTypes == /\ capacity \in Nat /\ ubegin \in Nat /\ uend \in Nat
             /\ full \in BOOLEAN
             /\ sizes \in [0 .. capacity -> Nat]
             /\ live \in Seq(Block)

(* uend = ubegin means full if there are blocks, and else empty. *)
Pointers == /\ ubegin < capacity \/ ubegin = 0
            /\ uend < capacity \/ uend = 0
            /\ full <=> ubegin = uend /\ (live # <<>> \/ capacity = 0)
            /\ live = <<>> => ubegin = 0 /\ uend = 0

(* The block b in a buffer with capacity c, the pointers u (ubegin) and e   *)
(* (uend) and the size words z.                                             *)
Placed(b, u, e, c, z) == /\ b.at < b.to /\ b.to <= c
                         /\ z[b.at] = b.to - b.at
                         /\ b.at < u => e <= u /\ b.to <= e
                         /\ b.at >= u /\ e > u => b.to <= e

(* a is older than b. *)
Older(a, b, u) == /\ a.at < u => b.at < u /\ a.to <= b.at
                  /\ b.at >= u => a.to <= b.at

First(b, u)   == b.at = u \/ b.at = 0
Youngest(b, e, c) == b.to = e \/ (e = 0 /\ b.to = c)
Follows(a, b) == b.at = a.to \/ b.at = 0

Ring == /\ \A i \in 1 .. Len(live) : Placed(live[i], ubegin, uend, capacity, sizes)
        /\ \A i, j \in 1 .. Len(live) : i < j => Older(live[i], live[j], ubegin)
        /\ \A i \in 1 .. Len(live) : i + 1 <= Len(live) => Follows(live[i], live[i + 1])
        /\ live # <<>> => /\ First(live[1], ubegin)
                          /\ Youngest(live[Len(live)], uend, capacity)

FifoInv == FifoTypes /\ Pointers /\ Ring
-----------------------------------------------------------------------------
LEMMA Lengths ==
  ASSUME FifoTypes
  PROVE  /\ Len(live) \in Nat
         /\ live # <<>> <=> Len(live) >= 1
         /\ DOMAIN live = 1 .. Len(live)
         /\ \A i \in 1 .. Len(live) : live[i] \in Block
<1>1. live \in Seq(Block)
  BY DEF FifoTypes
<1> QED BY <1>1, LenProperties, EmptySeq, ElementOfSeq

(* What an allocation does to the sequence of blocks. *)
LEMMA Appended ==
  ASSUME FifoTypes, NEW b \in Block, live' = Append(live, b)
  PROVE  /\ live' \in Seq(Block) /\ live' # <<>>
         /\ Len(live') = Len(live) + 1
         /\ \A i \in 1 .. Len(live) : live'[i] = live[i]
         /\ live'[Len(live) + 1] = b
<1>1. live \in Seq(Block)
  BY DEF FifoTypes
<1> QED BY <1>1, AppendProperties

(* What a free does to it. *)
LEMMA FirstGone ==
  ASSUME FifoTypes, live # <<>>, live' = Tail(live)
  PROVE  /\ live' \in Seq(Block)
         /\ Len(live') = Len(live) - 1
         /\ \A i \in 1 .. Len(live') : live'[i] = live[i + 1]
         /\ Head(live) = live[1]
<1>1. live \in Seq(Block)
  BY DEF FifoTypes
<1>2. Head(live) = live[1]
  BY <1>1
<1> QED BY <1>1, <1>2, HeadTailProperties
-----------------------------------------------------------------------------
(* An allocation keeps the ring if it keeps the blocks there are in place   *)
(* and puts the new one behind the youngest.                                *)
LEMMA AllocKeepsRing ==
  ASSUME FifoInv, NEW start \in Nat, NEW size \in Nat, Put(start, size),
         uend' \in Nat, full' \in BOOLEAN,
         start + size + SZ <= capacity,
         Pointers',
         NEW b, b = [at |-> start, to |-> start + size + SZ],
         \A i \in 1 .. Len(live) : /\ Placed(live[i], ubegin, uend', capacity, sizes')
                                   /\ Older(live[i], b, ubegin),
         Placed(b, ubegin, uend', capacity, sizes'),
         live = <<>> => First(b, ubegin),
         live # <<>> => Follows(live[Len(live)], b),
         Youngest(b, uend', capacity)
  PROVE  FifoInv'
<1> USE FifoAssumption
<1>1. b \in Block /\ b.at = start /\ b.to = start + size + SZ
  BY DEF Block
<1>2. /\ live' \in Seq(Block) /\ live' # <<>>
      /\ Len(live') = Len(live) + 1
      /\ \A i \in 1 .. Len(live) : live'[i] = live[i]
      /\ live'[Len(live) + 1] = b
  BY <1>1, Appended DEF FifoInv, Put
<1>3. Len(live) \in Nat /\ (live # <<>> <=> Len(live) >= 1)
  BY Lengths DEF FifoInv
<1>4. capacity' = capacity /\ ubegin' = ubegin
  BY DEF Put
<1>5. FifoTypes'
  <2>1. sizes' = [sizes EXCEPT ![start] = size + SZ] /\ size + SZ \in Nat
    BY DEF Put
  <2>2. sizes' \in [0 .. capacity -> Nat]
    BY <2>1 DEF FifoInv, FifoTypes
  <2> QED BY <1>2, <1>4, <2>2 DEF FifoInv, FifoTypes
<1>6. \A i \in 1 .. Len(live') : Placed(live'[i], ubegin', uend', capacity', sizes')
  <2> TAKE i \in 1 .. Len(live')
  <2>1. CASE i \in 1 .. Len(live)
    BY <1>2, <1>4, <2>1
  <2>2. CASE i = Len(live) + 1
    BY <1>2, <1>4, <2>2
  <2> QED BY <1>2, <1>3, <2>1, <2>2
<1>7. \A i, j \in 1 .. Len(live') : i < j => Older(live'[i], live'[j], ubegin')
  <2> TAKE i, j \in 1 .. Len(live')
  <2> SUFFICES ASSUME i < j PROVE Older(live'[i], live'[j], ubegin')
    OBVIOUS
  <2>1. CASE j \in 1 .. Len(live)
    <3>1. i \in 1 .. Len(live)
      BY <1>3, <2>1
    <3>2. Older(live[i], live[j], ubegin)
      BY <2>1, <3>1 DEF FifoInv, Ring
    <3> QED BY <1>2, <1>4, <2>1, <3>1, <3>2
  <2>2. CASE j = Len(live) + 1
    <3>1. i \in 1 .. Len(live)
      BY <1>3, <2>2
    <3> QED BY <1>2, <1>4, <2>2, <3>1
  <2> QED BY <1>2, <1>3, <2>1, <2>2
<1>8. \A i \in 1 .. Len(live') : i + 1 <= Len(live') => Follows(live'[i], live'[i + 1])
  <2> TAKE i \in 1 .. Len(live')
  <2> SUFFICES ASSUME i + 1 <= Len(live') PROVE Follows(live'[i], live'[i + 1])
    OBVIOUS
  <2>1. i \in 1 .. Len(live)
    BY <1>2, <1>3
  <2>2. CASE i + 1 <= Len(live)
    <3>1. Follows(live[i], live[i + 1]) /\ i + 1 \in 1 .. Len(live)
      BY <1>3, <2>1, <2>2 DEF FifoInv, Ring
    <3> QED BY <1>2, <2>1, <3>1
  <2>3. CASE i = Len(live)
    BY <1>2, <1>3, <2>1, <2>3
  <2> QED BY <1>3, <2>1, <2>2, <2>3
<1>9. First(live'[1], ubegin')
  <2>1. CASE live = <<>>
    <3>1. live'[1] = b
      BY <1>2, <1>3, <2>1
    <3> QED BY <1>4, <2>1, <3>1
  <2>2. CASE live # <<>>
    <3>1. live'[1] = live[1] /\ First(live[1], ubegin)
      BY <1>2, <1>3, <2>2 DEF FifoInv, Ring
    <3> QED BY <1>4, <3>1
  <2> QED BY <2>1, <2>2
<1>10. Youngest(live'[Len(live')], uend', capacity')
  BY <1>2, <1>4
<1>11. Ring'
  BY <1>6, <1>7, <1>8, <1>9, <1>10 DEF Ring
<1> QED BY <1>5, <1>11 DEF FifoInv

(* The blocks there are, as an allocation finds them. *)
LEMMA Blocks ==
  ASSUME FifoInv, NEW i \in 1 .. Len(live)
  PROVE  /\ live[i] \in Block /\ live[i].at \in Nat /\ live[i].to \in Nat
         /\ Placed(live[i], ubegin, uend, capacity, sizes)
         /\ live # <<>>
<1>1. live[i] \in Block /\ live # <<>>
  BY Lengths DEF FifoInv
<1> QED BY <1>1 DEF Block, FifoInv, Ring

LEMMA AtEndKeeps ==
  ASSUME FifoInv, NEW size \in FifoSizes, AllocAtEnd(size)
  PROVE  FifoInv'
<1> USE FifoAssumption
<1> DEFINE b == [at |-> uend, to |-> uend + size + SZ]
           z == [sizes EXCEPT ![uend] = size + SZ]
           e == IF uend + size + SZ = capacity THEN 0 ELSE uend + size + SZ
<1>1. /\ ~full /\ uend >= ubegin /\ uend + size + SZ <= capacity
      /\ uend' = e /\ full' = (e = ubegin) /\ Put(uend, size)
      /\ size \in Nat /\ capacity \in Nat /\ ubegin \in Nat /\ uend \in Nat
  BY DEF AllocAtEnd, EndFits, FifoInv, FifoTypes
<1>2. sizes' = z /\ capacity' = capacity /\ ubegin' = ubegin
  BY <1>1 DEF Put
<1>3. b.at = uend /\ b.to = uend + size + SZ
  OBVIOUS
<1>4. /\ live # <<>> => ubegin < uend
      /\ live = <<>> => ubegin = 0 /\ uend = 0
  BY <1>1 DEF FifoInv, Pointers
<1>5. z[b.at] = size + SZ /\ \A o \in 0 .. capacity : o # uend => z[o] = sizes[o]
  BY <1>1, <1>3 DEF FifoInv, FifoTypes
<1> HIDE DEF b, z
<1>6. uend' \in Nat /\ full' \in BOOLEAN
  BY <1>1
<1>7. live' # <<>>
  BY <1>1, Appended, <1>3 DEF Put, b, FifoInv, Block
<1>8. Pointers'
  <2>1. full' <=> ubegin' = uend'
    BY <1>1, <1>2
  <2>2. (ubegin' < capacity' \/ ubegin' = 0) /\ (uend' < capacity' \/ uend' = 0)
    BY <1>1, <1>2, <1>4 DEF Pointers, FifoInv
  <2> QED BY <1>7, <2>1, <2>2 DEF Pointers
<1>9. ASSUME NEW i \in 1 .. Len(live)
      PROVE  /\ Placed(live[i], ubegin, uend', capacity, sizes')
             /\ Older(live[i], b, ubegin)
  <2>1. /\ live[i].at \in Nat /\ live[i].to \in Nat /\ live # <<>>
        /\ Placed(live[i], ubegin, uend, capacity, sizes)
    BY Blocks
  <2>2. sizes'[live[i].at] = sizes[live[i].at]
    <3>1. /\ live[i].at < live[i].to /\ live[i].to <= capacity
          /\ live[i].at < ubegin => uend <= ubegin /\ live[i].to <= uend
          /\ live[i].at >= ubegin /\ uend > ubegin => live[i].to <= uend
      BY <2>1 DEF Placed
    <3>2. live[i].at \in 0 .. capacity /\ live[i].at # uend
      BY <1>1, <1>4, <2>1, <3>1
    <3> QED BY <1>2, <1>5, <3>2
  <2>3. Placed(live[i], ubegin, uend', capacity, sizes')
    BY <1>1, <1>4, <2>1, <2>2 DEF Placed
  <2>4. Older(live[i], b, ubegin)
    BY <1>1, <1>3, <1>4, <2>1 DEF Placed, Older
  <2> QED BY <2>3, <2>4
<1>10. Placed(b, ubegin, uend', capacity, sizes')
  BY <1>1, <1>2, <1>3, <1>4, <1>5 DEF Placed
<1>11. live = <<>> => First(b, ubegin)
  BY <1>3, <1>4 DEF First
<1>12. live # <<>> => Follows(live[Len(live)], b)
  BY <1>1, <1>3, <1>4 DEF FifoInv, Ring, Youngest, Follows
<1>13. Youngest(b, uend', capacity)
  BY <1>1, <1>3 DEF Youngest
<1> QED BY <1>1, <1>6, <1>8, <1>9, <1>10, <1>11, <1>12, <1>13, AllocKeepsRing DEF b

LEMMA BeforeOldestKeeps ==
  ASSUME FifoInv, NEW size \in FifoSizes, AllocBeforeOldest(size)
  PROVE  FifoInv'
<1> USE FifoAssumption
<1> DEFINE start == IF uend <= ubegin THEN uend ELSE 0
           b == [at |-> start, to |-> start + size + SZ]
           z == [sizes EXCEPT ![start] = size + SZ]
<1>1. /\ ~full /\ ubegin - start >= size + SZ
      /\ uend' = start + size + SZ /\ full' = (start + size + SZ = ubegin)
      /\ Put(start, size)
      /\ size \in Nat /\ capacity \in Nat /\ ubegin \in Nat /\ uend \in Nat /\ start \in Nat
  BY DEF AllocBeforeOldest, FifoInv, FifoTypes
<1>2. sizes' = z /\ capacity' = capacity /\ ubegin' = ubegin
  BY <1>1 DEF Put
<1>3. b.at = start /\ b.to = start + size + SZ
  OBVIOUS
<1>4. /\ live # <<>> /\ ubegin # uend /\ ubegin < capacity
      /\ (uend < ubegin /\ start = uend) \/ (ubegin < uend /\ start = 0)
  BY <1>1 DEF FifoInv, Pointers
<1>5. z[b.at] = size + SZ /\ \A o \in 0 .. capacity : o # start => z[o] = sizes[o]
  BY <1>1, <1>3, <1>4 DEF FifoInv, FifoTypes
<1> HIDE DEF b, z, start
<1>6. uend' \in Nat /\ full' \in BOOLEAN
  BY <1>1
<1>7. live' # <<>>
  BY <1>1, Appended, <1>3 DEF Put, b, FifoInv, Block
<1>8. Pointers'
  <2>1. full' <=> ubegin' = uend'
    BY <1>1, <1>2
  <2>2. (ubegin' < capacity' \/ ubegin' = 0) /\ (uend' < capacity' \/ uend' = 0)
    BY <1>1, <1>2, <1>4 DEF Pointers, FifoInv
  <2> QED BY <1>7, <2>1, <2>2 DEF Pointers
<1>9. ASSUME NEW i \in 1 .. Len(live)
      PROVE  /\ Placed(live[i], ubegin, uend', capacity, sizes')
             /\ Older(live[i], b, ubegin)
  <2>1. /\ live[i].at \in Nat /\ live[i].to \in Nat /\ live # <<>>
        /\ Placed(live[i], ubegin, uend, capacity, sizes)
    BY Blocks
  <2>2. sizes'[live[i].at] = sizes[live[i].at]
    <3>1. /\ live[i].at < live[i].to /\ live[i].to <= capacity
          /\ live[i].at < ubegin => uend <= ubegin /\ live[i].to <= uend
          /\ live[i].at >= ubegin /\ uend > ubegin => live[i].to <= uend
      BY <2>1 DEF Placed
    <3>2. live[i].at \in 0 .. capacity /\ live[i].at # start
      BY <1>1, <1>4, <2>1, <3>1
    <3> QED BY <1>2, <1>5, <3>2
  <2>3. Placed(live[i], ubegin, uend', capacity, sizes')
    BY <1>1, <1>4, <2>1, <2>2 DEF Placed
  <2>4. Older(live[i], b, ubegin)
    BY <1>1, <1>3, <1>4, <2>1 DEF Placed, Older
  <2> QED BY <2>3, <2>4
<1>10. Placed(b, ubegin, uend', capacity, sizes')
  BY <1>1, <1>2, <1>3, <1>4, <1>5 DEF Placed
<1>11. live # <<>> => Follows(live[Len(live)], b)
  BY <1>1, <1>3, <1>4 DEF FifoInv, Ring, Youngest, Follows
<1>12. Youngest(b, uend', capacity)
  BY <1>1, <1>3 DEF Youngest
<1>13. start + size + SZ <= capacity
  BY <1>1, <1>4
<1> QED BY <1>1, <1>4, <1>6, <1>8, <1>9, <1>10, <1>11, <1>12, <1>13, AllocKeepsRing DEF b

LEMMA AtLeastTwo == \A n \in Nat : n >= 1 /\ n # 1 => 2 \in 1 .. n
OBVIOUS

(* The oldest block ends at uend if it is the only one, and only then. *)
LEMMA EmptiedByLast ==
  ASSUME FifoInv, live # <<>>,
         NEW u, u = IF live[1].to = capacity THEN 0 ELSE live[1].to
  PROVE  (Len(live) = 1 => u = uend) /\ (Len(live) # 1 => u # uend)
<1>1. capacity \in Nat /\ ubegin \in Nat /\ uend \in Nat
  BY DEF FifoInv, FifoTypes
<1>2. Len(live) \in Nat /\ Len(live) >= 1
  BY Lengths DEF FifoInv
<1>3. /\ live[1].at \in Nat /\ live[1].to \in Nat
      /\ Placed(live[1], ubegin, uend, capacity, sizes)
  BY <1>2, Blocks
<1>4. CASE Len(live) = 1
  <2>1. Youngest(live[1], uend, capacity)
    BY <1>4 DEF FifoInv, Ring
  <2>2. uend < capacity \/ uend = 0
    BY DEF FifoInv, Pointers
  <2> QED BY <1>1, <1>3, <1>4, <2>1, <2>2 DEF Youngest, Placed
<1>5. CASE Len(live) # 1
  <2>1. 2 \in 1 .. Len(live) /\ 1 \in 1 .. Len(live)
    BY <1>2, <1>5, AtLeastTwo
  <2>2. /\ live[2].at \in Nat /\ live[2].to \in Nat
        /\ Placed(live[2], ubegin, uend, capacity, sizes)
    BY <2>1, Blocks
  <2>3. Older(live[1], live[2], ubegin)
    BY <2>1 DEF FifoInv, Ring
  <2>4. CASE live[1].at < ubegin
    <3>1. live[1].to < uend /\ live[1].to < capacity
      <4>1. live[2].at < ubegin /\ live[1].to <= live[2].at
        BY <2>3, <2>4 DEF Older
      <4>2. live[2].at < live[2].to /\ live[2].to <= uend /\ live[2].to <= capacity
        BY <2>2, <4>1 DEF Placed
      <4> QED BY <1>1, <1>3, <2>2, <4>1, <4>2
    <3> QED BY <1>1, <1>3, <1>5, <3>1
  <2>5. CASE live[1].at >= ubegin /\ live[2].at >= ubegin
    <3>1. live[1].to <= live[2].at /\ live[2].at < live[2].to /\ live[2].to <= capacity
      BY <2>2, <2>3, <2>5 DEF Placed, Older
    <3>2. live[1].to # uend
      <4>1. uend > ubegin => live[2].to <= uend
        BY <2>2, <2>5 DEF Placed
      <4>2. live[1].at < live[1].to
        BY <1>3 DEF Placed
      <4> QED BY <1>1, <1>3, <2>2, <2>5, <3>1, <4>1, <4>2
    <3> QED BY <1>1, <1>3, <1>5, <2>2, <3>1, <3>2
  <2>6. CASE live[1].at >= ubegin /\ live[2].at < ubegin
    <3>1. 0 < uend /\ uend < live[1].to
      BY <1>1, <1>3, <2>2, <2>6 DEF Placed
    <3> QED BY <1>1, <1>3, <1>5, <3>1
  <2> QED BY <1>1, <1>3, <2>2, <2>4, <2>5, <2>6
<1> QED BY <1>4, <1>5

LEMMA FreeKeeps ==
  ASSUME FifoInv, pj_fifobuf_free
  PROVE  FifoInv'
<1> DEFINE u == IF live[1].to = capacity THEN 0 ELSE live[1].to
<1>1. live # <<>>
  BY DEF pj_fifobuf_free
<1>2. Len(live) \in Nat /\ Len(live) >= 1 /\ 1 \in 1 .. Len(live)
  BY <1>1, Lengths DEF FifoInv
<1>3. /\ live[1].at \in Nat /\ live[1].to \in Nat
      /\ Placed(live[1], ubegin, uend, capacity, sizes)
  BY <1>2, Blocks
<1>4. capacity \in Nat /\ ubegin \in Nat /\ uend \in Nat
  BY DEF FifoInv, FifoTypes
<1>5. /\ live' \in Seq(Block)
      /\ Len(live') = Len(live) - 1
      /\ \A i \in 1 .. Len(live') : live'[i] = live[i + 1]
      /\ Head(live) = live[1]
  BY <1>1, FirstGone DEF FifoInv, pj_fifobuf_free
<1>6. live[1].at + sizes[live[1].at] = live[1].to
  BY <1>3, <1>4 DEF Placed
<1>7. /\ ubegin' = IF u = uend THEN 0 ELSE u
      /\ uend' = IF u = uend THEN 0 ELSE uend
      /\ full' = FALSE /\ capacity' = capacity
      /\ sizes' = [sizes EXCEPT ![live[1].at] = 0]
  BY <1>5, <1>6 DEF pj_fifobuf_free
<1>8. (Len(live) = 1 => u = uend) /\ (Len(live) # 1 => u # uend)
  BY <1>1, EmptiedByLast
<1>9. live' # <<>> <=> Len(live') >= 1
  BY <1>5, EmptySeq
<1>10. FifoTypes'
  <2>1. sizes' \in [0 .. capacity -> Nat]
    BY <1>7 DEF FifoInv, FifoTypes
  <2> QED BY <1>3, <1>4, <1>5, <1>7, <2>1 DEF FifoTypes
<1>11. \A o \in 0 .. capacity : o # live[1].at => sizes'[o] = sizes[o]
  BY <1>7 DEF FifoInv, FifoTypes
<1>12. capacity > 0 /\ (u < capacity \/ u = 0) /\ (uend < capacity \/ uend = 0)
  BY <1>3, <1>4 DEF Placed, FifoInv, Pointers
<1>u. u \in Nat
  BY <1>3
<1> HIDE DEF u
<1>13. CASE Len(live) = 1
  <2>1. live' = <<>> /\ Len(live') = 0
    BY <1>5, <1>9, <1>13
  <2>2. ubegin' = 0 /\ uend' = 0
    BY <1>7, <1>8, <1>13
  <2>3. Pointers'
    BY <1>7, <1>12, <2>1, <2>2 DEF Pointers
  <2>4. Ring'
    BY <2>1 DEF Ring
  <2> QED BY <1>10, <2>3, <2>4 DEF FifoInv
<1>14. CASE Len(live) # 1
  <2>1. ubegin' = u /\ uend' = uend /\ u # uend
    BY <1>7, <1>8, <1>14
  <2>2. Pointers'
    <3>1. live' # <<>>
      BY <1>2, <1>5, <1>9, <1>14
    <3> QED BY <1>7, <1>12, <2>1, <3>1 DEF Pointers
  <2>3. ASSUME NEW i \in 2 .. Len(live)
        PROVE  Placed(live[i], u, uend, capacity, sizes')
    <3>1. i \in 1 .. Len(live) /\ 1 < i
      BY <1>2
    <3>2. /\ live[i].at \in Nat /\ live[i].to \in Nat
          /\ Placed(live[i], ubegin, uend, capacity, sizes)
      BY <3>1, Blocks
    <3>3. Older(live[1], live[i], ubegin)
      BY <1>2, <3>1 DEF FifoInv, Ring
    <3>4. live[i].at # live[1].at /\ live[i].at \in 0 .. capacity
      BY <1>3, <1>4, <3>2, <3>3 DEF Placed, Older
    <3>5. sizes'[live[i].at] = sizes[live[i].at]
      BY <1>11, <3>4
    <3> QED BY <1>3, <1>4, <3>2, <3>3, <3>5 DEF Placed, Older, u
  <2>4. ASSUME NEW i \in 2 .. Len(live), NEW j \in 2 .. Len(live), i < j
        PROVE  Older(live[i], live[j], u)
    <3>1. i \in 1 .. Len(live) /\ j \in 1 .. Len(live) /\ 1 < i /\ 1 < j
      BY <1>2
    <3>2. /\ live[i].at \in Nat /\ live[i].to \in Nat
          /\ live[j].at \in Nat /\ live[j].to \in Nat
          /\ Placed(live[i], ubegin, uend, capacity, sizes)
          /\ Placed(live[j], ubegin, uend, capacity, sizes)
      BY <3>1, Blocks
    <3>3. /\ Older(live[1], live[i], ubegin) /\ Older(live[1], live[j], ubegin)
          /\ Older(live[i], live[j], ubegin)
      BY <1>2, <2>4, <3>1 DEF FifoInv, Ring
    <3>4. CASE live[1].at < ubegin
      <4>0. live[i].at < ubegin /\ live[1].to <= live[i].at
        BY <3>3, <3>4 DEF Older
      <4>1. u <= live[i].at /\ live[i].to <= live[j].at
        <5>1. live[i].at < live[i].to /\ live[i].to <= capacity
          BY <3>2 DEF Placed
        <5>2. live[i].to <= live[j].at
          BY <3>3, <4>0 DEF Older
        <5> QED BY <1>3, <1>4, <3>2, <4>0, <5>1, <5>2 DEF u
      <4> QED BY <1>u, <3>2, <4>1 DEF Older
    <3>5. CASE live[1].at >= ubegin
      <4>1. CASE live[1].to = capacity
        <5>1. u = 0 /\ live[i].at < ubegin
          BY <1>3, <1>4, <3>2, <3>3, <3>5, <4>1 DEF Placed, Older, u
        <5> QED BY <1>4, <3>2, <3>3, <5>1 DEF Older
      <4>2. CASE live[1].to # capacity
        <5>1. u = live[1].to /\ u > ubegin
          BY <1>3, <1>4, <3>5, <4>2 DEF Placed, u
        <5>2. live[i].at < u => live[i].at < ubegin
          BY <1>3, <1>4, <3>2, <3>3, <5>1 DEF Older
        <5>3. live[j].at < ubegin => live[j].at < u
          BY <1>u, <1>4, <3>2, <5>1
        <5>4. live[j].at >= u => live[j].at >= ubegin
          BY <1>u, <1>4, <3>2, <5>1
        <5> QED BY <3>3, <5>2, <5>3, <5>4 DEF Older
      <4> QED BY <4>1, <4>2
    <3> QED BY <1>3, <1>4, <3>4, <3>5
  <2>5. First(live[2], u)
    <3>1. 2 \in 1 .. Len(live)
      BY <1>2, <1>14, AtLeastTwo
    <3>2. Follows(live[1], live[2])
      <4>1. 1 + 1 = 2 /\ 1 + 1 <= Len(live)
        BY <1>2, <3>1
      <4> QED BY <1>2, <4>1 DEF FifoInv, Ring
    <3>3. live[2].at \in Nat /\ live[2].to \in Nat /\ Placed(live[2], ubegin, uend, capacity, sizes)
      BY <3>1, Blocks
    <3> QED BY <1>3, <1>4, <3>2, <3>3 DEF Follows, First, Placed, u
  <2>6. \A i \in 1 .. Len(live') : i + 1 \in 2 .. Len(live) /\ live'[i] = live[i + 1]
    BY <1>2, <1>5
  <2>7. \A i \in 1 .. Len(live') : Placed(live'[i], ubegin', uend', capacity', sizes')
    BY <1>7, <2>1, <2>3, <2>6
  <2>8. \A i, j \in 1 .. Len(live') : i < j => Older(live'[i], live'[j], ubegin')
    <3> TAKE i, j \in 1 .. Len(live')
    <3> SUFFICES ASSUME i < j PROVE Older(live'[i], live'[j], ubegin')
      OBVIOUS
    <3>1. i + 1 < j + 1
      BY <1>2, <1>5
    <3> QED BY <2>1, <2>4, <2>6, <3>1
  <2>9. \A i \in 1 .. Len(live') : i + 1 <= Len(live') => Follows(live'[i], live'[i + 1])
    <3> TAKE i \in 1 .. Len(live')
    <3> SUFFICES ASSUME i + 1 <= Len(live') PROVE Follows(live'[i], live'[i + 1])
      OBVIOUS
    <3>1. /\ i + 1 \in 1 .. Len(live') /\ i + 1 \in 1 .. Len(live)
          /\ (i + 1) + 1 <= Len(live)
      BY <1>2, <1>5
    <3>2. Follows(live[i + 1], live[(i + 1) + 1])
      BY <3>1 DEF FifoInv, Ring
    <3> QED BY <1>5, <3>1, <3>2
  <2>10. First(live'[1], ubegin') /\ Youngest(live'[Len(live')], uend', capacity')
    <3>1. 1 \in 1 .. Len(live') /\ Len(live') \in 1 .. Len(live') /\ Len(live') + 1 = Len(live)
      BY <1>2, <1>5, <1>14
    <3>2. live'[1] = live[1 + 1] /\ live'[Len(live')] = live[Len(live)]
      BY <1>5, <3>1
    <3>3. Youngest(live[Len(live)], uend, capacity)
      BY <1>1 DEF FifoInv, Ring
    <3> QED BY <1>7, <2>1, <2>5, <3>2, <3>3
  <2>11. Ring'
    BY <2>7, <2>8, <2>9, <2>10 DEF Ring
  <2> QED BY <1>10, <2>2, <2>11 DEF FifoInv
<1> QED BY <1>13, <1>14
-----------------------------------------------------------------------------
LEMMA FifoInitially == FifoInit => FifoInv
<1> SUFFICES ASSUME FifoInit PROVE FifoInv
  OBVIOUS
<1>1. capacity \in Nat /\ ubegin = 0 /\ uend = 0 /\ live = <<>> /\ full = (capacity = 0)
  BY FifoAssumption DEF FifoInit
<1>2. FifoTypes
  BY <1>1, EmptySeq DEF FifoInit, FifoTypes
<1>3. Pointers
  BY <1>1 DEF Pointers
<1>4. Ring
  <2>1. Len(live) = 0
    BY <1>1
  <2> QED BY <1>1, <2>1 DEF Ring
<1> QED BY <1>2, <1>3, <1>4 DEF FifoInv

LEMMA FifoStep == FifoInv /\ [FifoNext]_fifovars => FifoInv'
<1> SUFFICES ASSUME FifoInv, [FifoNext]_fifovars PROVE FifoInv'
  OBVIOUS
<1>1. ASSUME NEW size \in FifoSizes, AllocAtEnd(size) PROVE FifoInv'
  BY <1>1, AtEndKeeps
<1>2. ASSUME NEW size \in FifoSizes, AllocBeforeOldest(size) PROVE FifoInv'
  BY <1>2, BeforeOldestKeeps
<1>3. CASE pj_fifobuf_free
  BY <1>3, FreeKeeps
<1>4. CASE UNCHANGED fifovars
  BY <1>4 DEF fifovars, FifoInv, FifoTypes, Pointers, Ring
<1> QED BY <1>1, <1>2, <1>3, <1>4 DEF FifoNext

LEMMA InvApart == FifoInv => FifoBlocksApart
<1> SUFFICES ASSUME FifoInv PROVE FifoBlocksApart
  OBVIOUS
<1>1. DOMAIN live = 1 .. Len(live) /\ Len(live) \in Nat
  BY Lengths DEF FifoInv
<1>2. capacity \in Nat /\ ubegin \in Nat /\ uend \in Nat
  BY DEF FifoInv, FifoTypes
<1>3. ASSUME NEW i \in 1 .. Len(live)
      PROVE  0 <= live[i].at /\ live[i].to <= capacity
  BY <1>2, Blocks DEF Placed
<1>4. ASSUME NEW i \in 1 .. Len(live), NEW j \in 1 .. i - 1
      PROVE  live[i].to <= live[j].at \/ live[j].to <= live[i].at
  <2>1. j \in 1 .. Len(live) /\ j < i
    BY <1>1
  <2>2. Older(live[j], live[i], ubegin)
    BY <2>1 DEF FifoInv, Ring
  <2>3. /\ live[i].at \in Nat /\ live[i].to \in Nat
        /\ live[j].at \in Nat /\ live[j].to \in Nat
        /\ Placed(live[i], ubegin, uend, capacity, sizes)
        /\ Placed(live[j], ubegin, uend, capacity, sizes)
    BY <2>1, Blocks
  <2> QED BY <1>2, <2>2, <2>3 DEF Older, Placed
<1> QED BY <1>1, <1>3, <1>4 DEF FifoBlocksApart

LEMMA InvFreeable == FifoInv => OldestFreeable
<1> SUFFICES ASSUME FifoInv PROVE OldestFreeable
  OBVIOUS
<1>1. capacity \in Nat /\ ubegin \in Nat /\ uend \in Nat /\ live \in Seq(Block)
  BY DEF FifoInv, FifoTypes
<1>2. ASSUME live # <<>>
      PROVE  /\ FreeAccepted(Head(live).at)
             /\ sizes[Head(live).at] = Head(live).to - Head(live).at
  <2>1. Head(live) = live[1] /\ 1 \in 1 .. Len(live)
    BY <1>1, <1>2, Lengths DEF FifoInv
  <2>2. /\ live[1].at \in Nat /\ live[1].to \in Nat
        /\ Placed(live[1], ubegin, uend, capacity, sizes)
    BY <2>1, Blocks
  <2>3. First(live[1], ubegin)
    BY <1>2 DEF FifoInv, Ring
  <2>4. FreeAccepted(live[1].at)
    BY <1>1, <2>2, <2>3 DEF FreeAccepted, First, Placed
  <2> QED BY <2>1, <2>2, <2>4 DEF Placed
<1>3. ASSUME live = <<>>, capacity >= SZ
      PROVE  pj_fifobuf_available_size = capacity - SZ
  <2>1. ubegin = 0 /\ uend = 0 /\ ~full
    BY <1>1, <1>3, FifoAssumption DEF FifoInv, Pointers
  <2> QED BY <1>1, <1>3, <2>1, FifoAssumption DEF pj_fifobuf_available_size
<1> QED BY <1>2, <1>3 DEF OldestFreeable

LEMMA InvAvailable == FifoInv => AvailableExact
<1> SUFFICES ASSUME FifoInv, NEW size \in FifoSizes \ {0}
             PROVE  LET start == IF uend <= ubegin THEN uend ELSE 0
                    IN (~full /\ (EndFits(size) \/ ubegin - start >= size + SZ))
                         <=> size <= pj_fifobuf_available_size
  BY DEF AvailableExact
<1>1. capacity \in Nat /\ ubegin \in Nat /\ uend \in Nat /\ size \in Nat \ {0} /\ SZ \in Nat \ {0}
  BY FifoAssumption DEF FifoInv, FifoTypes
<1>2. CASE full
  BY <1>1, <1>2 DEF pj_fifobuf_available_size
<1>3. CASE ~full
  <2>1. ubegin = uend => ubegin = 0
    BY <1>3 DEF FifoInv, Pointers
  <2> QED BY <1>1, <1>3, <2>1 DEF pj_fifobuf_available_size, EndFits
<1> QED BY <1>2, <1>3

(* Blocks never overlap and stay inside the buffer, for every capacity and  *)
(* every sequence of allocations and frees of any sizes.                    *)
THEOREM BlocksApart == FifoSpec => []FifoBlocksApart
BY InvApart, FifoInitially, FifoStep, PTL DEF FifoSpec

(* The oldest block can always be freed, and an emptied buffer is as good   *)
(* as new.                                                                  *)
THEOREM OldestAlwaysFreeable == FifoSpec => []OldestFreeable
BY InvFreeable, FifoInitially, FifoStep, PTL DEF FifoSpec

(* pj_fifobuf_available_size is exact in every reachable state.             *)
THEOREM AvailableAlwaysExact == FifoSpec => []AvailableExact
BY InvAvailable, FifoInitially, FifoStep, PTL DEF FifoSpec
=============================================================================
