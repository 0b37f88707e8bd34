----------------------------- MODULE ArenaProofs -----------------------------
(***************************************************************************)
(* Theorems about the arena, for every set of sizes, every default         *)
(* capacity and any amount of memory.  The conjunction of the three        *)
(* properties is inductive: that two allocations are apart needs that every*)
(* one ends before its region's count, which is where the next one starts. *)
(***************************************************************************)
EXTENDS Arena, SequenceTheorems, TLAPS

IInv == TypeOK /\ NoOverlap /\ EveryWordOwned

-----------------------------------------------------------------------------
(* Sizes. *)

\* The words of a request hold its bytes.
LEMMA WordsSuffice ==
  ASSUME NEW bytes \in Nat
  PROVE  Words(bytes) \in Nat /\ bytes <= WordSize * Words(bytes)
  BY DEF Words, WordSize

\* A new region has room for the request it is made for.
LEMMA CapacitySuffices ==
  ASSUME NEW size \in Nat
  PROVE  Capacity(size) \in Nat /\ size <= Capacity(size)
  BY CapacityAssumption DEF Capacity

-----------------------------------------------------------------------------
(* One lemma per action. *)

\* An arena starts without regions.
LEMMA InitHolds ==
  ASSUME Init
  PROVE  IInv
<1>1. regions \in Seq(Regions) /\ Len(regions) = 0
  BY EmptySeq DEF Init
<1>2. TypeOK
  <2>1. end \in 0..Len(regions) /\ Len(regions) <= MaxRegions
    BY <1>1, RegionsAssumption DEF Init
  <2>2. \A r \in 1..Len(regions) : regions[r].count <= regions[r].capacity
    BY <1>1
  <2> QED BY <1>1, <2>1, <2>2 DEF Init, TypeOK
<1>3. NoOverlap /\ EveryWordOwned
  BY <1>1 DEF Init, NoOverlap, EveryWordOwned
<1> QED BY <1>2, <1>3 DEF IInv

\* Reset and free leave nothing allocated, and nothing counted as used.
LEMMA ResetHolds ==
  ASSUME IInv, Reset
  PROVE  IInv'
<1> USE DEF IInv, Reset
<1>1. TypeOK'
  <2>1. regions' \in Seq(Regions) /\ Len(regions') = Len(regions)
    <3>1. Len(regions) \in Nat
      BY DEF TypeOK
    <3>2. \A r \in 1..Len(regions) : [regions[r] EXCEPT !.count = 0] \in Regions
      <4> TAKE r \in 1..Len(regions)
      <4>1. regions[r] \in Regions
        BY ElementOfSeq DEF TypeOK
      <4> QED BY <4>1 DEF Regions
    <3> DEFINE emptied == [r \in 1..Len(regions) |-> [regions[r] EXCEPT !.count = 0]]
    <3>3. emptied \in Seq(Regions) /\ Len(emptied) = Len(regions)
      BY <3>1, <3>2
    <3> QED BY <3>3
  <2>2. \A r \in 1..Len(regions') : regions'[r].count <= regions'[r].capacity
    BY <2>1 DEF TypeOK, Regions
  <2>3. end' \in 0..Len(regions') /\ (end' = 0 <=> regions' = <<>>)
    <3>1. regions = <<>> <=> Len(regions) = 0
      BY EmptySeq DEF TypeOK
    <3>2. regions' = <<>> <=> Len(regions') = 0
      BY <2>1, EmptySeq
    <3>3. Len(regions) \in Nat
      BY DEF TypeOK
    <3> QED BY <2>1, <3>1, <3>2, <3>3
  <2> QED BY <2>1, <2>2, <2>3 DEF TypeOK
<1>2. NoOverlap'
  BY DEF NoOverlap
<1>3. EveryWordOwned'
  BY DEF TypeOK, EveryWordOwned
<1> QED BY <1>1, <1>2, <1>3

LEMMA FreeHolds ==
  ASSUME IInv, Free
  PROVE  IInv'
  BY EmptySeq, RegionsAssumption DEF IInv, Free, TypeOK, NoOverlap, EveryWordOwned, Allocations

\* An allocation in region r takes the words behind its count.
LEMMA AllocInRegionHolds ==
  ASSUME IInv, NEW bytes \in Sizes, AllocInRegion(bytes)
  PROVE  IInv'
<1> DEFINE size == Words(bytes)
<1>1. /\ bytes \in Nat
      /\ size \in Nat
      /\ bytes <= WordSize * size
  BY WordsSuffice, SizesAssumption
<1> HIDE DEF size
<1>2. PICK r \in 1..Len(regions) :
        /\ regions[r].count + size <= regions[r].capacity
        /\ regions' = [regions EXCEPT ![r].count = @ + size]
        /\ end' = r
        /\ live' = live \cup {Allocation(r, regions[r].count, size, bytes)}
        /\ aborted' = aborted
  BY DEF AllocInRegion, Fits, size
<1> DEFINE new == Allocation(r, regions[r].count, size, bytes)
<1>3. /\ regions \in Seq(Regions)
      /\ regions[r] \in Regions
      /\ regions[r].count \in Nat
      /\ regions[r].capacity \in Nat
  <2>1. regions \in Seq(Regions)
    BY DEF IInv, TypeOK
  <2>2. regions[r] \in Regions
    BY <2>1, ElementOfSeq
  <2> QED BY <2>1, <2>2 DEF Regions
<1>4. /\ Len(regions') = Len(regions)
      /\ regions' \in Seq(Regions)
      /\ regions'[r].count = regions[r].count + size
      /\ regions'[r].capacity = regions[r].capacity
      /\ \A q \in 1..Len(regions) : q # r => regions'[q] = regions[q]
  <2> DEFINE filled == [regions[r] EXCEPT !.count = @ + size]
  <2>1. /\ filled \in Regions
        /\ filled.count = regions[r].count + size
        /\ filled.capacity = regions[r].capacity
    <3>1. regions[r].count + size \in Nat
      BY <1>1, <1>3
    <3> QED BY <1>3, <3>1 DEF Regions
  <2>2. regions' = [regions EXCEPT ![r] = filled]
    BY <1>2
  <2> HIDE DEF filled
  <2> QED BY <2>1, <2>2, <1>3, ExceptSeq
<1>5. /\ new.region = r
      /\ new.from = regions[r].count
      /\ new.to = regions[r].count + size
      /\ new.bytes = bytes
      /\ new \in Allocations
  BY <1>1, <1>3 DEF Allocation, Allocations
<1>6. live' = live \cup {new}
  BY <1>2
<1>7. \A a \in live : /\ a.region \in 1..Len(regions)
                      /\ a.from \in Nat /\ a.to \in Nat
                      /\ a.from <= a.to
                      /\ a.to <= regions[a.region].count
  BY DEF IInv, TypeOK, NoOverlap, Allocations
<1> HIDE DEF new
<1>8. TypeOK'
  <2>1. \A q \in 1..Len(regions') : regions'[q].count <= regions'[q].capacity
    BY <1>2, <1>4 DEF IInv, TypeOK
  <2> QED BY <1>2, <1>4, <1>5, <1>6, <2>1 DEF IInv, TypeOK
<1>9. NoOverlap'
  <2>1. \A a \in live : a.to <= regions'[a.region].count
    <3> TAKE a \in live
    <3>1. CASE a.region = r
      BY <1>1, <1>3, <1>4, <1>7, <3>1
    <3>2. CASE a.region # r
      BY <1>4, <1>7, <3>2
    <3> QED BY <3>1, <3>2
  <2>2. \A a \in live : a.region = r => a.to <= new.from
    BY <1>5, <1>7
  <2>3. \A a \in live' : /\ a.region \in 1..Len(regions')
                         /\ a.from <= a.to
                         /\ a.to <= regions'[a.region].count
                         /\ a.bytes <= WordSize * (a.to - a.from)
    <3>1. bytes <= WordSize * (new.to - new.from)
      BY <1>1, <1>3, <1>5 DEF WordSize
    <3> QED BY <1>1, <1>2, <1>3, <1>4, <1>5, <1>6, <1>7, <2>1, <3>1 DEF IInv, NoOverlap
  <2>4. \A a, b \in live' :
          a # b /\ a.region = b.region => a.to <= b.from \/ b.to <= a.from
    BY <1>5, <1>6, <2>2 DEF IInv, NoOverlap
  <2> QED BY <2>3, <2>4 DEF NoOverlap
<1>10. EveryWordOwned'
  <2> SUFFICES ASSUME NEW q \in 1..Len(regions), NEW w \in 0..(regions'[q].count - 1)
               PROVE  \E a \in live' : a.region = q /\ a.from <= w /\ w < a.to
    BY <1>4 DEF EveryWordOwned
  <2>1. CASE q # r \/ w < regions[r].count
    <3>1. w \in 0..(regions[q].count - 1)
      BY <1>1, <1>3, <1>4, <2>1
    <3>2. \E a \in live : a.region = q /\ a.from <= w /\ w < a.to
      BY <3>1 DEF IInv, EveryWordOwned
    <3> QED BY <1>6, <3>2
  <2>2. CASE q = r /\ ~(w < regions[r].count)
    BY <1>1, <1>3, <1>4, <1>5, <1>6, <2>2
  <2> QED BY <2>1, <2>2
<1> QED BY <1>8, <1>9, <1>10 DEF IInv

\* A new region is behind all others and holds the new allocation alone.
LEMMA AllocNewRegionHolds ==
  ASSUME IInv, NEW bytes \in Sizes, AllocNewRegion(bytes)
  PROVE  IInv'
<1> DEFINE size == Words(bytes)
           n == Len(regions) + 1
           region == [count |-> size, capacity |-> Capacity(size)]
           new == Allocation(n, 0, size, bytes)
<1>1. /\ bytes \in Nat
      /\ size \in Nat
      /\ bytes <= WordSize * size
      /\ Capacity(size) \in Nat
      /\ size <= Capacity(size)
  BY WordsSuffice, CapacitySuffices, SizesAssumption
<1>2. /\ Len(regions) < MaxRegions
      /\ regions' = Append(regions, region)
      /\ end' = n
      /\ live' = live \cup {new}
      /\ UNCHANGED aborted
  BY DEF AllocNewRegion
<1> HIDE DEF size
<1>3. regions \in Seq(Regions) /\ Len(regions) \in Nat /\ region \in Regions
  BY <1>1 DEF IInv, TypeOK, Regions
<1>4. /\ Len(regions') = n
      /\ regions' \in Seq(Regions)
      /\ regions'[n] = region
      /\ \A q \in 1..Len(regions) : regions'[q] = regions[q]
  BY <1>2, <1>3
<1>5. /\ region.count = size
      /\ region.capacity = Capacity(size)
      /\ new.region = n
      /\ new.from = 0
      /\ new.to = size
      /\ new.bytes = bytes
      /\ new \in Allocations
  BY <1>1, <1>3 DEF Allocation, Allocations
<1> HIDE DEF new, region
<1>6. \A a \in live : /\ a.region \in 1..Len(regions)
                      /\ a.to <= regions[a.region].count
  BY DEF IInv, NoOverlap
<1>7. TypeOK'
  <2>1. \A q \in 1..Len(regions') : regions'[q].count <= regions'[q].capacity
    <3>1. \A q \in 1..Len(regions) : regions'[q].count <= regions'[q].capacity
      BY <1>4 DEF IInv, TypeOK
    <3>2. regions'[n].count <= regions'[n].capacity
      BY <1>1, <1>4, <1>5
    <3>3. \A q \in 1..Len(regions') : q \in 1..Len(regions) \/ q = n
      BY <1>3, <1>4
    <3> QED BY <3>1, <3>2, <3>3
  <2>2. Len(regions') <= MaxRegions
    BY <1>2, <1>3, <1>4, RegionsAssumption
  <2> QED BY <1>2, <1>3, <1>4, <1>5, <2>1, <2>2 DEF IInv, TypeOK
<1>8. NoOverlap'
  <2>1. \A a \in live' : /\ a.region \in 1..Len(regions')
                         /\ a.from <= a.to
                         /\ a.to <= regions'[a.region].count
                         /\ a.bytes <= WordSize * (a.to - a.from)
    <3>1. bytes <= WordSize * (new.to - new.from)
      BY <1>1, <1>5 DEF WordSize
    <3> QED BY <1>1, <1>2, <1>3, <1>4, <1>5, <1>6, <3>1 DEF IInv, NoOverlap
  <2>2. \A a, b \in live' :
          a # b /\ a.region = b.region => a.to <= b.from \/ b.to <= a.from
    BY <1>2, <1>3, <1>5, <1>6 DEF IInv, NoOverlap
  <2> QED BY <2>1, <2>2 DEF NoOverlap
<1>9. EveryWordOwned'
  <2> SUFFICES ASSUME NEW q \in 1..n, NEW w \in 0..(regions'[q].count - 1)
               PROVE  \E a \in live' : a.region = q /\ a.from <= w /\ w < a.to
    BY <1>4 DEF EveryWordOwned
  <2>1. CASE q = n
    BY <1>1, <1>2, <1>4, <1>5, <2>1
  <2>2. CASE q # n
    BY <1>2, <1>3, <1>4, <2>2 DEF IInv, EveryWordOwned
  <2> QED BY <2>1, <2>2
<1> QED BY <1>7, <1>8, <1>9 DEF IInv

-----------------------------------------------------------------------------
(* The invariant, and what it says. *)

LEMMA StepHolds ==
  ASSUME IInv, [Next]_vars
  PROVE  IInv'
<1>1. CASE \E bytes \in Sizes : AllocInRegion(bytes)
  BY <1>1, AllocInRegionHolds
<1>2. CASE \E bytes \in Sizes : AllocNewRegion(bytes)
  BY <1>2, AllocNewRegionHolds
<1>3. CASE \E bytes \in Sizes : OutOfMemory(bytes)
  BY <1>3 DEF OutOfMemory, IInv, TypeOK, NoOverlap, EveryWordOwned
<1>4. CASE Reset
  BY <1>4, ResetHolds
<1>5. CASE Free
  BY <1>5, FreeHolds
<1>6. CASE UNCHANGED vars
  BY <1>6 DEF vars, IInv, TypeOK, NoOverlap, EveryWordOwned
<1> QED BY <1>1, <1>2, <1>3, <1>4, <1>5, <1>6 DEF Next, Alloc

LEMMA Invariance == Spec => []IInv
<1>1. Init => IInv
  BY InitHolds
<1>2. IInv /\ [Next]_vars => IInv'
  BY StepHolds
<1> QED BY <1>1, <1>2, PTL DEF Spec

\* Whatever is asked for, the list of regions stays well formed and no region
\* is filled beyond what malloc was asked for (arena_alloc).
THEOREM RegionsHold == Spec => []TypeOK
<1>1. IInv => TypeOK
  BY DEF IInv
<1> QED BY <1>1, Invariance, PTL

\* Whatever is asked for, no word belongs to two live allocations, and each
\* allocation lies in the used part of its region (arena_alloc, arena_reset).
THEOREM AllocationsApart == Spec => []NoOverlap
<1>1. IInv => NoOverlap
  BY DEF IInv
<1> QED BY <1>1, Invariance, PTL

\* Whatever is asked for, a word counted as used is part of a live allocation:
\* arena_bytes counts what was allocated, and nothing after arena_reset.
THEOREM UsedWordsOwned == Spec => []EveryWordOwned
<1>1. IInv => EveryWordOwned
  BY DEF IInv
<1> QED BY <1>1, Invariance, PTL
=============================================================================
