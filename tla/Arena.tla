-------------------------------- MODULE Arena --------------------------------
(***************************************************************************)
(* The arena the nodes of the parser live in (src/lib/arena.h, libc        *)
(* backend).  An arena is a list of regions of memory words, of which `end'*)
(* is the one allocations come from; behind it there may be regions that   *)
(* arena_reset emptied.                                                    *)
(*                                                                         *)
(* The list begin, begin->next, ... is the sequence regions, a pointer to  *)
(* a region is its position, and NULL is 0.  A pointer arena_alloc returns *)
(* is the region and word it points to; live remembers the ones the caller *)
(* may still use.                                                          *)
(***************************************************************************)
EXTENDS Naturals, Sequences, FiniteSets

CONSTANTS
  Sizes,               \* the sizes, in bytes, that are asked for
  DefaultCapacity,     \* REGION_DEFAULT_CAPACITY, in words
  MaxRegions           \* how many regions malloc has memory for

ASSUME SizesAssumption == Sizes \subseteq Nat
ASSUME CapacityAssumption == DefaultCapacity \in Nat \ {0}
ASSUME RegionsAssumption == MaxRegions \in Nat

VARIABLES
  regions,             \* the regions from begin on
  end,                 \* a->end
  live,                \* what has been allocated since the last reset or free
  aborted              \* ARENA_ASSERT(r) in new_region has failed

vars == <<regions, end, live, aborted>>

WordSize == 8                             \* sizeof(uintptr_t)
\* Variant: the size in words rounded down.
WordsRoundedDown(bytes) == bytes \div WordSize

Words(bytes) == (bytes + WordSize - 1) \div WordSize

Regions == [count : Nat, capacity : Nat]
Allocations == [region : Nat \ {0}, from : Nat, to : Nat, bytes : Sizes]

\* The words from..to-1 of a region.
Allocation(r, from, size, bytes) ==
  [region |-> r, from |-> from, to |-> from + size, bytes |-> bytes]

\* Variant: regions of the default capacity whatever is asked for.
CapacityDefault(size) == DefaultCapacity

Capacity(size) == IF DefaultCapacity < size THEN size ELSE DefaultCapacity

Fits(r, size) == regions[r].count + size <= regions[r].capacity

-----------------------------------------------------------------------------
Init ==
  /\ regions = <<>>
  /\ end = 0
  /\ live = {}
  /\ aborted = FALSE

\* The loop goes on to the first region from `end' on that has room.  Room left
\* in the regions it passes is not used again before a reset.
AllocInRegion(bytes) ==
  \E r \in 1..Len(regions) :
    /\ r >= end
    /\ Fits(r, Words(bytes))
    /\ \A q \in end..(r - 1) : ~Fits(q, Words(bytes))
    /\ regions' = [regions EXCEPT ![r].count = @ + Words(bytes)]
    /\ end' = r
    /\ live' = live \cup {Allocation(r, regions[r].count, Words(bytes), bytes)}
    /\ UNCHANGED aborted

\* No region from `end' on has room (or there is none): a new one is linked in
\* behind the last.
NeedsRegion(bytes) == \A r \in 1..Len(regions) : r >= end => ~Fits(r, Words(bytes))

AllocNewRegion(bytes) ==
  /\ NeedsRegion(bytes)
  /\ Len(regions) < MaxRegions
  /\ regions' = Append(regions, [count |-> Words(bytes), capacity |-> Capacity(Words(bytes))])
  /\ end' = Len(regions) + 1
  /\ live' = live \cup {Allocation(Len(regions) + 1, 0, Words(bytes), bytes)}
  /\ UNCHANGED aborted

\* malloc returns NULL; the assertion ends the process.
OutOfMemory(bytes) ==
  /\ NeedsRegion(bytes)
  /\ Len(regions) >= MaxRegions
  /\ aborted' = TRUE
  /\ UNCHANGED <<regions, end, live>>

\* arena_alloc.  arena_strdup, arena_memdup and arena_sprintf are this and a
\* copy; so is arena_realloc, which keeps the old block, when it has to grow.
Alloc ==
  \E bytes \in Sizes :
    AllocInRegion(bytes) \/ AllocNewRegion(bytes) \/ OutOfMemory(bytes)

\* Variant: only the region allocations come from is emptied.
ResetLast ==
  /\ regions' = [r \in 1..Len(regions) |->
                   [regions[r] EXCEPT !.count = IF r = end THEN 0 ELSE @]]
  /\ end' = IF regions = <<>> THEN 0 ELSE 1
  /\ live' = {}
  /\ UNCHANGED aborted

\* arena_reset: the regions stay, nothing in them is in use.
Reset ==
  /\ regions' = [r \in 1..Len(regions) |-> [regions[r] EXCEPT !.count = 0]]
  /\ end' = IF regions = <<>> THEN 0 ELSE 1
  /\ live' = {}
  /\ UNCHANGED aborted

\* arena_free
Free ==
  /\ regions' = <<>>
  /\ end' = 0
  /\ live' = {}
  /\ UNCHANGED aborted

Next ==
  \/ ~aborted /\ (Alloc \/ Reset \/ Free)
  \/ aborted /\ UNCHANGED vars

Spec == Init /\ [][Next]_vars

-----------------------------------------------------------------------------
(* Properties. *)

\* The list is well formed: `end' is NULL only while begin is (the assertion in
\* arena_alloc), and no region is filled beyond what was allocated for it.
TypeOK ==
  /\ regions \in Seq(Regions)
  /\ end \in 0..Len(regions)
  /\ end = 0 <=> regions = <<>>
  /\ Len(regions) <= MaxRegions
  /\ \A r \in 1..Len(regions) : regions[r].count <= regions[r].capacity
  /\ live \subseteq Allocations
  /\ aborted \in BOOLEAN

\* What arena_alloc returns is as large as was asked for, lies in the used part
\* of a region of the list, and shares no word with anything allocated before
\* it and not yet given up, across regions passed, resets and frees.
NoOverlap ==
  /\ \A a \in live :
       /\ a.region \in 1..Len(regions)
       /\ a.from <= a.to
       /\ a.to <= regions[a.region].count
       /\ a.bytes <= WordSize * (a.to - a.from)
  /\ \A a, b \in live :
       a # b /\ a.region = b.region => a.to <= b.from \/ b.to <= a.from

\* Every word a region counts as used is part of a live allocation, so that
\* arena_bytes is what has been allocated and a reset arena is really empty.
EveryWordOwned ==
  \A r \in 1..Len(regions) : \A w \in 0..(regions[r].count - 1) :
    \E a \in live : a.region = r /\ a.from <= w /\ w < a.to
=============================================================================
