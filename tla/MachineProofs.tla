---------------------------- MODULE MachineProofs ----------------------------
(*****************************************************************************)
(* Proofs about the machine the kernel sets up: the bump allocator, for      *)
(* every heap size, alignment, address width and every sequence of requests; *)
(* the page tables, for tables and pages of every size; the interrupt        *)
(* controllers, for any set of devices; the disk self-test, for any drive    *)
(* whose writes are not lost in silence; the mouse, for any packets; and the *)
(* cursor of the console, for any screen.                                    *)
(*****************************************************************************)
EXTENDS Kheap, Vmm, Irq, AtaSelfTest, Mouse, Console, TLAPS

(* The heap.                                                                 *)

\* Once the heap exists its cursor is inside it, and aligning the cursor cannot
\* reach the end of the address space.
HeapBounds ==
    /\ pc = "init" => blocks = {}
    /\ pc # "init" =>
        /\ heap_start <= heap_current
        /\ heap_current <= heap_end
        /\ heap_end + KHEAP_ALIGNMENT <= AddressRange

HInv == TypeOK /\ HeapBounds /\ BlocksDisjoint /\ ContentsKept

\* Aligning moves a value up by less than the alignment, as long as the sum does
\* not wrap.
LEMMA AlignUp ==
    ASSUME NEW v \in Nat, NEW a \in Nat \ {0}, v + a <= AddressRange
    PROVE  align_up(v, a) \in Nat /\ v <= align_up(v, a) /\ align_up(v, a) < v + a
<1> DEFINE r == v + a - 1
<1>1. r \in Nat /\ r < AddressRange /\ AddressRange \in Nat
    BY KheapAssumption
<1>2. r % AddressRange = r
    BY <1>1
<1>3. r % a \in Nat /\ r % a < a
    BY <1>1
<1>4. align_up(v, a) = r - (r % a)
    BY <1>2 DEF align_up
<1> HIDE DEF r
<1>5. r = v + a - 1
    BY DEF r
<1> QED BY <1>3, <1>4, <1>5

\* A block that is handed out begins past the cursor and ends inside the heap:
\* the comparison next < allocation catches every sum that wraps.
LEMMA FreshBlock ==
    ASSUME TypeOK, HeapBounds, pc # "init", NEW size \in 0 .. AddressRange - 1, ~NoRoom(size)
    PROVE  /\ Allocation \in Address
           /\ heap_current <= Allocation
           /\ NextCursor(size) = Allocation + size
           /\ Allocation + size <= heap_end
           /\ size > 0
           /\ NextCursor(size) \in Address
<1>1. /\ heap_current \in Nat /\ heap_end \in Nat /\ AddressRange \in Nat
      /\ heap_end < AddressRange
      /\ heap_current + KHEAP_ALIGNMENT <= AddressRange
      /\ KHEAP_ALIGNMENT \in Nat \ {0}
    BY KheapAssumption DEF TypeOK, Address, HeapBounds
<1>2. /\ Allocation \in Nat /\ heap_current <= Allocation
      /\ Allocation < heap_current + KHEAP_ALIGNMENT
    BY <1>1, AlignUp DEF Allocation
<1>3. Allocation < AddressRange
    BY <1>1, <1>2
<1>4. CASE Allocation + size < AddressRange
    <2>1. NextCursor(size) = Allocation + size
        BY <1>1, <1>2, <1>4 DEF NextCursor
    <2> QED BY <1>1, <1>2, <1>3, <2>1 DEF NoRoom, Address
<1>5. CASE ~(Allocation + size < AddressRange)
    <2>1. Allocation + size - AddressRange \in Nat /\ Allocation + size - AddressRange < AddressRange
        BY <1>1, <1>2, <1>3, <1>5
    <2>2. NextCursor(size) = Allocation + size - AddressRange
        BY <1>1, <1>2, <1>3, <1>5, <2>1 DEF NextCursor
    <2>3. NextCursor(size) < Allocation
        BY <1>1, <1>2, <2>2
    <2> QED BY <2>3 DEF NoRoom
<1> QED BY <1>4, <1>5

\* Handing out a block preserves the invariant.
LEMMA AllocateStep ==
    ASSUME HInv, pc # "init", NEW size \in 0 .. AddressRange - 1,
           NEW h \in {"raw", "zero"}, Allocate(size, h),
           pc' \in {"testB", "run", "panic"}
    PROVE  HInv'
<1> DEFINE new == [at |-> Allocation, size |-> size, holds |-> h]
<1>1. /\ ~NoRoom(size)
      /\ heap_current' = NextCursor(size)
      /\ allocation_count' = allocation_count + 1
      /\ blocks' = blocks \cup {new}
      /\ dirty' = IF h = "zero" THEN dirty \ Range(new) ELSE dirty
      /\ heap_start' = heap_start /\ heap_end' = heap_end
    BY DEF Allocate, bounds
<1>2. /\ Allocation \in Address
      /\ heap_current <= Allocation
      /\ heap_current' = Allocation + size
      /\ Allocation + size <= heap_end
      /\ size > 0 /\ size \in Nat
      /\ heap_current' \in Address
    BY <1>1, FreshBlock, KheapAssumption DEF HInv
<1>3. new \in Block
    BY <1>2 DEF Block
<1>4. new.at = Allocation /\ new.size = size /\ new.holds = h
    OBVIOUS
<1>5. /\ heap_start \in Nat /\ heap_current \in Nat /\ heap_end \in Nat /\ Allocation \in Nat
      /\ heap_start <= heap_current /\ heap_current <= heap_end
    BY <1>2, KheapAssumption DEF HInv, TypeOK, Address, HeapBounds
<1>6. \A b \in blocks : b \in Block /\ b.at \in Nat /\ b.size \in Nat
                        /\ b.at + b.size <= heap_current /\ b.size > 0 /\ heap_start <= b.at
    BY KheapAssumption DEF HInv, TypeOK, Block, Address, BlocksDisjoint
<1> HIDE DEF new
<1>7. TypeOK'
    <2>1. dirty' \in SUBSET Address
        BY <1>1 DEF HInv, TypeOK
    <2>2. blocks' \in SUBSET Block
        BY <1>1, <1>3 DEF HInv, TypeOK
    <2>3. pc' \in {"init", "testA", "testB", "run", "panic"}
        OBVIOUS
    <2> QED BY <1>1, <1>2, <2>1, <2>2, <2>3 DEF HInv, TypeOK
<1>8. HeapBounds'
    BY <1>1, <1>2, <1>5 DEF HInv, HeapBounds
<1>9. BlocksDisjoint'
    <2>1. \A b \in blocks' : /\ b.size > 0 /\ heap_start' <= b.at
                             /\ b.at + b.size <= heap_current' /\ heap_current' <= heap_end'
        BY <1>1, <1>2, <1>4, <1>5, <1>6
    <2>2. \A b, c \in blocks' : b # c => b.at + b.size <= c.at \/ c.at + c.size <= b.at
        <3> TAKE b, c \in blocks'
        <3>1. CASE b \in blocks /\ c \in blocks
            BY <3>1 DEF HInv, BlocksDisjoint
        <3>2. CASE b \in blocks /\ c = new
            BY <1>2, <1>4, <1>5, <1>6, <3>2
        <3>3. CASE b = new /\ c \in blocks
            BY <1>2, <1>4, <1>5, <1>6, <3>3
        <3> QED BY <1>1, <3>1, <3>2, <3>3
    <2> QED BY <2>1, <2>2 DEF BlocksDisjoint
<1>10. ContentsKept'
    <2> SUFFICES ASSUME NEW b \in blocks'
                 PROVE  /\ b.holds = "zero" => Range(b) \cap dirty' = {}
                        /\ b.holds = "data" => Range(b) \subseteq dirty'
        BY DEF ContentsKept
    <2>1. CASE b \in blocks
        <3>1. Range(b) \cap Range(new) = {}
            BY <1>2, <1>4, <1>5, <1>6, <2>1 DEF Range
        <3>2. /\ b.holds = "zero" => Range(b) \cap dirty = {}
              /\ b.holds = "data" => Range(b) \subseteq dirty
            BY <2>1 DEF HInv, ContentsKept
        <3> QED BY <1>1, <3>1, <3>2
    <2>2. CASE b = new
        BY <1>1, <1>4, <2>2
    <2> QED BY <1>1, <2>1, <2>2
<1> QED BY <1>7, <1>8, <1>9, <1>10 DEF HInv

\* An owner's write preserves the invariant: it touches no other block.
LEMMA FillStep == ASSUME HInv, NEW b \in blocks, Fill(b) PROVE HInv'
<1> DEFINE f == [b EXCEPT !.holds = "data"]
<1>1. /\ blocks' = (blocks \ {b}) \cup {f}
      /\ dirty' = dirty \cup Range(b)
      /\ UNCHANGED <<heap_start, heap_current, heap_end, allocation_count, pc>>
    BY DEF Fill
<1>2. b \in Block /\ f \in Block /\ f.at = b.at /\ f.size = b.size /\ f.holds = "data"
    BY DEF HInv, TypeOK, Block
<1>3. \A c \in blocks : c \in Block /\ c.at \in Nat /\ c.size \in Nat
                        /\ c.size > 0 /\ heap_start <= c.at
                        /\ c.at + c.size <= heap_current /\ heap_current <= heap_end
    BY KheapAssumption DEF HInv, TypeOK, Block, Address, BlocksDisjoint
<1>4. Range(f) = Range(b)
    BY <1>2 DEF Range
<1>5. Range(b) \subseteq Address
    <2>1. heap_end \in Nat /\ heap_end < AddressRange /\ heap_start \in Nat /\ AddressRange \in Nat
        BY KheapAssumption DEF HInv, TypeOK, Address
    <2>2. heap_current \in Nat
        BY KheapAssumption DEF HInv, TypeOK, Address
    <2> QED BY <1>3, <2>1, <2>2 DEF Range, Address
<1> HIDE DEF f
<1>6. TypeOK'
    BY <1>1, <1>2, <1>5 DEF HInv, TypeOK
<1>7. HeapBounds'
    BY <1>1 DEF HInv, HeapBounds, Fill
<1>8. \A c \in blocks \ {b} : b.at + b.size <= c.at \/ c.at + c.size <= b.at
    BY DEF HInv, BlocksDisjoint
<1>9. BlocksDisjoint'
    <2>1. \A c \in blocks' : /\ c.size > 0 /\ heap_start' <= c.at
                             /\ c.at + c.size <= heap_current' /\ heap_current' <= heap_end'
        BY <1>1, <1>2, <1>3
    <2>2. \A c, d \in blocks' : c # d => c.at + c.size <= d.at \/ d.at + d.size <= c.at
        <3> TAKE c, d \in blocks'
        <3>1. CASE c \in blocks \ {b} /\ d \in blocks \ {b}
            BY <3>1 DEF HInv, BlocksDisjoint
        <3>2. CASE c \in blocks \ {b} /\ d = f
            BY <1>2, <1>8, <3>2
        <3>3. CASE c = f /\ d \in blocks \ {b}
            BY <1>2, <1>8, <3>3
        <3> QED BY <1>1, <3>1, <3>2, <3>3
    <2> QED BY <2>1, <2>2 DEF BlocksDisjoint
<1>10. ContentsKept'
    <2> SUFFICES ASSUME NEW c \in blocks'
                 PROVE  /\ c.holds = "zero" => Range(c) \cap dirty' = {}
                        /\ c.holds = "data" => Range(c) \subseteq dirty'
        BY DEF ContentsKept
    <2>1. CASE c \in blocks \ {b}
        <3>1. Range(c) \cap Range(b) = {}
            BY <1>3, <1>8, <2>1 DEF Range
        <3>2. /\ c.holds = "zero" => Range(c) \cap dirty = {}
              /\ c.holds = "data" => Range(c) \subseteq dirty
            BY <2>1 DEF HInv, ContentsKept
        <3> QED BY <1>1, <3>1, <3>2
    <2>2. CASE c = f
        BY <1>1, <1>2, <1>4, <2>2
    <2> QED BY <1>1, <2>1, <2>2
<1> QED BY <1>6, <1>7, <1>9, <1>10 DEF HInv

\* kheap_init sets up an empty heap below the end of the address space.
LEMMA InitStep == ASSUME HInv, kheap_init PROVE HInv'
<1> DEFINE start == align_up(KernelEnd, PageSize)
<1>0. /\ KernelEnd \in Nat /\ PageSize \in Nat /\ PageSize # 0 /\ AddressRange \in Nat
      /\ KHEAP_SIZE_BYTES \in Nat /\ KHEAP_ALIGNMENT \in Nat /\ KHEAP_ALIGNMENT > 0
      /\ KernelEnd + PageSize + KHEAP_SIZE_BYTES + KHEAP_ALIGNMENT <= AddressRange
    BY KheapAssumption
<1>1. start \in Nat /\ start < KernelEnd + PageSize
    <2>1. KernelEnd + PageSize <= AddressRange
        BY <1>0
    <2> QED BY <1>0, <2>1, AlignUp
<1>2. /\ heap_start' = start /\ heap_current' = start
      /\ heap_end' = (start + KHEAP_SIZE_BYTES) % AddressRange
      /\ allocation_count' = 0 /\ pc' = "testA" /\ blocks' = {} /\ dirty' = dirty
    BY DEF kheap_init, HInv, HeapBounds
<1> HIDE DEF start
<1>3. start + KHEAP_SIZE_BYTES + KHEAP_ALIGNMENT <= AddressRange
    BY <1>0, <1>1
<1>4. (start + KHEAP_SIZE_BYTES) % AddressRange = start + KHEAP_SIZE_BYTES
    BY <1>0, <1>1, <1>3
<1>5. start \in Address /\ start + KHEAP_SIZE_BYTES \in Address
    BY <1>0, <1>1, <1>3 DEF Address
<1>6. TypeOK'
    BY <1>2, <1>4, <1>5 DEF HInv, TypeOK
<1>7. HeapBounds'
    BY <1>0, <1>1, <1>2, <1>3, <1>4 DEF HeapBounds
<1>8. BlocksDisjoint' /\ ContentsKept'
    BY <1>2 DEF BlocksDisjoint, ContentsKept
<1> QED BY <1>6, <1>7, <1>8 DEF HInv

\* Steps that only move pc past the start preserve the invariant.
LEMMA IdleStep ==
    ASSUME HInv, pc' = pc \/ (pc # "init" /\ pc' \in {"testB", "run", "panic"}),
           UNCHANGED <<heap_start, heap_current, heap_end, allocation_count, blocks, dirty>>
    PROVE  HInv'
BY DEF HInv, TypeOK, HeapBounds, BlocksDisjoint, ContentsKept, Range

\* HInv is inductive.
LEMMA HInvStep == HInv /\ [Next]_vars => HInv'
<1> SUFFICES ASSUME HInv, [Next]_vars PROVE HInv'
    OBVIOUS
<1>0. SizeA \in 0 .. AddressRange - 1 /\ SizeB \in 0 .. AddressRange - 1
    BY KheapAssumption
<1>1. CASE kheap_init
    BY <1>1, InitStep
<1>2. CASE SelfTestA
    <2>1. CASE NoRoom(SizeA)
        BY <1>2, <2>1, IdleStep DEF SelfTestA, bounds
    <2>2. CASE ~NoRoom(SizeA)
        BY <1>0, <1>2, <2>2, AllocateStep DEF SelfTestA, kmalloc
    <2> QED BY <2>1, <2>2
<1>3. CASE SelfTestB
    <2>1. CASE NoRoom(SizeB)
        BY <1>3, <2>1, IdleStep DEF SelfTestB, bounds
    <2>2. CASE ~NoRoom(SizeB)
        <3>1. pc' \in {"testB", "run", "panic"} /\ pc # "init" /\ Allocate(SizeB, "zero")
            BY <1>3, <2>2 DEF SelfTestB, kzalloc
        <3> QED BY <1>0, <3>1, AllocateStep
    <2> QED BY <2>1, <2>2
<1>4. ASSUME NEW size \in Sizes, Malloc(size) \/ Zalloc(size) PROVE HInv'
    <2>1. size \in 0 .. AddressRange - 1
        BY KheapAssumption
    <2>2. pc # "init" /\ pc' \in {"testB", "run", "panic"}
        BY <1>4 DEF Malloc, Zalloc
    <2>3. \E h \in {"raw", "zero"} : Allocate(size, h)
        BY <1>4 DEF Malloc, Zalloc, kmalloc, kzalloc
    <2> QED BY <2>1, <2>2, <2>3, AllocateStep
<1>5. CASE UNCHANGED vars
    BY <1>5, IdleStep DEF vars
<1>6. ASSUME NEW size \in Sizes, AllocateFails(size) PROVE HInv'
    BY <1>5, <1>6 DEF AllocateFails
<1>7. ASSUME NEW b \in blocks, Fill(b) PROVE HInv'
    BY <1>7, FillStep
<1> QED BY <1>1, <1>2, <1>3, <1>4, <1>5, <1>6, <1>7 DEF Next

\* The empty heap satisfies the invariant.
LEMMA HInvInit == Init => HInv
<1> SUFFICES ASSUME Init PROVE HInv
    OBVIOUS
<1>1. 0 \in Address
    BY KheapAssumption DEF Address
<1> QED BY <1>1 DEF Init, HInv, TypeOK, HeapBounds, BlocksDisjoint, ContentsKept

\* kmalloc and kzalloc never hand out a byte twice, nor one outside the heap.
THEOREM BlocksNeverOverlap == Spec => []BlocksDisjoint
<1>1. HInv => BlocksDisjoint
    BY DEF HInv
<1> QED BY HInvInit, HInvStep, <1>1, PTL DEF Spec

\* Nobody else's allocation or write changes what a block holds.
THEOREM BlocksKeepContents == Spec => []ContentsKept
<1>1. HInv => ContentsKept
    BY DEF HInv
<1> QED BY HInvInit, HInvStep, <1>1, PTL DEF Spec

------------------------------------------------------------------------------
(* The page tables.                                                          *)

LEMMA DivMod ==
  ASSUME NEW n \in Nat, NEW d \in Nat \ {0}
  PROVE  n \div d \in Nat /\ n % d \in 0 .. d - 1 /\ n = (n \div d) * d + (n % d)
OBVIOUS

LEMMA Times ==
  ASSUME NEW p \in Nat, NEW q \in Nat, NEW d \in Nat \ {0}, p < q
  PROVE  p * d + d <= q * d
<1>1. q * d = p * d + (q - p) * d /\ q - p >= 1
  OBVIOUS
<1>2. \A k \in Nat \ {0} : k * d >= d
  OBVIOUS
<1> QED BY <1>1, <1>2

LEMMA Quotient ==
  ASSUME NEW q \in Nat, NEW r \in Nat, NEW d \in Nat \ {0}, r < d
  PROVE  (q * d + r) \div d = q /\ (q * d + r) % d = r
<1> DEFINE n == q * d + r
           k == n \div d
<1>1. n \in Nat
  OBVIOUS
<1>2. k \in Nat /\ n % d \in 0 .. d - 1 /\ n = k * d + (n % d)
  BY <1>1, DivMod
<1>3. CASE k < q
  <2>1. k * d + d <= q * d
    BY <1>2, <1>3, Times
  <2> QED BY <1>2, <2>1
<1>4. CASE q < k
  <2>1. q * d + d <= k * d
    BY <1>2, <1>4, Times
  <2> QED BY <1>2, <2>1
<1> QED BY <1>2, <1>3, <1>4

\* The low bits of an address are its three digits and its offset.
Composed(a, b, c, o) == ((a * PAGE_ENTRIES + b) * PAGE_ENTRIES + c) * PAGE_SIZE + o

LEMMA Digits ==
  ASSUME NEW va \in Virtual
  PROVE  /\ Pml4Index(va) \in Index /\ PdptIndex(va) \in Index /\ PdIndex(va) \in Index
         /\ va % PAGE_SIZE \in 0 .. PAGE_SIZE - 1
         /\ Low(va) = Composed(Pml4Index(va), PdptIndex(va), PdIndex(va), va % PAGE_SIZE)
<1> DEFINE N == PAGE_ENTRIES
           P == PAGE_SIZE
           o == va % P
           k1 == va \div P
           c == k1 % N
           k2 == k1 \div N
           b == k2 % N
           k3 == k2 \div N
           a == k3 % N
           k4 == k3 \div N
<1>1. N \in Nat \ {0} /\ P \in Nat \ {0} /\ va \in Nat
  BY VmmAssumption DEF Virtual
<1> HIDE DEF N, P
<1>2. k1 \in Nat /\ o \in 0 .. P - 1 /\ va = k1 * P + o
  BY <1>1, DivMod
<1> HIDE DEF k1, o
<1>3. k2 \in Nat /\ c \in 0 .. N - 1 /\ k1 = k2 * N + c
  BY <1>1, <1>2, DivMod
<1> HIDE DEF k2, c
<1>4. k3 \in Nat /\ b \in 0 .. N - 1 /\ k2 = k3 * N + b
  BY <1>1, <1>3, DivMod
<1> HIDE DEF k3, b
<1>5. c * P + o \in Nat /\ c * P + o < P * N
  <2>1. c * P + P <= N * P
    BY <1>1, <1>3, Times
  <2>2. c * P \in Nat /\ N * P \in Nat /\ N * P = P * N
    BY <1>1, <1>3
  <2> QED BY <1>1, <1>2, <2>1, <2>2
<1>6. P * N \in Nat \ {0} /\ va = k2 * (P * N) + (c * P + o)
  <2>1. k2 * (P * N) = k2 * N * P /\ (k2 * N + c) * P = k2 * N * P + c * P
    BY <1>1, <1>3
  <2>2. P * N # 0
    BY <1>5, <1>1
  <2> QED BY <1>1, <1>2, <1>3, <2>1, <2>2
<1>7. va \div (P * N) = k2
  BY <1>3, <1>5, <1>6, Quotient
<1>8. b * (P * N) + (c * P + o) \in Nat /\ b * (P * N) + (c * P + o) < P * N * N
  <2>1. b * (P * N) + P * N <= N * (P * N)
    BY <1>1, <1>4, <1>6, Times
  <2>2. b * (P * N) \in Nat /\ N * (P * N) = P * N * N
    BY <1>1, <1>4, <1>6
  <2> QED BY <1>1, <1>5, <2>1, <2>2
<1>9. P * N * N \in Nat \ {0} /\ va = k3 * (P * N * N) + (b * (P * N) + (c * P + o))
  <2>1. k3 * (P * N * N) = k3 * N * (P * N) /\ (k3 * N + b) * (P * N) = k3 * N * (P * N) + b * (P * N)
    BY <1>1, <1>4
  <2>2. P * N * N # 0
    BY <1>8, <1>1
  <2>3. k3 * (P * N * N) \in Nat /\ b * (P * N) \in Nat /\ P * N * N \in Nat
    BY <1>1, <1>4
  <2> QED BY <1>4, <1>5, <1>6, <2>1, <2>2, <2>3
<1>10. va \div (P * N * N) = k3
  BY <1>4, <1>8, <1>9, Quotient
<1>11. k4 \in Nat /\ a \in 0 .. N - 1 /\ k3 = k4 * N + a
  BY <1>1, <1>4, DivMod
<1>12. PdIndex(va) = c /\ PdptIndex(va) = b /\ Pml4Index(va) = a /\ va % PAGE_SIZE = o
  BY <1>7, <1>10 DEF PdIndex, PdptIndex, Pml4Index, N, P, k1, c, b, o
<1> HIDE DEF k4, a
<1> DEFINE r == b * (P * N) + (c * P + o)
           low == a * (P * N * N) + r
<1>13. r \in Nat /\ r < P * N * N /\ P * N * N \in Nat \ {0} /\ va = k3 * (P * N * N) + r
  BY <1>8, <1>9
<1>14. low = Composed(a, b, c, o)
  <2>1. ((a * N + b) * N + c) * P = a * (P * N * N) + b * (P * N) + c * P
    BY <1>1, <1>3, <1>4, <1>11
  <2>2. a * (P * N * N) \in Nat /\ b * (P * N) \in Nat /\ c * P \in Nat
    BY <1>1, <1>3, <1>4, <1>11
  <2> QED BY <1>2, <2>1, <2>2 DEF Composed, N, P
<1> HIDE DEF r
<1>15. low \in Nat /\ low < N * (P * N * N)
  <2>1. a * (P * N * N) + P * N * N <= N * (P * N * N)
    BY <1>1, <1>11, <1>13, Times
  <2>2. a * (P * N * N) \in Nat /\ N * (P * N * N) \in Nat
    BY <1>1, <1>11
  <2> QED BY <1>13, <2>1, <2>2
<1>16. va = k4 * (N * (P * N * N)) + low
  <2>1. (k4 * N + a) * (P * N * N) = k4 * (N * (P * N * N)) + a * (P * N * N)
    BY <1>1, <1>11
  <2>2. k4 * (N * (P * N * N)) \in Nat /\ a * (P * N * N) \in Nat
    BY <1>1, <1>11
  <2> QED BY <1>11, <1>13, <2>1, <2>2
<1> HIDE DEF low
<1>17. va % (N * (P * N * N)) = low
  <2>1. N * (P * N * N) \in Nat \ {0}
    BY <1>1, <1>15
  <2> QED BY <1>11, <1>15, <1>16, <2>1, Quotient
<1>18. SPAN = N * (P * N * N)
  BY <1>1 DEF SPAN, N, P
<1> QED BY <1>1, <1>2, <1>3, <1>4, <1>11, <1>12, <1>14, <1>17, <1>18 DEF Index, N, P, Low

\* No two choices of digits give the same page.
LEMMA SamePage ==
  ASSUME NEW a \in Index, NEW b \in Index, NEW c \in Index, NEW d \in Index, NEW e \in Index, NEW f \in Index,
         Composed(a, b, c, 0) = Composed(d, e, f, 0)
  PROVE  a = d /\ b = e /\ c = f
<1> DEFINE N == PAGE_ENTRIES
           P == PAGE_SIZE
           u == a * N + b
           v == d * N + e
           k == u * N + c
           l == v * N + f
<1>1. N \in Nat \ {0} /\ P \in Nat \ {0}
  BY VmmAssumption
<1>2. a \in Nat /\ b \in Nat /\ c \in Nat /\ d \in Nat /\ e \in Nat /\ f \in Nat
      /\ b < N /\ c < N /\ e < N /\ f < N
  BY <1>1 DEF Index
<1>3. k * P + 0 = l * P + 0
  BY DEF Composed
<1> HIDE DEF N, P
<1>4. u \in Nat /\ v \in Nat
  BY <1>1, <1>2
<1>5. (u * N + c) \div N = u /\ (u * N + c) % N = c /\ (v * N + f) \div N = v /\ (v * N + f) % N = f
  BY <1>1, <1>2, <1>4, Quotient
<1>6. (a * N + b) \div N = a /\ (a * N + b) % N = b /\ (d * N + e) \div N = d /\ (d * N + e) % N = e
  BY <1>1, <1>2, Quotient
<1> HIDE DEF u, v
<1>7. k \in Nat /\ l \in Nat
  BY <1>1, <1>2, <1>4
<1>8. (k * P + 0) \div P = k /\ (l * P + 0) \div P = l
  <2> HIDE DEF k, l
  <2> QED BY <1>1, <1>7, Quotient
<1>9. k = l
  BY <1>3, <1>8
<1>10. u = v /\ c = f
  BY <1>5, <1>9
<1>11. a = d /\ b = e
  BY <1>6, <1>10 DEF u, v
<1> QED BY <1>10, <1>11

\* The identity map is what the first two digits leave out.
LEMMA IdentityDigits ==
  ASSUME NEW va \in Virtual
  PROVE  /\ Low(va) < VMM_IDENTITY_MAP_SIZE <=> Pml4Index(va) = 0 /\ PdptIndex(va) = 0
         /\ Low(va) < VMM_IDENTITY_MAP_SIZE => Low(va) = PdIndex(va) * PAGE_SIZE + (va % PAGE_SIZE)
<1> DEFINE N == PAGE_ENTRIES
           P == PAGE_SIZE
           a == Pml4Index(va)
           b == PdptIndex(va)
           c == PdIndex(va)
           o == va % P
           w == a * N + b
           m == w * N + c
           low == Low(va)
<1>1. N \in Nat \ {0} /\ P \in Nat \ {0} /\ VMM_IDENTITY_MAP_SIZE = N * P
  BY VmmAssumption DEF VMM_IDENTITY_MAP_SIZE
<1>2. a \in Nat /\ b \in Nat /\ c \in Nat /\ c < N /\ o \in Nat /\ o < P /\ low = m * P + o
  BY <1>1, Digits DEF Index, Composed
<1> HIDE DEF N, P, a, b, c, o, low
<1>3. w \in Nat /\ (w = 0 <=> a = 0 /\ b = 0)
  <2>1. a * N \in Nat /\ (a * N = 0 <=> a = 0)
    BY <1>1, <1>2
  <2> QED BY <1>2, <2>1
<1> HIDE DEF w
<1>4. m \in Nat /\ (m < N <=> w = 0) /\ (w = 0 => m = c)
  <2>1. w * N \in Nat /\ (w # 0 => w * N >= N) /\ (w = 0 => w * N = 0)
    BY <1>1, <1>3
  <2> QED BY <1>1, <1>2, <2>1
<1> HIDE DEF m
<1>5. m * P \in Nat /\ N * P \in Nat
  BY <1>1, <1>4
<1>6. CASE m < N
  <2>1. m * P + P <= N * P
    BY <1>1, <1>4, <1>6, Times
  <2>2. low < N * P
    BY <1>1, <1>2, <1>5, <2>1
  <2> QED BY <1>1, <1>2, <1>3, <1>4, <1>6, <2>2 DEF a, b, c, o, P, low
<1>7. CASE ~(m < N)
  <2>1. N * P <= m * P
    <3>1. CASE m = N
      BY <1>5, <3>1
    <3>2. CASE N < m
      <4>1. N * P + P <= m * P
        BY <1>1, <1>4, <3>2, Times
      <4> QED BY <1>1, <1>5, <4>1
    <3> QED BY <1>1, <1>4, <1>7, <3>1, <3>2
  <2>2. ~(low < N * P)
    BY <1>1, <1>2, <1>5, <2>1
  <2> QED BY <1>1, <1>3, <1>4, <1>7, <2>2 DEF a, b, low
<1> QED BY <1>6, <1>7

\* What the CPU takes and the first two top entries lead to lies below 2^48.
LEMMA CanonicalIsLow ==
  ASSUME NEW va \in Virtual, Canonical(va), Pml4Index(va) \in {0, 1}
  PROVE  Low(va) = va
<1> DEFINE N == PAGE_ENTRIES
           P == PAGE_SIZE
           R == N * N * P
           h == N \div 2
           q == va \div SPAN
           a == Pml4Index(va)
           low == Low(va)
<1>1. N \in Nat /\ N >= 4 /\ P \in Nat \ {0} /\ va \in Nat
  BY VmmAssumption DEF Virtual
<1> HIDE DEF N, P
<1>2. h \in Nat /\ 2 <= h /\ h + h <= N
  BY <1>1
<1> HIDE DEF h
<1>3. R \in Nat \ {0}
  <2>1. N * N \in Nat \ {0}
    BY <1>1
  <2> QED BY <1>1, <2>1
<1>4. SPAN = N * R /\ HALF = h * R
  <2>1. PAGE_ENTRIES * PAGE_ENTRIES * PAGE_ENTRIES * PAGE_SIZE = N * R
    BY <1>1 DEF N, P
  <2>2. (PAGE_ENTRIES \div 2) * PAGE_ENTRIES * PAGE_ENTRIES * PAGE_SIZE = h * R
    BY <1>1, <1>2 DEF h, N, P
  <2> QED BY <2>1, <2>2 DEF SPAN, HALF
<1>5. low < R + R
  <2>1. PICK b, c, o : /\ b \in Nat /\ c \in Nat /\ o \in Nat /\ b + 1 <= N /\ c + 1 <= N /\ o + 1 <= P
                       /\ low = Composed(a, b, c, o)
    <3>1. PICK b, c, o : /\ b \in Index /\ c \in Index /\ o \in 0 .. PAGE_SIZE - 1
                         /\ low = Composed(a, b, c, o)
      BY Digits
    <3> QED BY <1>1, <3>1 DEF Index, N, P
  <2>2. a * R \in Nat /\ a * R <= R
    <3>1. a = 0 \/ a = 1
      OBVIOUS
    <3> QED BY <1>3, <3>1
  <2> HIDE DEF a
  <2>3. a \in Nat
    BY DEF a
  <2>4. b * N + c + 1 <= N * N
    <3>1. b * N + N <= N * N
      BY <1>1, <2>1, Times
    <3> QED BY <1>1, <2>1, <3>1
  <2>5. (b * N + c) * P + P <= N * N * P
    <3>1. b * N + c \in Nat /\ N * N \in Nat /\ b * N + c < N * N
      BY <1>1, <2>1, <2>4
    <3> QED BY <1>1, <3>1, Times
  <2>6. low = a * R + (b * N + c) * P + o
    <3>1. ((a * N + b) * N + c) * P = a * (N * N * P) + (b * N + c) * P
      BY <1>1, <2>1, <2>3
    <3> QED BY <2>1, <3>1 DEF Composed, N, P
  <2>7. (b * N + c) * P \in Nat
    <3>1. b * N \in Nat
      BY <1>1, <2>1
    <3>2. b * N + c \in Nat
      BY <2>1, <3>1
    <3>3. \A k \in Nat : k * P \in Nat
      BY <1>1
    <3> QED BY <3>2, <3>3
  <2>8. PICK top, rest : top = a * R /\ rest = (b * N + c) * P
    OBVIOUS
  <2>9. rest + P <= R
    BY <2>5, <2>8
  <2> HIDE DEF R
  <2> QED BY <1>1, <1>3, <2>1, <2>2, <2>6, <2>7, <2>8, <2>9
<1> HIDE DEF R, a
<1>6. R + R <= h * R /\ h * R + h * R <= N * R /\ h * R \in Nat /\ N * R \in Nat
  <2>1. 2 * R <= h * R
    <3>1. CASE h = 2
      BY <1>3, <3>1
    <3>2. CASE 2 < h
      <4>1. 2 * R + R <= h * R
        BY <1>2, <1>3, <3>2, Times
      <4> QED BY <1>2, <1>3, <4>1
    <3> QED BY <1>2, <3>1, <3>2
  <2>2. (h + h) * R <= N * R
    <3>1. CASE h + h = N
      BY <1>1, <1>3, <3>1
    <3>2. CASE h + h < N
      <4>1. (h + h) * R + R <= N * R
        BY <1>1, <1>2, <1>3, <3>2, Times
      <4> QED BY <1>1, <1>2, <1>3, <4>1
    <3> QED BY <1>1, <1>2, <3>1, <3>2
  <2>3. (h + h) * R = h * R + h * R /\ h * R \in Nat /\ N * R \in Nat
    BY <1>1, <1>2, <1>3
  <2> QED BY <1>3, <2>1, <2>2, <2>3
<1>7. SPAN \in Nat \ {0}
  BY <1>3, <1>4, <1>6
<1>8. q \in Nat /\ low \in Nat /\ low < SPAN /\ va = q * SPAN + low
  <2>1. q \in Nat /\ va % SPAN \in 0 .. SPAN - 1 /\ va = q * SPAN + (va % SPAN)
    BY <1>1, <1>7, DivMod
  <2> QED BY <1>7, <2>1 DEF Low
<1> HIDE DEF q, low
<1>9. CASE va < HALF
  <2>1. va < SPAN
    BY <1>1, <1>4, <1>6, <1>9
  <2>2. q = 0
    <3> SUFFICES ASSUME 0 < q PROVE FALSE
      BY <1>8
    <3>1. 0 * SPAN + SPAN <= q * SPAN
      BY <1>7, <1>8, Times
    <3>2. q * SPAN \in Nat
      BY <1>7, <1>8
    <3> QED BY <1>1, <1>7, <1>8, <2>1, <3>1, <3>2
  <2> QED BY <1>7, <1>8, <2>2 DEF low
<1>10. CASE va >= (SPANS * SPAN) - HALF
  <2>1. SPANS \in Nat /\ SPANS * SPAN \in Nat /\ va < SPANS * SPAN
    <3>1. SPANS \in Nat
      BY VmmAssumption
    <3>2. SPANS * SPAN \in Nat
      BY <1>7, <3>1
    <3> QED BY <3>1, <3>2 DEF Virtual
  <2>2. q < SPANS
    <3> SUFFICES ASSUME ~(q < SPANS) PROVE FALSE
      OBVIOUS
    <3>1. SPANS * SPAN <= q * SPAN
      <4>1. CASE q = SPANS
        BY <2>1, <4>1
      <4>2. CASE SPANS < q
        <5>1. SPANS * SPAN + SPAN <= q * SPAN
          BY <1>7, <1>8, <2>1, <4>2, Times
        <5>2. q * SPAN \in Nat
          BY <1>7, <1>8
        <5> QED BY <1>7, <2>1, <5>1, <5>2
      <4> QED BY <1>8, <2>1, <4>1, <4>2
    <3>2. q * SPAN \in Nat
      BY <1>7, <1>8
    <3> QED BY <1>1, <1>8, <2>1, <3>1, <3>2
  <2>3. q * SPAN + SPAN <= SPANS * SPAN /\ q * SPAN \in Nat
    BY <1>7, <1>8, <2>1, <2>2, Times
  <2>4. low >= SPAN - HALF
    BY <1>1, <1>4, <1>6, <1>7, <1>8, <1>10, <2>1, <2>3
  <2>5. SPAN - HALF >= R + R
    BY <1>3, <1>4, <1>6
  <2> QED BY <1>3, <1>4, <1>5, <1>6, <1>8, <2>4, <2>5
<1> QED BY <1>9, <1>10 DEF Canonical

\* An address of the identity map has nothing above its low bits.
LEMMA IdentityIsLow ==
  ASSUME NEW va \in Virtual, va < VMM_IDENTITY_MAP_SIZE
  PROVE  Low(va) = va /\ Canonical(va)
<1> DEFINE N == PAGE_ENTRIES
           P == PAGE_SIZE
           h == N \div 2
<1>1. N \in Nat /\ N >= 4 /\ P \in Nat \ {0} /\ va \in Nat /\ VMM_IDENTITY_MAP_SIZE = N * P
  BY VmmAssumption DEF Virtual, VMM_IDENTITY_MAP_SIZE
<1> HIDE DEF N, P
<1>2. h \in Nat /\ 1 <= h /\ h <= N
  BY <1>1
<1> HIDE DEF h
<1>3. N * P \in Nat /\ N * P >= 1
  BY <1>1
<1> DEFINE M == N * P
<1> HIDE DEF M
<1>4. M \in Nat \ {0} /\ va < M
  BY <1>1, <1>3 DEF M
<1>5. h * N \in Nat /\ h * N >= 1 /\ N * N \in Nat /\ N * N >= 1
  BY <1>1, <1>2
<1>6. ASSUME NEW k \in Nat, 1 <= k PROVE M <= k * M
  <2>1. CASE k = 1
    BY <1>4, <2>1
  <2>2. CASE 1 < k
    <3>1. 1 * M + M <= k * M
      BY <1>4, <2>2, Times
    <3>2. k * M \in Nat
      BY <1>4
    <3> QED BY <1>4, <3>1, <3>2
  <2> QED BY <1>6, <2>1, <2>2
<1>7. va < HALF
  <2>1. HALF = (h * N) * M
    BY <1>1, <1>2 DEF HALF, h, N, P, M
  <2>2. M <= (h * N) * M /\ (h * N) * M \in Nat
    BY <1>4, <1>5, <1>6
  <2> QED BY <1>1, <1>4, <2>1, <2>2
<1>8. va < SPAN /\ SPAN \in Nat \ {0}
  <2>1. SPAN = (N * N) * M
    BY <1>1 DEF SPAN, N, P, M
  <2>2. M <= (N * N) * M /\ (N * N) * M \in Nat
    BY <1>4, <1>5, <1>6
  <2> QED BY <1>1, <1>4, <2>1, <2>2
<1>9. va % SPAN = va
  <2>1. (0 * SPAN + va) % SPAN = va
    BY <1>1, <1>8, Quotient
  <2> QED BY <1>1, <1>8, <2>1
<1> QED BY <1>7, <1>9 DEF Low, Canonical

-----------------------------------------------------------------------------
\* The pages of the ring 3 window.
UserPage(i) == Composed(1, 0, i, 0)

\* From vmm_init on the kernel's tables are as it made them, and the user tables hold
\* just what was asked for.
MapInv ==
    IF stage = "vmm" THEN DOMAIN asked = {}
    ELSE /\ kernel_pml4 = [i \in Index |-> CASE i = 0 -> Table("kernel_pdpt", FALSE)
                                             [] i = 1 -> Table("user_pdpt", TRUE) [] OTHER -> Absent]
         /\ kernel_pdpt = [i \in Index |-> IF i = 0 THEN Table("kernel_pd", FALSE) ELSE Absent]
         /\ kernel_pd = [i \in Index |-> Huge(i * PAGE_SIZE, FALSE)]
         /\ DOMAIN user_pdpt = Index /\ DOMAIN user_pd = Index
         /\ \A i \in Index : i # 0 => user_pdpt[i] = Absent
         /\ user_pdpt[0] = IF DOMAIN asked = {} THEN Absent ELSE Table("user_pd", TRUE)
         /\ \A i \in Index :
              user_pd[i] = IF UserPage(i) \in DOMAIN asked THEN Huge(asked[UserPage(i)], TRUE) ELSE Absent
         /\ \A va \in DOMAIN asked : \E i \in Index : va = UserPage(i)

LEMMA SmallIndices == 0 \in Index /\ 1 \in Index
BY VmmAssumption DEF Index

\* What vmm_map_user_2m accepts is a page of the window.
LEMMA MappableIsUserPage ==
  ASSUME NEW va \in Virtual, NEW page, Mappable(va, page)
  PROVE  PdptIndex(va) = 0 /\ PdIndex(va) \in Index /\ Low(va) = UserPage(PdIndex(va))
BY Digits DEF Mappable, Aligned, UserPage

LEMMA MapKeeps ==
  ASSUME MapInv, stage # "vmm", stage' # "vmm", NEW va \in Virtual, NEW page, vmm_map_user_2m(va, page)
  PROVE  MapInv'
<1>1. PICK c \in Index, low \in {Low(va)} : PdIndex(va) = c /\ low = Low(va) /\ low = UserPage(c) /\ PdptIndex(va) = 0
  BY MappableIsUserPage DEF vmm_map_user_2m
<1>2. /\ user_pdpt' = [user_pdpt EXCEPT ![0] = IF @ = Absent THEN Table("user_pd", TRUE) ELSE @]
      /\ user_pd' = [user_pd EXCEPT ![c] = Huge(page, TRUE)]
      /\ asked' = [a \in DOMAIN asked \cup {low} |-> IF a = low THEN page ELSE asked[a]]
      /\ UNCHANGED <<kernel_pml4, kernel_pdpt, kernel_pd>>
  BY <1>1 DEF vmm_map_user_2m, Asked
<1>3. DOMAIN user_pdpt' = Index /\ DOMAIN user_pd' = Index
  BY <1>2 DEF MapInv
<1>4. DOMAIN asked' = DOMAIN asked \cup {low}
  BY <1>2
<1>5. user_pdpt'[0] = Table("user_pd", TRUE) /\ \A i \in Index : i # 0 => user_pdpt'[i] = Absent
  BY <1>2, SmallIndices DEF MapInv, Table, Absent
<1>6. ASSUME NEW i \in Index
      PROVE  user_pd'[i] = IF UserPage(i) \in DOMAIN asked' THEN Huge(asked'[UserPage(i)], TRUE) ELSE Absent
  <2>1. CASE i = c
    BY <1>1, <1>2, <2>1 DEF MapInv
  <2>2. CASE i # c
    <3>1. UserPage(i) # low
      BY <1>1, <2>2, SamePage, SmallIndices DEF UserPage
    <3>2. user_pd'[i] = user_pd[i]
      BY <1>2, <2>2 DEF MapInv
    <3> QED BY <1>2, <3>1, <3>2 DEF MapInv
  <2> QED BY <2>1, <2>2
<1>7. \A a \in DOMAIN asked' : \E i \in Index : a = UserPage(i)
  BY <1>1, <1>4 DEF MapInv
<1> QED BY <1>2, <1>3, <1>4, <1>5, <1>6, <1>7 DEF MapInv

\* userspace.c's two addresses are addresses.
LEMMA UserAddresses == USER_CODE_VADDR \in Virtual /\ USER_STACK_VADDR \in Virtual
<1> DEFINE N == PAGE_ENTRIES
           P == PAGE_SIZE
           S == N * N
           T == N * S * P
<1>1. N \in Nat /\ N >= 4 /\ P \in Nat \ {0} /\ SPANS \in Nat \ {0}
  BY VmmAssumption
<1> HIDE DEF N, P
<1>2. S \in Nat /\ S >= 2
  BY <1>1
<1> HIDE DEF S
<1>3. N * S >= S + 2
  <2>1. N * S = (N - 1) * S + S /\ (N - 1) * S >= S
    BY <1>1, <1>2
  <2> QED BY <1>1, <1>2, <2>1
<1>4. N * S \in Nat
  BY <1>1, <1>2
<1>5. (S + 1) * P + P <= (N * S) * P
  BY <1>1, <1>2, <1>3, <1>4, Times
<1>6. (S + 1) * P = S * P + P /\ S * P \in Nat /\ N * S * P \in Nat
  BY <1>1, <1>2, <1>4
<1>7. S * P \in 0 .. T - 1 /\ S * P + P \in 0 .. T - 1 /\ T \in Nat \ {0}
  BY <1>1, <1>5, <1>6
<1>8. SPAN = T
  BY <1>1 DEF SPAN, T, S, N, P
<1> HIDE DEF T
<1>9. T <= SPANS * T /\ SPANS * T \in Nat
  <2>1. CASE SPANS = 1
    BY <1>7, <2>1
  <2>2. CASE 1 < SPANS
    <3>1. 1 * T + T <= SPANS * T /\ SPANS * T \in Nat
      BY <1>1, <1>7, <2>2, Times
    <3> QED BY <1>7, <3>1
  <2> QED BY <1>1, <2>1, <2>2
<1>10. S * P \in 0 .. (SPANS * SPAN) - 1 /\ S * P + P \in 0 .. (SPANS * SPAN) - 1
  BY <1>7, <1>8, <1>9
<1> QED BY <1>10 DEF USER_CODE_VADDR, USER_STACK_VADDR, Virtual, S, N, P

LEMMA VmmStep == ASSUME MapInv, [VmmNext]_vmmVars PROVE MapInv'
<1>1. CASE vmm_init
  BY <1>1, SmallIndices DEF vmm_init, MapInv
<1>2. ASSUME UNCHANGED <<tables, asked>>, stage' = "vmm" <=> stage = "vmm" PROVE MapInv'
  BY <1>2 DEF MapInv, tables
<1>3. CASE SelfTest \/ userspace_run_demo \/ syscall_dispatch
  BY <1>2, <1>3 DEF SelfTest, userspace_run_demo, syscall_dispatch
<1>4. CASE userspace_init
  BY <1>4, MapKeeps, UserAddresses DEF userspace_init
<1>5. ASSUME NEW va \in Virtual, NEW page, MapPage(va, page) PROVE MapInv'
  BY <1>2, <1>5, MapKeeps DEF MapPage
<1>6. CASE UNCHANGED vmmVars
  BY <1>2, <1>6 DEF vmmVars
<1> QED BY <1>1, <1>3, <1>4, <1>5, <1>6 DEF VmmNext

\* The first address of a page.
LEMMA PageStart ==
  ASSUME NEW va \in Virtual
  PROVE  Low(va) - (va % PAGE_SIZE) = Composed(Pml4Index(va), PdptIndex(va), PdIndex(va), 0)
<1>1. va % PAGE_SIZE \in Nat
  BY Digits, VmmAssumption
<1>2. (Pml4Index(va) * PAGE_ENTRIES + PdptIndex(va)) * PAGE_ENTRIES + PdIndex(va) \in Nat
  BY Digits, VmmAssumption DEF Index
<1>3. ((Pml4Index(va) * PAGE_ENTRIES + PdptIndex(va)) * PAGE_ENTRIES + PdIndex(va)) * PAGE_SIZE \in Nat
  BY <1>2, VmmAssumption
<1> QED BY <1>1, <1>3, Digits DEF Composed

\* Where the entries lead, one kind of entry at a time.
LEMMA Leads ==
  ASSUME NEW i
  PROVE  /\ Behind(Table("kernel_pdpt", FALSE), i) = kernel_pdpt[i]
         /\ Behind(Table("user_pdpt", TRUE), i) = user_pdpt[i]
         /\ Behind(Table("kernel_pd", FALSE), i) = kernel_pd[i]
         /\ Behind(Table("user_pd", TRUE), i) = user_pd[i]
         /\ Behind(Absent, i) = Absent
BY DEF Behind, Table, Absent

\* A walk that meets an empty entry at any level finds no page.
LEMMA WalkFails ==
  ASSUME NEW va,
         \/ kernel_pml4[Pml4Index(va)] = Absent
         \/ Behind(kernel_pml4[Pml4Index(va)], PdptIndex(va)) = Absent
         \/ Behind(Behind(kernel_pml4[Pml4Index(va)], PdptIndex(va)), PdIndex(va)) = Absent
  PROVE  ~Walk(va).seen
<1>1. Behind(Behind(kernel_pml4[Pml4Index(va)], PdptIndex(va)), PdIndex(va)) = Absent
  BY Leads
<1>2. Absent.to # "page"
  BY DEF Absent
<1> QED BY <1>1, <1>2 DEF Walk

\* The walk of an address the CPU takes finds the page that the last of three entries
\* names.
LEMMA WalkSucceeds ==
  ASSUME NEW va, Canonical(va), NEW one, NEW two, NEW u \in BOOLEAN, NEW page,
         kernel_pml4[Pml4Index(va)] = Table(one, u),
         Behind(Table(one, u), PdptIndex(va)) = Table(two, u),
         Behind(Table(two, u), PdIndex(va)) = Huge(page, u)
  PROVE  Walk(va) = [seen |-> TRUE, at |-> page + (va % PAGE_SIZE), user |-> u]
<1>1. Table(one, u).user = u /\ Table(two, u).user = u
  BY DEF Table
<1>2. Huge(page, u).user = u /\ Huge(page, u).page = page /\ Huge(page, u).to = "page"
  BY DEF Huge
<1>3. Walk(va) = [seen |-> Huge(page, u).to = "page" /\ Canonical(va), at |-> Huge(page, u).page + (va % PAGE_SIZE),
                  user |-> Table(one, u).user /\ Table(two, u).user /\ Huge(page, u).user]
  BY Zenon DEF Walk
<1> QED BY <1>1, <1>2, <1>3

LEMMA WalkRight ==
  ASSUME MapInv, stage # "vmm", NEW va \in Virtual
  PROVE  LET start == Low(va) - (va % PAGE_SIZE) IN
         /\ va < VMM_IDENTITY_MAP_SIZE =>
              Walk(va) = [seen |-> TRUE, at |-> va, user |-> FALSE] /\ vmm_translate_identity(va) = va
         /\ va >= VMM_IDENTITY_MAP_SIZE =>
              /\ vmm_translate_identity(va) = 0
              /\ IF Canonical(va) /\ start \in DOMAIN asked
                 THEN Walk(va) = [seen |-> TRUE, at |-> asked[start] + (va % PAGE_SIZE), user |-> TRUE]
                 ELSE ~Walk(va).seen
<1> DEFINE a == Pml4Index(va)
           b == PdptIndex(va)
           c == PdIndex(va)
           start == Low(va) - (va % PAGE_SIZE)
<1>1. a \in Index /\ b \in Index /\ c \in Index
  BY Digits
<1>2. start = Composed(a, b, c, 0)
  BY PageStart
<1>3. ASSUME start \in DOMAIN asked PROVE a = 1 /\ b = 0 /\ start = UserPage(c)
  <2>1. PICK i \in Index : start = Composed(1, 0, i, 0)
    BY <1>3 DEF MapInv, UserPage
  <2>2. a = 1 /\ b = 0 /\ c = i
    BY <1>1, <1>2, <2>1, SmallIndices, SamePage
  <2> QED BY <2>1, <2>2 DEF UserPage
<1>4. va \in Nat /\ VMM_IDENTITY_MAP_SIZE \in Nat
  BY VmmAssumption DEF Virtual, VMM_IDENTITY_MAP_SIZE
<1> HIDE DEF a, b, c, start
<1>5. CASE va < VMM_IDENTITY_MAP_SIZE
  <2>1. a = 0 /\ b = 0 /\ va = c * PAGE_SIZE + (va % PAGE_SIZE)
    BY <1>5, IdentityDigits, IdentityIsLow DEF a, b, c
  <2>2. /\ kernel_pml4[a] = Table("kernel_pdpt", FALSE) /\ kernel_pdpt[b] = Table("kernel_pd", FALSE)
        /\ kernel_pd[c] = Huge(c * PAGE_SIZE, FALSE)
    BY <1>1, <2>1 DEF MapInv
  <2>3. Walk(va) = [seen |-> TRUE, at |-> va, user |-> FALSE]
    <3>1. Canonical(va)
      BY <1>5, IdentityIsLow
    <3> QED BY <2>1, <2>2, <3>1, Leads, WalkSucceeds DEF a, b, c
  <2>4. vmm_translate_identity(va) = va
    BY <1>4, <1>5, <2>1, <2>2 DEF vmm_translate_identity, Huge, c
  <2> QED BY <1>4, <1>5, <2>3, <2>4
<1>6. CASE ~(va < VMM_IDENTITY_MAP_SIZE)
  <2>t. vmm_translate_identity(va) = 0
    BY <1>4, <1>6 DEF vmm_translate_identity
  <2>1. CASE ~Canonical(va)
    <3>1. ~Walk(va).seen
      BY <2>1 DEF Walk
    <3> QED BY <1>6, <2>t, <2>1, <3>1 DEF start
  <2>2. CASE a = 0 /\ Canonical(va)
    <3>0. b # 0
      BY <1>6, <2>2, CanonicalIsLow, IdentityDigits DEF a, b
    <3>1. /\ kernel_pml4[a] = Table("kernel_pdpt", FALSE) /\ kernel_pdpt[b] = Absent
          /\ start \notin DOMAIN asked
      BY <1>1, <1>3, <2>2, <3>0 DEF MapInv
    <3>2. ~Walk(va).seen
      BY <3>1, Leads, WalkFails DEF a, b
    <3> QED BY <1>6, <2>t, <3>1, <3>2 DEF start
  <2>3. CASE a = 1 /\ b # 0
    <3>1. kernel_pml4[a] = Table("user_pdpt", TRUE) /\ user_pdpt[b] = Absent /\ start \notin DOMAIN asked
      <4>1. kernel_pml4[a] = Table("user_pdpt", TRUE)
        <5>1. kernel_pml4[1] = Table("user_pdpt", TRUE)
          BY SmallIndices DEF MapInv
        <5> QED BY <2>3, <5>1
      <4>2. user_pdpt[b] = Absent
        BY <1>1, <2>3 DEF MapInv
      <4> QED BY <1>3, <2>3, <4>1, <4>2
    <3>2. ~Walk(va).seen
      BY <3>1, Leads, WalkFails DEF a, b
    <3> QED BY <1>6, <2>t, <3>1, <3>2 DEF start
  <2>4. CASE a \notin {0, 1}
    <3>1. kernel_pml4[a] = Absent /\ start \notin DOMAIN asked
      BY <1>1, <1>3, <2>4 DEF MapInv
    <3>2. ~Walk(va).seen
      BY <3>1, WalkFails DEF a
    <3> QED BY <1>6, <2>t, <3>1, <3>2 DEF start
  <2>5. CASE a = 1 /\ b = 0 /\ Canonical(va)
    <3>1. kernel_pml4[a] = Table("user_pdpt", TRUE) /\ start = UserPage(c)
      BY <1>1, <1>2, <2>5 DEF MapInv, UserPage
    <3>2. CASE start \in DOMAIN asked
      <4>1. user_pdpt[b] = Table("user_pd", TRUE) /\ user_pd[c] = Huge(asked[start], TRUE)
        BY <1>1, <2>5, <3>1, <3>2 DEF MapInv
      <4>2. Walk(va) = [seen |-> TRUE, at |-> asked[start] + (va % PAGE_SIZE), user |-> TRUE]
        BY <2>5, <3>1, <4>1, Leads, WalkSucceeds DEF a, b, c
      <4> QED BY <1>6, <2>t, <2>5, <3>2, <4>2 DEF start
    <3>3. CASE start \notin DOMAIN asked
      <4>1. user_pdpt[b] \in {Absent, Table("user_pd", TRUE)} /\ user_pd[c] = Absent
        BY <1>1, <2>5, <3>1, <3>3 DEF MapInv
      <4>2. ~Walk(va).seen
        BY <3>1, <4>1, Leads, WalkFails DEF a, b, c
      <4> QED BY <1>6, <2>t, <3>3, <4>2 DEF start
    <3> QED BY <3>2, <3>3
  <2> QED BY <2>1, <2>2, <2>3, <2>4, <2>5
<1> QED BY <1>5, <1>6

\* vmm.c, for tables and pages of any size: through any sequence of mappings the walk of
\* the CPU finds the page last asked for at an address, open to ring 3, and nothing else
\* is; the kernel's first addresses stay mapped to themselves.
THEOREM WalkIsRight == VmmSpec => []WalkFindsWhatWasAsked
<1>1. VmmInit => MapInv
  BY DEF VmmInit, MapInv
<1>2. MapInv => WalkFindsWhatWasAsked
  BY WalkRight DEF WalkFindsWhatWasAsked
<1> QED BY <1>1, <1>2, VmmStep, PTL DEF VmmSpec

------------------------------------------------------------------------------
(* Interrupts and the disk self-test.                                        *)

\* The lines whose handlers kmain installs; line 2 is not one of them, so no line of
\* the slave is ever delivered.
Installed == {KEYBOARD_IRQ, MOUSE_IRQ, TIMER_IRQ}

PicInv ==
    /\ iflag \in BOOLEAN
    /\ handlers \subseteq Installed
    /\ boot \in {"pic", "idt"} => handlers = {}
    /\ boot # "pic" => imr = Irqs \ handlers
    /\ (iflag \/ cpu # Main) => boot = "done"
    /\ iflag => cpu = Main
    /\ cpu = Main => isr = {}
    /\ cpu # Main => cpu \in Master /\ isr = {cpu} /\ cpu \in handlers

LEMMA BootKeeps == ASSUME PicInv, Boot PROVE PicInv'
<1>1. boot # "done" /\ ~iflag /\ cpu = Main /\ isr = {}
    BY DEF PicInv, Boot, pic_init, idt_init, keyboard_init, mouse_init, timer_init, Sti
<1>2. CASE pic_init
    <2>1. handlers = {} /\ UNCHANGED <<handlers, iflag, cpu>> /\ imr' = Irqs /\ isr' = {} /\ boot' = "idt"
        BY <1>2 DEF PicInv, pic_init
    <2>2. imr' = Irqs \ handlers'
        BY <2>1
    <2> QED BY <1>1, <2>1, <2>2 DEF PicInv
<1>3. CASE idt_init
    BY <1>1, <1>3 DEF PicInv, idt_init, pics
<1>4. CASE keyboard_init
    BY <1>1, <1>4 DEF PicInv, keyboard_init, Install, pic_unmask_irq, Installed
<1>5. CASE mouse_init
    BY <1>1, <1>5 DEF PicInv, mouse_init, Install, pic_unmask_irq, Installed
<1>6. CASE timer_init
    BY <1>1, <1>6 DEF PicInv, timer_init, Install, pic_unmask_irq, Installed
<1>7. CASE Sti
    BY <1>1, <1>7 DEF PicInv, Sti, pics
<1> QED BY <1>2, <1>3, <1>4, <1>5, <1>6, <1>7 DEF Boot

\* A line that is delivered has a handler and belongs to the master.
LEMMA OnlyMasterDelivered ==
    ASSUME PicInv, boot = "done", NEW i \in Irqs, Deliverable(i)
    PROVE  i \in handlers \cap Master
<1>1. imr = Irqs \ handlers /\ handlers \subseteq Installed
    BY DEF PicInv
<1>2. CASCADE \in imr
    BY <1>1 DEF Irqs, Installed, CASCADE, KEYBOARD_IRQ, MOUSE_IRQ, TIMER_IRQ
<1>3. i \notin Slave /\ i \notin imr
    BY <1>2 DEF Deliverable, Asks
<1> QED BY <1>1, <1>3 DEF Irqs, Master, Slave

LEMMA AcceptKeeps == ASSUME PicInv, Accept PROVE PicInv'
<1>1. PICK i \in Irqs :
        /\ Deliverable(i)
        /\ isr' = isr \cup {i} \cup (IF i \in Slave THEN {CASCADE} ELSE {})
        /\ cpu' = i
    BY DEF Accept
<1>2. iflag /\ iflag' = FALSE /\ UNCHANGED <<imr, handlers, boot>>
    BY DEF Accept
<1>3. boot = "done" /\ isr = {}
    BY <1>2 DEF PicInv
<1>4. i \in handlers /\ i \in Master
    BY <1>1, <1>3, OnlyMasterDelivered
<1>5. i \notin Slave
    BY <1>4 DEF Master, Slave
<1>6. i # Main /\ isr' = {i}
    BY <1>1, <1>3, <1>5, IrqAssumption
<1> QED BY <1>1, <1>2, <1>3, <1>4, <1>6 DEF PicInv

LEMMA DispatchKeeps == ASSUME PicInv, idt_dispatch PROVE PicInv'
<1>1. cpu \in Master /\ isr = {cpu} /\ cpu \in handlers /\ boot = "done"
    BY DEF PicInv, idt_dispatch
<1>2. EOI(Master) = {cpu}
    <2>1. cpu <= cpu
        BY <1>1 DEF Master
    <2>2. isr \cap Master = {cpu}
        BY <1>1
    <2> QED BY <2>1, <2>2 DEF EOI, Highest
<1>3. isr' = {}
    BY <1>1, <1>2 DEF idt_dispatch, pic_send_eoi
<1> QED BY <1>1, <1>3 DEF PicInv, idt_dispatch

\* Outside a handler no line is in service, for any set of devices: each handler that
\* runs was registered before its line was unmasked, so idt_dispatch sends its EOI.
THEOREM ServiceEnds == IrqSpec => []NothingLeftInService
<1>1. IrqInit => PicInv
    BY DEF IrqInit, PicInv
<1>2. PicInv /\ [IrqNext]_irqVars => PicInv'
    <2>1. ASSUME PicInv, UNCHANGED irqVars PROVE PicInv'
        BY <2>1 DEF PicInv, irqVars
    <2>2. ASSUME PicInv, NEW i \in Lines, Raise(i) PROVE PicInv'
        BY <2>2 DEF PicInv, Raise
    <2> QED BY <2>1, <2>2, BootKeeps, AcceptKeeps, DispatchKeeps DEF IrqNext
<1>3. PicInv => NothingLeftInService
    BY DEF PicInv, NothingLeftInService
<1> QED BY <1>1, <1>2, <1>3, PTL DEF IrqSpec

-----------------------------------------------------------------------------

\* Between the read and the restoring write the saved copy is what the sector held.
CopyInv ==
    /\ test_step # "none" => ScratchLba < TotalSectors
    /\ test_step = "read" => scratch = before
    /\ test_step \in {"pattern", "verify", "restore", "undo"} => original = before
    /\ PassedLeavesNoTrace

\* A write within the medium that is reported as done was done.
LEMMA WrittenIsStored ==
    ASSUME "lost" \notin Faults, ScratchLba < TotalSectors, NEW o \in ata_write_sectors(ScratchLba), o.ok
    PROVE  o.stored
<1>1. ~(ScratchLba >= TotalSectors) /\ ~MayFail("lost")
    BY AtaAssumption, SelfTestAssumption DEF MayFail
<1>2. ~Refused.ok /\ ~Rejected(TRUE).ok /\ ~TimedOut.ok /\ Done.stored
    BY DEF Refused, Rejected, TimedOut, Done
<1>3. \A f \in BOOLEAN : \A e \in FlushFailed(f) : ~e.ok
    BY DEF FlushFailed
<1>4. CASE ~Ready
    BY <1>2, <1>4 DEF ata_write_sectors
<1>5. CASE Ready
    BY <1>1, <1>2, <1>3, <1>5 DEF ata_write_sectors
<1> QED BY <1>4, <1>5

LEMMA CopyStep == ASSUME "lost" \notin Faults, CopyInv, [DiskTestNext]_diskTestVars PROVE CopyInv'
<1>1. CASE UNCHANGED diskTestVars
    BY <1>1 DEF CopyInv, PassedLeavesNoTrace, diskTestVars, locals
<1>2. CASE Begin
    BY <1>2, AtaAssumption, SelfTestAssumption DEF CopyInv, PassedLeavesNoTrace, Begin, Finish
<1>3. CASE Read
    BY <1>3 DEF CopyInv, PassedLeavesNoTrace, Read, Finish
<1>4. CASE WritePattern
    BY <1>4 DEF CopyInv, PassedLeavesNoTrace, WritePattern, Finish, locals
<1>5. CASE Verify
    BY <1>5 DEF CopyInv, PassedLeavesNoTrace, Verify
<1>6. CASE Undo
    BY <1>6 DEF CopyInv, PassedLeavesNoTrace, Undo, Finish, locals
<1>7. CASE Restore
    <2>1. PICK o \in ata_write_sectors(ScratchLba) :
            Put(o, original) /\ Finish(IF o.ok THEN "passed" ELSE "failed")
        BY <1>7 DEF Restore
    <2>2. original = before /\ before' = before
        BY <1>7 DEF CopyInv, Restore
    <2>3. CASE o.ok
        BY <2>1, <2>2, <2>3, <1>7, WrittenIsStored DEF CopyInv, PassedLeavesNoTrace, Put, Finish, Restore
    <2>4. CASE ~o.ok
        BY <2>1, <2>4 DEF CopyInv, PassedLeavesNoTrace, Finish
    <2> QED BY <2>3, <2>4
<1>8. CASE Reboot
    BY <1>8 DEF CopyInv, PassedLeavesNoTrace, Reboot
<1> QED BY <1>1, <1>2, <1>3, <1>4, <1>5, <1>6, <1>7, <1>8 DEF DiskTestNext

\* A disk test that passes leaves the sector as it was, whatever the drive did to
\* earlier tests, for every drive that reports a lost write as an error.
THEOREM SelfTestRestores ==
    ASSUME "lost" \notin Faults PROVE DiskTestSpec => []PassedLeavesNoTrace
<1>1. DiskTestInit => CopyInv
    BY DEF DiskTestInit, CopyInv, PassedLeavesNoTrace
<1>2. CopyInv /\ [DiskTestNext]_diskTestVars => CopyInv'
    BY CopyStep
<1>3. CopyInv => PassedLeavesNoTrace
    BY DEF CopyInv
<1> QED BY <1>1, <1>2, <1>3, PTL DEF DiskTestSpec

------------------------------------------------------------------------------
(* The mouse.                                                                *)

MouseTyped ==
    /\ mouse_index \in 0 .. 2 /\ mouse_packet \in [1 .. 3 -> Int]
    /\ x \in Int /\ y \in Int /\ packet_count \in Nat
    /\ trail \in Seq(Int \X Int)
    /\ copying \in 0 .. 2
    /\ shown \in [ready : {0, 1}, at : Int \X Int, count : Nat]
    /\ packet_ready \in {0, 1}

\* The position is where the trail ends, one place for each packet after the first.
TrailEnds ==
    /\ Len(trail) = packet_count + 1 /\ trail[Len(trail)] = <<x, y>>
    /\ packet_ready = 1 => packet_count >= 1

\* The position copied was reached by the first `limit` packets.
ReachedBy(limit) == \E n \in 0 .. limit : shown.at = trail[n + 1] /\ (shown.ready = 1 => n >= 1)

\* What is copied so far agrees with the packets so far, until the count is copied.
CopyInOrder ==
    /\ shown.count <= packet_count
    /\ copying = 0 => ReachedBy(shown.count)
    /\ copying = 1 => (shown.ready = 1 => packet_count >= 1)
    /\ copying = 2 => ReachedBy(packet_count)

MouseInv == MouseTyped /\ TrailEnds /\ CopyInOrder

\* A trail only grows.
LEMMA HandlerKeeps ==
  ASSUME MouseInv, NEW byte \in Int, mouse_interrupt_handler(byte), UNCHANGED <<copying, shown>>
  PROVE  MouseInv'
<1>1. CASE UNCHANGED <<mouse_index, mouse_packet, mouseState>>
  BY <1>1 DEF MouseInv, MouseTyped, TrailEnds, CopyInOrder, ReachedBy, mouseState
<1>2. CASE /\ mouse_packet' = [mouse_packet EXCEPT ![mouse_index + 1] = byte]
           /\ mouse_index' = (mouse_index + 1) % 3
  <2>1. mouse_packet' \in [1 .. 3 -> Int] /\ mouse_index' \in 0 .. 2
    BY <1>2 DEF MouseInv, MouseTyped
  <2>2. CASE UNCHANGED mouseState
    BY <2>1, <2>2 DEF MouseInv, MouseTyped, TrailEnds, CopyInOrder, ReachedBy, mouseState
  <2>3. CASE /\ x' = x + mouse_packet[2] /\ y' = y - byte
             /\ packet_count' = packet_count + 1 /\ packet_ready' = 1
             /\ trail' = Append(trail, <<x', y'>>)
    <3>1. x' \in Int /\ y' \in Int
      BY <2>3 DEF MouseInv, MouseTyped
    <3>2. /\ trail' \in Seq(Int \X Int) /\ Len(trail') = Len(trail) + 1
          /\ trail'[Len(trail')] = <<x', y'>>
          /\ \A n \in 1 .. Len(trail) : trail'[n] = trail[n]
      <4>1. PICK place \in Int \X Int : place = <<x', y'>>
        BY <3>1
      <4> QED BY <2>3, <4>1 DEF MouseInv, MouseTyped
    <3>3. packet_count' = packet_count + 1 /\ packet_ready' = 1 /\ UNCHANGED <<copying, shown>>
      BY <2>3
    <3>4. Len(trail) = packet_count + 1 /\ packet_count \in Nat
      BY DEF MouseInv, MouseTyped, TrailEnds
    <3>5. MouseTyped' /\ TrailEnds'
      <4>1. MouseTyped'
        BY <2>1, <3>1, <3>2, <3>3, <3>4 DEF MouseInv, MouseTyped
      <4> QED BY <3>2, <3>3, <3>4, <4>1 DEF TrailEnds
    <3>6. ASSUME NEW limit \in Nat, limit <= packet_count, ReachedBy(limit) PROVE ReachedBy(limit)'
      <4>1. PICK n \in 0 .. limit : shown.at = trail[n + 1] /\ (shown.ready = 1 => n >= 1)
        BY <3>6 DEF ReachedBy
      <4>2. trail'[n + 1] = trail[n + 1]
        BY <3>2, <3>6, <3>4
      <4> QED BY <3>3, <4>1, <4>2 DEF ReachedBy
    <3>7. ReachedBy(packet_count) => ReachedBy(packet_count)'
      <4>1. PICK k \in Nat : k = packet_count
        BY DEF MouseInv, MouseTyped
      <4>2. ReachedBy(k) => ReachedBy(k)'
        BY <3>6, <4>1
      <4>3. ReachedBy(k)' => ReachedBy(packet_count)'
        <5>1. packet_count' = k + 1
          BY <3>3, <4>1
        <5> QED BY <5>1 DEF ReachedBy
      <4> QED BY <4>1, <4>2, <4>3
    <3>8. ReachedBy(shown.count) => ReachedBy(shown.count)'
      <4>1. PICK k \in Nat : k = shown.count
        BY DEF MouseInv, MouseTyped
      <4>2. ReachedBy(k) => ReachedBy(k)'
        BY <3>6, <4>1 DEF MouseInv, CopyInOrder
      <4> QED BY <4>1, <4>2
    <3>9. CopyInOrder'
      <4>1. shown.count <= packet_count /\ packet_count' = packet_count + 1
            /\ packet_count \in Nat /\ shown.count \in Nat
        BY <3>3 DEF MouseInv, MouseTyped, CopyInOrder
      <4>2. shown'.count <= packet_count' /\ (packet_count >= 1 => packet_count' >= 1)
        BY <3>4, <4>1
      <4> QED BY <3>7, <3>8, <3>4, <4>2 DEF MouseInv, CopyInOrder
    <3> QED BY <3>5, <3>9 DEF MouseInv
  <2> QED BY <1>2, <2>2, <2>3 DEF mouse_interrupt_handler
<1> QED BY <1>1, <1>2 DEF mouse_interrupt_handler

LEMMA CopyKeeps == ASSUME MouseInv, mouse_get_state PROVE MouseInv'
<1>1. /\ copying' = (copying + 1) % 3 /\ copying \in 0 .. 2
      /\ UNCHANGED <<mouse_index, mouse_packet, x, y, packet_count, packet_ready, trail>>
  BY DEF mouse_get_state, mouseState, MouseInv, MouseTyped
<1>2. /\ shown.ready \in {0, 1} /\ shown.at \in Int \X Int /\ shown.count \in Nat
      /\ shown = [ready |-> shown.ready, at |-> shown.at, count |-> shown.count]
      /\ x \in Int /\ y \in Int /\ packet_count \in Nat /\ packet_ready \in {0, 1}
  BY DEF MouseInv, MouseTyped
<1>3. TrailEnds'
  BY <1>1 DEF MouseInv, TrailEnds
<1>4. CASE copying = 0
  <2>1. shown' = [ready |-> packet_ready, at |-> shown.at, count |-> shown.count] /\ copying' = 1
    BY <1>1, <1>2, <1>4 DEF mouse_get_state
  <2>2. MouseTyped'
    BY <1>1, <1>2, <2>1 DEF MouseInv, MouseTyped
  <2> QED BY <1>1, <1>2, <1>3, <2>1, <2>2 DEF MouseInv, TrailEnds, CopyInOrder
<1>5. CASE copying = 1
  <2>1. shown' = [ready |-> shown.ready, at |-> <<x, y>>, count |-> shown.count] /\ copying' = 2
    BY <1>1, <1>2, <1>5 DEF mouse_get_state
  <2>2. MouseTyped'
    BY <1>1, <1>2, <2>1 DEF MouseInv, MouseTyped
  <2>3. <<x, y>> = trail[packet_count + 1] /\ (shown.ready = 1 => packet_count >= 1)
    BY <1>5 DEF MouseInv, TrailEnds, CopyInOrder
  <2>4. ReachedBy(packet_count)'
    <3>1. packet_count \in 0 .. packet_count
      BY <1>2
    <3> QED BY <1>1, <2>1, <2>3, <3>1 DEF ReachedBy
  <2> QED BY <1>1, <1>2, <1>3, <2>1, <2>2, <2>4 DEF MouseInv, CopyInOrder
<1>6. CASE copying = 2
  <2>1. shown' = [ready |-> shown.ready, at |-> shown.at, count |-> packet_count] /\ copying' = 0
    BY <1>1, <1>2, <1>6 DEF mouse_get_state
  <2>2. MouseTyped'
    BY <1>1, <1>2, <2>1 DEF MouseInv, MouseTyped
  <2>3. ReachedBy(shown.count)'
    BY <1>1, <1>6, <2>1 DEF ReachedBy, MouseInv, CopyInOrder
  <2> QED BY <1>1, <1>2, <1>3, <2>1, <2>2, <2>3 DEF MouseInv, CopyInOrder
<1> QED BY <1>1, <1>4, <1>5, <1>6

LEMMA MouseStep == ASSUME MouseInv, [MouseNext]_mouseVars PROVE MouseInv'
<1>1. CASE MouseByte
  <2>1. PICK byte \in Int : mouse_interrupt_handler(byte)
    BY <1>1, MouseAssumption DEF MouseByte, Ack, First
  <2> QED BY <1>1, <2>1, HandlerKeeps DEF MouseByte
<1>2. CASE UNCHANGED mouseVars
  BY <1>2 DEF MouseInv, MouseTyped, TrailEnds, CopyInOrder, ReachedBy, mouseVars, mouseState
<1> QED BY <1>1, <1>2, CopyKeeps DEF MouseNext

\* shell.c's `mouse`: the position shown is one the mouse was at, and neither the count
\* nor the flag beside it says otherwise, wherever in the copy packets arrive.
THEOREM ShownWasReached == MouseSpec => []ShownIsOnTrail
<1>1. MouseInit => MouseInv
  BY DEF MouseInit, MouseInv, MouseTyped, TrailEnds, CopyInOrder, ReachedBy
<1>2. MouseInv => ShownIsOnTrail
  BY DEF MouseInv, CopyInOrder, ReachedBy, ShownIsOnTrail
<1> QED BY <1>1, <1>2, MouseStep, PTL DEF MouseSpec

------------------------------------------------------------------------------
(* The console.                                                              *)

\* The cursor may be off the screen in the middle of a character, and a backspace the
\* handler came into the middle of leaves it before the first column, but of a later
\* row. Once the handler has printed its first letter, a key of its own cannot take
\* back what the thread saw of the column.
ConsoleInv ==
    /\ vga_cursor_row \in 0 .. VGA_ROWS /\ (vga_cursor_row = VGA_ROWS => step \in {"check", "scroll"})
    /\ vga_cursor_col \in -1 .. VGA_COLS /\ (vga_cursor_col = VGA_COLS => step \in {"wrap", "newline"})
    /\ echo \in 0 .. EchoPrefix + 1
    /\ vga_cursor_col = -1 => vga_cursor_row >= 1 \/ step = "clearCol"
    /\ step = "storeCol" => loaded \in -1 .. VGA_COLS - 1
    /\ step = "storeRow" => loaded \in 0 .. VGA_ROWS - 1
    /\ step = "loadBack" =>
         /\ vga_cursor_col >= 0
         /\ vga_cursor_row >= 1 \/ vga_cursor_col >= IF echo \in 1 .. EchoPrefix THEN 2 ELSE 1
    /\ step = "storeBack" =>
         loaded \in 0 .. VGA_COLS - 1 /\ (loaded = 0 => vga_cursor_row >= 1)

LEMMA ConsoleKeyStep == ASSUME ConsoleInv, KeyArrives PROVE ConsoleInv'
BY ConsoleAssumption DEF ConsoleInv, KeyArrives, cursor

LEMMA ConsoleEchoStep == ASSUME ConsoleInv, EchoKey PROVE ConsoleInv'
<1> USE ConsoleAssumption
<1>1. /\ echo \in 1 .. EchoPrefix + 1 /\ echo' = echo - 1 /\ step' = step /\ loaded' = loaded
  BY DEF EchoKey, ConsoleInv
<1>2. CASE PutWhole("letter")
  <2>1. CASE vga_cursor_col + 1 >= VGA_COLS
    <3>1. vga_cursor_col' = 0 /\ vga_cursor_row' = Scrolled(vga_cursor_row + 1)
      BY <1>2, <2>1 DEF PutWhole
    <3>2. vga_cursor_row' \in 1 .. VGA_ROWS - 1
      BY <3>1 DEF Scrolled, ConsoleInv
    <3> QED BY <1>1, <3>1, <3>2 DEF ConsoleInv
  <2>2. CASE ~(vga_cursor_col + 1 >= VGA_COLS)
    <3>1. vga_cursor_col' = vga_cursor_col + 1 /\ vga_cursor_row' = Scrolled(vga_cursor_row)
      BY <1>2, <2>2 DEF PutWhole
    <3>2. vga_cursor_row' \in 0 .. VGA_ROWS - 1 /\ (vga_cursor_row >= 1 => vga_cursor_row' >= 1)
      BY <3>1 DEF Scrolled, ConsoleInv
    <3> QED BY <1>1, <2>2, <3>1, <3>2 DEF ConsoleInv
  <2> QED BY <2>1, <2>2
<1>3. CASE PutWhole("newline")
  <2>1. vga_cursor_col' = 0 /\ vga_cursor_row' = Scrolled(vga_cursor_row + 1)
    BY <1>3 DEF PutWhole
  <2>2. vga_cursor_row' \in 1 .. VGA_ROWS - 1
    BY <2>1 DEF Scrolled, ConsoleInv
  <2> QED BY <1>1, <2>1, <2>2 DEF ConsoleInv
<1>4. CASE PutWhole("backspace") /\ echo = 1
  <2>1. vga_cursor_col' = (IF vga_cursor_col > 0 THEN vga_cursor_col - 1 ELSE vga_cursor_col)
        /\ vga_cursor_row' = Scrolled(vga_cursor_row)
    BY <1>4 DEF PutWhole
  <2>2. vga_cursor_row' \in 0 .. VGA_ROWS - 1 /\ (vga_cursor_row >= 1 => vga_cursor_row' >= 1)
    BY <2>1 DEF Scrolled, ConsoleInv
  <2> QED BY <1>1, <1>4, <2>1, <2>2 DEF ConsoleInv
<1> QED BY <1>1, <1>2, <1>3, <1>4 DEF EchoKey

LEMMA ConsoleThreadStep ==
  ASSUME ConsoleInv,
         kputchar \/ PutLetter \/ PutNewline \/ PutReturn \/ PutBackspace \/ vga_scroll \/ vga_clear
  PROVE  ConsoleInv'
<1> USE ConsoleAssumption
<1>1. CASE kputchar
  BY <1>1 DEF kputchar, Go, cursor, ConsoleInv
<1>2. CASE PutLetter
  BY <1>2 DEF PutLetter, Go, SetCol, cursor, ConsoleInv
<1>3. CASE PutNewline
  BY <1>3 DEF PutNewline, Go, SetCol, SetRow, cursor, ConsoleInv
<1>4. CASE PutReturn
  BY <1>4 DEF PutReturn, Go, SetCol, ConsoleInv
<1>5. CASE PutBackspace
  BY <1>5 DEF PutBackspace, Go, SetCol, cursor, ConsoleInv
<1>6. CASE vga_scroll
  BY <1>6 DEF vga_scroll, Go, SetRow, cursor, ConsoleInv
<1>7. CASE vga_clear
  BY <1>7 DEF vga_clear, Go, SetCol, SetRow, ConsoleInv
<1> QED BY <1>1, <1>2, <1>3, <1>4, <1>5, <1>6, <1>7

LEMMA ConsoleStep == ASSUME ConsoleInv, [ConsoleNext]_consoleVars PROVE ConsoleInv'
<1>1. CASE UNCHANGED consoleVars
  BY <1>1 DEF consoleVars, cursor, ConsoleInv
<1> QED BY <1>1, ConsoleKeyStep, ConsoleEchoStep, ConsoleThreadStep DEF ConsoleNext

\* The cells before a row, and before the end of it.
LEMMA Rows ==
  ASSUME NEW r \in Nat, NEW n \in Nat, NEW c \in Nat, r < n
  PROVE  r * c \in Nat /\ n * c \in Nat /\ r * c + c <= n * c /\ (r >= 1 => r * c >= c)
<1>1. n = r + 1 + (n - r - 1) /\ n - r - 1 \in Nat
  OBVIOUS
<1>2. PICK d \in Nat : d = n - r - 1
  BY <1>1
<1>3. n * c = r * c + c + d * c
  BY <1>1, <1>2
<1>4. d * c \in Nat /\ r * c \in Nat
  OBVIOUS
<1>5. r >= 1 => r * c >= c
  <2> SUFFICES ASSUME r >= 1 PROVE r * c >= c
    OBVIOUS
  <2>1. PICK e \in Nat : r = e + 1
    BY r - 1 \in Nat
  <2>2. r * c = e * c + c /\ e * c \in Nat
    BY <2>1
  <2> QED BY <2>2
<1> QED BY <1>3, <1>4, <1>5

\* vga.c, for a screen of any size and an echo of any length: wherever in a character of
\* the thread's the keyboard handler prints its own, what a finished character leaves
\* behind is the number of a cell of the screen.
THEOREM CursorStaysOnScreen == ConsoleSpec => []NextCellOnScreen
<1>1. ConsoleInit => ConsoleInv
  BY ConsoleAssumption DEF ConsoleInit, ConsoleInv
<1>2. ConsoleInv => NextCellOnScreen
  <2> SUFFICES ASSUME ConsoleInv, step = "rest"
               PROVE  vga_cursor_row * VGA_COLS + vga_cursor_col \in 0 .. VGA_ROWS * VGA_COLS - 1
    BY DEF NextCellOnScreen
  <2>1. /\ vga_cursor_row \in 0 .. VGA_ROWS - 1 /\ vga_cursor_col \in -1 .. VGA_COLS - 1
        /\ vga_cursor_col = -1 => vga_cursor_row >= 1
    BY ConsoleAssumption DEF ConsoleInv
  <2>2. PICK at \in Nat, all \in Nat :
          /\ at = vga_cursor_row * VGA_COLS /\ all = VGA_ROWS * VGA_COLS
          /\ at + VGA_COLS <= all /\ (vga_cursor_row >= 1 => at >= VGA_COLS)
    BY <2>1, Rows, ConsoleAssumption
  <2> QED BY <2>1, <2>2, ConsoleAssumption
<1> QED BY <1>1, <1>2, ConsoleStep, PTL DEF ConsoleSpec
==============================================================================
