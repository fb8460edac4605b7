-------------------------------- MODULE Kheap --------------------------------
(***************************************************************************)
(* The bump allocator of memory/kheap.c: a cursor that is aligned, handed   *)
(* out and moved on, in addresses of AddressRange values (uintptr_t wraps). *)
(* kmain runs kheap_init and kheap_self_test and panics if the test fails;  *)
(* after that any kernel code may call kmalloc and kzalloc, one call at a   *)
(* time (no interrupt handler allocates), and write to what it was given.   *)
(* kfree does nothing.                                                      *)
(***************************************************************************)
EXTENDS Integers, FiniteSets

CONSTANTS
    AddressRange,       \* 2^64
    KernelEnd,          \* &__kernel_end
    PageSize,           \* 4096
    KHEAP_SIZE_BYTES,
    KHEAP_ALIGNMENT,
    Sizes,              \* what callers ask for: any size_t
    SizeA, SizeB        \* what the self-test asks for

ASSUME KheapAssumption ==
    /\ AddressRange \in Nat /\ KernelEnd \in Nat
    /\ PageSize \in Nat \ {0}
    /\ KHEAP_SIZE_BYTES \in Nat
    /\ KHEAP_ALIGNMENT \in Nat \ {0}
    /\ Sizes \subseteq 0 .. AddressRange - 1
    /\ SizeA \in 1 .. AddressRange - 1
    /\ SizeB \in 1 .. AddressRange - 1
    \* the kernel and its heap lie below the end of the address space
    /\ KernelEnd + PageSize + KHEAP_SIZE_BYTES + KHEAP_ALIGNMENT <= AddressRange

VARIABLES
    heap_start, heap_current, heap_end, allocation_count,
    pc,         \* "init", "testA", "testB", "run" or "panic"
    blocks,     \* what was handed out: address, size, "raw", "zero" or "data" inside
    dirty       \* the addresses of the heap whose byte may differ from 0

bounds == <<heap_start, heap_end>>
vars == <<heap_start, heap_current, heap_end, allocation_count, pc, blocks, dirty>>

Address == 0 .. AddressRange - 1
Block == [at : Address, size : Nat, holds : {"raw", "zero", "data"}]
Range(b) == b.at .. b.at + b.size - 1

TypeOK ==
    /\ heap_start \in Address /\ heap_current \in Address /\ heap_end \in Address
    /\ allocation_count \in Nat
    /\ pc \in {"init", "testA", "testB", "run", "panic"}
    /\ blocks \in SUBSET Block
    /\ dirty \in SUBSET Address

\* (value + alignment - 1) & ~(alignment - 1), alignment a power of 2
align_up(value, alignment) ==
    LET raised == (value + alignment - 1) % AddressRange
    IN raised - (raised % alignment)

Init ==
    /\ heap_start = 0 /\ heap_current = 0 /\ heap_end = 0
    /\ allocation_count = 0
    /\ pc = "init"
    /\ blocks = {}
    /\ dirty = Address

kheap_init ==
    /\ pc = "init"
    /\ heap_start' = align_up(KernelEnd, PageSize)
    /\ heap_current' = heap_start'
    /\ heap_end' = (heap_start' + KHEAP_SIZE_BYTES) % AddressRange
    /\ allocation_count' = 0
    /\ pc' = "testA"
    /\ UNCHANGED <<blocks, dirty>>

-----------------------------------------------------------------------------
(* kmalloc and kzalloc.                                                     *)

Allocation == align_up(heap_current, KHEAP_ALIGNMENT)
\* Mutant: the cursor stops at the last byte of the block.
CursorShort(size) == (Allocation + size - 1) % AddressRange
NextCursor(size) == (Allocation + size) % AddressRange

\* Mutant: a sum that wraps is not noticed.
NoRoomUnlessWrapped(size) == size = 0 \/ NextCursor(size) > heap_end

NoRoom(size) ==
    \/ size = 0
    \/ NextCursor(size) < Allocation
    \/ NextCursor(size) > heap_end

\* kmalloc hands out a block with the given contents; kzalloc's memset clears it.
Allocate(size, holds) ==
    LET new == [at |-> Allocation, size |-> size, holds |-> holds] IN
    /\ ~NoRoom(size)
    /\ heap_current' = NextCursor(size)
    /\ allocation_count' = allocation_count + 1
    /\ blocks' = blocks \cup {new}
    /\ dirty' = IF holds = "zero" THEN dirty \ Range(new) ELSE dirty
    /\ UNCHANGED bounds

kmalloc(size) == Allocate(size, "raw")
\* Mutant: the memset is missing.
kzallocUncleared(size) == kmalloc(size)
kzalloc(size) == Allocate(size, "zero")

\* Mutant: calls are counted, not blocks.
CountFailures(size) ==
    /\ pc = "run"
    /\ NoRoom(size)
    /\ allocation_count' = allocation_count + 1
    /\ UNCHANGED <<bounds, heap_current, pc, blocks, dirty>>

\* A null pointer: nothing changes.
AllocateFails(size) ==
    /\ pc = "run"
    /\ NoRoom(size)
    /\ UNCHANGED vars

Malloc(size) == pc = "run" /\ UNCHANGED pc /\ kmalloc(size)
Zalloc(size) == pc = "run" /\ UNCHANGED pc /\ kzalloc(size)

\* The owner of a block writes to all of it.
Fill(b) ==
    /\ pc = "run"
    /\ b.holds # "data"
    /\ blocks' = (blocks \ {b}) \cup {[b EXCEPT !.holds = "data"]}
    /\ dirty' = dirty \cup Range(b)
    /\ UNCHANGED <<heap_start, heap_current, heap_end, allocation_count, pc>>

-----------------------------------------------------------------------------
(* kheap_self_test, and kernel_panic when it fails.                         *)

SelfTestA ==
    /\ pc = "testA"
    /\ IF NoRoom(SizeA)
       THEN /\ pc' = "panic"
            /\ UNCHANGED <<bounds, heap_current, allocation_count, blocks, dirty>>
       ELSE /\ pc' = "testB"
            /\ kmalloc(SizeA)

\* b is aligned, lies past a and is zero; then a is written to.
SelfTestB ==
    /\ pc = "testB"
    /\ IF NoRoom(SizeB)
       THEN /\ pc' = "panic"
            /\ UNCHANGED <<bounds, heap_current, allocation_count, blocks, dirty>>
       ELSE /\ kzalloc(SizeB)
            /\ \E a \in blocks :
                pc' = IF /\ a.at % KHEAP_ALIGNMENT = 0
                         /\ Allocation % KHEAP_ALIGNMENT = 0
                         /\ Allocation > a.at
                         /\ Allocation .. Allocation + SizeB - 1 \cap dirty' = {}
                      THEN "run" ELSE "panic"

Next ==
    \/ kheap_init \/ SelfTestA \/ SelfTestB
    \/ \E size \in Sizes : Malloc(size) \/ Zalloc(size) \/ AllocateFails(size)
    \/ \E b \in blocks : Fill(b)

Spec == Init /\ [][Next]_vars

-----------------------------------------------------------------------------
(* Properties.                                                              *)

\* Blocks lie inside the heap and below the cursor, and no two of them share a
\* byte, whatever sizes are asked for: also those for which the sum wraps.
BlocksDisjoint ==
    /\ \A b \in blocks :
        /\ b.size > 0
        /\ heap_start <= b.at
        /\ b.at + b.size <= heap_current
        /\ heap_current <= heap_end
    /\ \A b, c \in blocks : b # c => b.at + b.size <= c.at \/ c.at + c.size <= b.at

\* A block's bytes are its owner's: what kzalloc cleared is still zero and what
\* was written is not cleared by a later kzalloc, until the owner writes again.
ContentsKept ==
    \A b \in blocks :
        /\ b.holds = "zero" => Range(b) \cap dirty = {}
        /\ b.holds = "data" => Range(b) \subseteq dirty

\* What `mem` prints: one allocation per block, and the bytes used cover them.
StatsCover ==
    /\ allocation_count = Cardinality(blocks)
    /\ blocks # {} => \E b \in blocks : heap_current = b.at + b.size

\* The self-test never panics the kernel when the heap has room for its blocks.
NoPanic ==
    SizeA + SizeB + KHEAP_ALIGNMENT <= KHEAP_SIZE_BYTES => pc # "panic"

=============================================================================
