--------------------------------- MODULE Vmm ---------------------------------
(***************************************************************************)
(* memory/vmm.c, and what users/userspace.c and syscall/syscall.c do with   *)
(* it: the kernel's page tables, an identity map of 2 MiB pages with one    *)
(* window for ring 3, the user program in that window and its calls through *)
(* int 0x80. The low bits of an address are three digits in base            *)
(* PAGE_ENTRIES and an offset into the page, and 16 bits lie above them,    *)
(* which the code masks out and the CPU looks at; a table maps indices to   *)
(* entries.                                                                 *)
(***************************************************************************)
EXTENDS Integers

CONSTANTS
    PAGE_ENTRIES,       \* 512
    SPANS,              \* 2^16, the values of the 16 bits
    PAGE_SIZE,          \* VMM_PAGE_SIZE_2M, in the units an address is counted in
    CodePage, StackPage, OtherPage  \* physical addresses: userspace.c's two, another

ASSUME VmmAssumption ==
    /\ PAGE_ENTRIES \in Nat \ {0, 1, 2, 3} /\ PAGE_ENTRIES % 2 = 0
    /\ PAGE_SIZE \in Nat \ {0} /\ SPANS \in Nat \ {0}
    /\ CodePage \in Nat /\ StackPage \in Nat /\ OtherPage \in Nat

VMM_IDENTITY_MAP_SIZE == PAGE_ENTRIES * PAGE_SIZE
USER_CODE_VADDR == PAGE_ENTRIES * PAGE_ENTRIES * PAGE_SIZE
USER_STACK_VADDR == USER_CODE_VADDR + PAGE_SIZE
SPAN == PAGE_ENTRIES * PAGE_ENTRIES * PAGE_ENTRIES * PAGE_SIZE
Virtual == 0 .. (SPANS * SPAN) - 1
Index == 0 .. PAGE_ENTRIES - 1

VARIABLES
    kernel_pml4, kernel_pdpt, kernel_pd, user_pdpt, user_pd,
    asked,              \* history: the page last asked for, by the low bits of the address
    stage,              \* of kmain: "vmm", "test", "user", then "shell", "ring3" or "panic"
    call, rax           \* the user program's next system call, and the last answer
tables == <<kernel_pml4, kernel_pdpt, kernel_pd, user_pdpt, user_pd>>
vmmVars == <<tables, asked, stage, call, rax>>

\* An entry points to a table or, a huge one, to a physical page.
Absent == [to |-> "none", page |-> 0, user |-> FALSE]
Table(name, user) == [to |-> name, page |-> 0, user |-> user]
Huge(page, user) == [to |-> "page", page |-> page, user |-> user]

VmmInit ==      \* boot.S's tables serve until vmm_init, and are left out
    /\ kernel_pml4 = [i \in Index |-> Absent] /\ kernel_pdpt = kernel_pml4
    /\ kernel_pd = kernel_pml4 /\ user_pdpt = kernel_pml4 /\ user_pd = kernel_pml4
    /\ asked = << >> /\ stage = "vmm" /\ call = "puts" /\ rax = 0

vmm_init ==
    /\ stage = "vmm" /\ stage' = "test"
    /\ kernel_pml4' = [i \in Index |-> CASE i = 0 -> Table("kernel_pdpt", FALSE)
                                         [] i = 1 -> Table("user_pdpt", TRUE) [] OTHER -> Absent]
    /\ kernel_pdpt' = [i \in Index |-> IF i = 0 THEN Table("kernel_pd", FALSE) ELSE Absent]
    /\ kernel_pd' = [i \in Index |-> Huge(i * PAGE_SIZE, FALSE)]
    /\ user_pdpt' = [i \in Index |-> Absent] /\ user_pd' = [i \in Index |-> Absent]
    /\ UNCHANGED <<asked, call, rax>>

PdIndex(va) == (va \div PAGE_SIZE) % PAGE_ENTRIES
PdptIndex(va) == (va \div (PAGE_SIZE * PAGE_ENTRIES)) % PAGE_ENTRIES
Pml4Index(va) == (va \div (PAGE_SIZE * PAGE_ENTRIES * PAGE_ENTRIES)) % PAGE_ENTRIES

\* 0 stands for "not mapped", too.
vmm_translate_identity(va) ==
    IF va >= VMM_IDENTITY_MAP_SIZE \/ kernel_pd[PdIndex(va)].to # "page" THEN 0
    ELSE kernel_pd[PdIndex(va)].page + (va % PAGE_SIZE)

\* vmm_self_test: two addresses of the kernel and the first one past the map.
SelfTest ==
    /\ stage = "test"
    /\ stage' = IF /\ vmm_translate_identity(PAGE_SIZE - 1) = PAGE_SIZE - 1
                   /\ vmm_translate_identity(1) = 1
                   /\ vmm_translate_identity(VMM_IDENTITY_MAP_SIZE) = 0
                THEN "user" ELSE "panic"
    /\ UNCHANGED <<tables, asked, call, rax>>

Aligned(va, page) == va % PAGE_SIZE = 0 /\ page % PAGE_SIZE = 0

\* Mutant: the middle index is not looked at.
InAnyGigabyte(va, page) ==
    Aligned(va, page) /\ va >= VMM_IDENTITY_MAP_SIZE /\ Pml4Index(va) = 1

\* vmm_map_user_2m's checks.
Mappable(va, page) ==
    Aligned(va, page) /\ va >= VMM_IDENTITY_MAP_SIZE /\ Pml4Index(va) = 1 /\ PdptIndex(va) = 0

Low(va) == va % SPAN
Asked(va, page) ==
    [a \in DOMAIN asked \cup {Low(va)} |-> IF a = Low(va) THEN page ELSE asked[a]]

vmm_map_user_2m(va, page) ==
    /\ Mappable(va, page)
    /\ user_pdpt' = [user_pdpt EXCEPT ![PdptIndex(va)] =
                       IF @ = Absent THEN Table("user_pd", TRUE) ELSE @]
    /\ user_pd' = [user_pd EXCEPT ![PdIndex(va)] = Huge(page, TRUE)]
    /\ asked' = Asked(va, page)
    /\ UNCHANGED <<kernel_pml4, kernel_pdpt, kernel_pd>>

\* userspace_init, in two steps; a page that cannot be mapped is a panic.
userspace_init ==
    /\ stage = "user" /\ UNCHANGED <<call, rax>>
    /\ \/ USER_CODE_VADDR \notin DOMAIN asked /\ vmm_map_user_2m(USER_CODE_VADDR, CodePage) /\ UNCHANGED stage
       \/ USER_CODE_VADDR \in DOMAIN asked /\ vmm_map_user_2m(USER_STACK_VADDR, StackPage) /\ stage' = "shell"

\* Any other use of the function, refused or not.
MapPage(va, page) ==
    /\ stage = "shell" /\ UNCHANGED <<stage, call, rax>>
    /\ vmm_map_user_2m(va, page) \/ (~Mappable(va, page) /\ UNCHANGED <<tables, asked>>)

\* `userdemo`: iretq, which nothing returns from; userspace_running never matters.
userspace_run_demo == stage = "shell" /\ stage' = "ring3" /\ UNCHANGED <<tables, asked, call, rax>>

\* demo_user.S: three calls, then one and the same for ever.
syscall_dispatch ==
    /\ stage = "ring3" /\ UNCHANGED <<tables, asked, stage>>
    /\ rax' = IF call \in {"puts", "yield"} THEN 0 ELSE 1      \* a PID or the ticks
    /\ call' = CASE call = "puts" -> "get_pid" [] call = "get_pid" -> "get_ticks" [] OTHER -> "yield"

VmmNext ==
    \/ vmm_init \/ SelfTest \/ userspace_init \/ userspace_run_demo \/ syscall_dispatch
    \/ \E va \in Virtual, page \in {OtherPage, CodePage, OtherPage + 1} : MapPage(va, page)

-----------------------------------------------------------------------------
\* The table an entry leads the CPU to, at an index.
Behind(entry, i) ==
    CASE entry.to = "kernel_pdpt" -> kernel_pdpt[i] [] entry.to = "user_pdpt" -> user_pdpt[i]
      [] entry.to = "kernel_pd" -> kernel_pd[i] [] entry.to = "user_pd" -> user_pd[i]
      [] OTHER -> Absent

\* An address the CPU takes: the 16 bits are those of its highest digit, all clear in
\* the lower half, all set in the upper one.
HALF == (PAGE_ENTRIES \div 2) * PAGE_ENTRIES * PAGE_ENTRIES * PAGE_SIZE
Canonical(va) == va < HALF \/ va >= (SPANS * SPAN) - HALF

\* What the CPU makes of an address in ring 3: every level has to allow it.
Walk(va) ==
    LET top == kernel_pml4[Pml4Index(va)]
        middle == Behind(top, PdptIndex(va))
        leaf == Behind(middle, PdIndex(va))
    IN [seen |-> leaf.to = "page" /\ Canonical(va), at |-> leaf.page + (va % PAGE_SIZE),
        user |-> top.user /\ middle.user /\ leaf.user]

\* vmm.c: through any sequence of mappings the walk of the CPU finds the page that was
\* last asked for at an address, open to ring 3, and nothing else is; the kernel's
\* own gigabyte stays mapped to itself, and vmm_translate_identity says so and no more.
\* "At an address" is at any that agrees with it in the bits the masks keep: a request
\* the CPU could never use, 2^48 further up, is accepted and takes the page over.
WalkFindsWhatWasAsked ==
    stage \in {"shell", "ring3"} => \A va \in Virtual :
        LET start == Low(va) - (va % PAGE_SIZE) IN
        /\ va < VMM_IDENTITY_MAP_SIZE =>
             Walk(va) = [seen |-> TRUE, at |-> va, user |-> FALSE] /\ vmm_translate_identity(va) = va
        /\ va >= VMM_IDENTITY_MAP_SIZE =>
             /\ vmm_translate_identity(va) = 0
             /\ IF Canonical(va) /\ start \in DOMAIN asked
                THEN Walk(va) = [seen |-> TRUE, at |-> asked[start] + (va % PAGE_SIZE), user |-> TRUE]
                ELSE ~Walk(va).seen

\* The address space by itself.
VmmSpec == VmmInit /\ [][VmmNext]_vmmVars
=============================================================================
