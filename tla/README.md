# AcharyaOS: a TLA+ model of the kernel

AcharyaOS is a small x86-64 teaching kernel. One thread (boot, then the shell)
runs with interrupts on; the timer, keyboard and mouse handlers run through
interrupt gates, so a handler is never itself interrupted. There is no second
thread and no lock: what is hard is the handlers' steps between two accesses of
the thread, the drive's failures, power losses in the middle of an operation on
several files, and the long sequences of commands that tables of fixed size have
to survive. This directory models the parts that carry the kernel's state, checks
them with TLC on small instances, and proves the main results with TLAPS for all
instances.

## Inventory

| component | state | operations | interacts with | hard part |
|---|---|---|---|---|
| ATA driver `drivers/disk/ata.c` | `ata_info`; the drive's ERR bit | init/identify, read, write, self-test | polled by fs and shell | every transfer may fail at several places; ERR outlives the command |
| filesystem `fs/fs.c` | superblock, table, data on disk; table, cache, info in memory | init, format, read, write, delete, list | ATA below; shell, editor, config, packages above | failure or power loss between any two transfers; memory and disk diverge |
| keyboard `drivers/keyboard/keyboard.c` and the readline loops of shell, editor, browser | ring, head, tail, shift; the line | IRQ1 handler, `keyboard_getchar`, readline | handler against thread | interleavings on the ring, sleep and wake-up |
| timer, scheduler, processes | tick counters, task and process tables | tick, register, create, stats, copy | handler against thread | ticks between the stores of a creation or a listing |
| heap `memory/kheap.c` | cursor, bounds, count | kmalloc, kzalloc, self-test | boot panics if the self-test fails | wrap of the address arithmetic |
| interrupts: `pic.c`, `idt.c`, `kmain.c` | masks, requests, service bits, handler table | init, register, unmask, dispatch, EOI | every driver | masks and EOIs spread over five files |
| mouse `drivers/mouse/mouse.c` | packet bytes, index, position, count | IRQ12 handler, copy for `mouse` | handler against thread | packets complete between the words of the copy; unread acknowledgements |
| console `drivers/vga/vga.c` | cursor, screen | putchar, scroll, clear | handler and thread print through one cursor | a key between any two accesses |
| virtual memory, system calls, user demo | page tables; the demo's next call | init, map, translate, enter ring 3, dispatch | boot, shell | one index of three selects the entry; the bits above all three are masked out |
| configuration `kernel/config` | table of settings; its file; the log level | set, save, load | filesystem, log, boot | text cut at the buffer's end; level kept twice |
| packages `kernel/package` | table; index file; installed files | install, remove, load index | filesystem, boot | files first, index last, any write failing |
| editor `kernel/editor` | lines, cursor, dirty | load, insert, append, delete, move, save, quit | filesystem | a failed save; what `q` may leave behind |
| accounts `kernel/user` | accounts, active uid, authenticated | add, disable, su, passwd, login, logout | shell, boot prompt | the session's account changing under it |
| services, log | service table; ring of messages | start, stop, restart, enable; write, copy | each other, the timer | state, counts and stamps kept by four functions; ring wraps |
| shell history | ring of lines | add, recall, clear | `shell_execute` | recall out of a ring that wraps |
| network `kernel/net` | ARP cache, port table, route, counters | ping, send, bind, unbind, add entry | shell | full tables, counters of five files |
| GUI registries `gui/` | windows, menus, buttons, icons | boot layout, demos, drawing's release of Start | shell, boot | registries that fill up while others start over |
| calculator `kernel/calc`, `%d` of `kio.c` | none | evaluate, print | shell | precedence, wrap, 64 against 32 bits |
| boot.S, GDT, stubs | processor structures | straight-line set-up | | not modelled: no state after boot |

`PROJECT.json` lists the components with their status, the lines each
definition models, and the hazards with the properties that cover them.

## Modules

The parts below the commands:

* **Ata** — the driver seen from its callers. A transfer has a set of possible
  outcomes (returned value, whether the medium took the sector, the ERR bit
  left behind). `ata_wait_not_busy` looks at ERR *before* a command is issued,
  so a latched ERR fails every later transfer until `ata_init`.
* **Fs** (extends Ata) — one action per sector transfer: `Boot`,
  `LoadSuperblock`, `FormatSuperblock`, `FormatTable`, `LoadTable`;
  `WriteEntry` (the entry in memory changes first), `WriteBlock`, `WriteStore`;
  `DeleteFile`, `ReadFile`, the early returns, and `Crash`. The variables
  `ledger` and `diskLedger` are bookkeeping for the properties: what the last
  acknowledged write left in each slot. No guard reads them. `TableSlots` is
  the number of entries that fit the one sector `fs_store_table` moves
  (14 of 32 in the code).
* **AtomicStore**, **FsAtomic** — a durable map with room for `Capacity` files, in
  which a write takes effect whole or not at all, and the refinement: the map is read
  off the disk alone, its room is the stored sector's, and a file that is new when the
  map is full is kept outside it, in memory, until power fails.
* **AtaSelfTest** (extends Ata) — `disktest`, transfer by transfer.
* **Keyboard** — the handler in one step, `keyboard_getchar` in three
  (compare, load, advance), the three readers as one loop with two parameters
  (does it poll COM1, what does it take a tab for). **BoundedFifo** is the
  queue it implements.
* **Sched** — the tick in one step; `scheduler_register_task` and
  `process_create_kernel` store by store; `sched`/`taskmgr` row by row.
* **Kheap** — addresses wrap at `AddressRange`; `dirty` is the set of addresses
  whose byte may differ from 0.
* **Irq** — both 8259s (hardware), registration and unmasking in kmain's order,
  dispatch and EOI.
* **Mouse** — the handler's packet assembly and the copy of the state in three
  words. It says what the driver does with the bytes of IRQ12; that IRQ12 does
  not arrive as the kernel stands is Irq's finding.
* **Console** — every load and store of the two cursor statics is a step of the
  thread; a key's echo may come between any two, and is printed character by character
  while the thread stands still.
* **Vmm** — the five tables, `vmm_map_user_2m`'s checks in order, the self-test,
  the demo's pages and its calls, and the CPU's walk (hardware) as a reference.
  Addresses have three digits, an offset, and a further part that stands for the 16
  bits above: the code's masks drop it, the CPU wants it to be all zeroes or all ones.

What the commands work on:

* **FileStore** — the filesystem as its callers see it: one call is one step.
  `files` is what reads answer, `disk` what a boot will find. A new file may get an
  entry that is not in the stored sector (`unstored`): its writes are acknowledged, and
  a boot does not find it. A failed write may leave the old file, the new one, or a
  *leftover*: an extent of the new size of which only some blocks were written, over
  whatever the sectors held. A leftover is in memory only, until the next successful
  write or delete of *any* file stores the table. A delete that the drive does not
  store leaves a *loose* file: memory has forgotten it, the disk lists it, and until
  the next store the blocks of any write may go over its sectors. A power cycle may
  find the files, or a disk that `fs_init` has just formatted, and may end without a
  mounted volume.
* **FsFiles** (extends Fs) — the mapping under which Fs implements FileStore: a
  file is its size and what the sectors of its extent hold, so that the blocks of a
  write are steps that fail but for the last. The loose files are those whose sectors
  `fs_next_free_lba` does not go past (`Reserved`).
* **Config**, **Package**, **Editor** (over FileStore) — the commands on settings,
  with the text cut at the buffer's end; an install file by file; an editing
  session. Each has failed writes, failed reads, leftovers and power losses. Config
  has writes and deletes of other files too, which are what takes its leftover to the
  disk; in Package the installed files do that to the index.
* **Users** — accounts, sessions, the boot prompt.
* **Services** — services over the log's ring; **Recent** — the list of newest
  items that this ring and **History**'s, the shell's, implement.
* **Net** — one action per call of the interface; a call counts in every layer it
  reaches. `eth.c` is a stub that counts: nothing is received.
* **Gui** — registries only. **Calc** — the evaluator over a line typed character by
  character, `kprintf`'s conversion, and a reference meaning of the same text.

Compositions. Parts that share variables are composed by extension (Fs over Ata,
Services with the log, Config with the level, the commands over FileStore); Fs and
FileStore are joined by refinement. Parts
that share none are put side by side by **MCMachine** and **MCCommands**: a
behaviour has a *focus*, chosen at the start, and is a behaviour of that part; the
others stand still. Interleaving them would multiply the states and change
nothing that any property looks at, since no action of one reads a variable of
another. **MCFs, MCFsAtomic, MCKeyboard** give values to constants.

Proofs: **FsProofs** (Fs with any faults), **FsAtomicProofs** (Fs on drives that keep
their word, and both refinements), **KeyboardProofs**, **SchedProofs**, **MachineProofs**
(Kheap, Vmm, Irq, AtaSelfTest, Mouse, Console), **RingProofs** (Services, History) and
**CommandProofs** (Users, Net, Package, Editor, Gui, Config). **Folding** has what the
folds over sequences and sets compute, for SchedProofs and CommandProofs to cite.

Definitions introduced by a comment `Mutant:` are altered forms of the
definition that follows. They are used by no specification: substituting one
for its original must make TLC report the property it is paired with in
`PROJECT.json`, which shows that the property depends on that code.

## Runs

| run | what it shows | bounds |
|---|---|---|
| fs_faults | extents disjoint in memory and on disk, acknowledged files stay whole, never overwritten in place, an acknowledged write stores what the sector holds; every step is one of FileStore, failed deletes and entries outside the sector included | 3 slots of which 2 are stored, 3 names, contents of 1 and 2 blocks, 3 data sectors and extents that run off the end of the disk (each such write fails and leaves ERR behind), one more fault of any kind but a lost write, one power loss |
| fs_atomic | refinement of AtomicStore, exact counts, every call returns | 3 names for 3 slots of which 2 are stored, contents of 1, 2 and too many blocks, 3 data sectors and extents that run off the end of the disk, one power loss, no faults; empty files are left to the proofs |
| keyboard | the ring is a FIFO, nothing dropped early, the line fits, every key is read | ring of 3 (two waiting, both wraps), line of 3, five kinds of keys, serial input |
| sched | bindings, bounded turns, snapshots between two states, even shares | 4 tasks, 5 processes, slice 2, 11 ticks: enough for two rounds with a spawn inside each |
| machine | by focus. Heap: disjoint blocks, contents kept. Disk: a passed self-test left no trace. Interrupts: nothing left in service, timer and keys served. Scheduler: nobody starves, calls return. Mouse: the copy shows a position the packets passed. Console: the next character goes into the screen. Paging: the walk finds what was mapped and nothing else | heap of 64 bytes in 256 addresses, sizes 0 to one that wraps; three faults, two reboots; lines 0, 1, 4, 12, 14 (two handled, one on the slave, two never unmasked); ticks that wrap at 2 and never end; three packets; a screen of 3 x 4 and an echo longer than its lines; tables of 4 entries, and every address of two values of the bits above them: the lower half of the address space and the upper one, with the addresses in between that no CPU takes |
| commands | by focus. Settings: saved is loaded, the level follows. Packages: what is listed is whole. Editor: `q` loses nothing if saves work. Accounts: the active one is enabled. Services: stamps agree; the log is the newest messages. History: the newest lines. Network: one entry each, counters agree. GUI: registries agree. Calculator: prints the value | 4 settings, one with `=` in its key, one that names no level and one that is too long, for a table of two and a text of 5 parts, and one other file; two versions of one package, another one that shares a file with it and a bad manifest, for a table of one; any new file may fall outside the stored sector; 2 lines; 4 accounts for 3 slots; a log of 2, a history of 3; tables of 2, 2 ports, 2 counted calls; the registries' real sizes; lines of 5 characters over all operators, brackets, blanks and the digits 0 to 3, in 6-bit arithmetic printed as 5-bit |
| fs_table_sector (violation) | an acknowledged file beyond the sector is not on disk | 2 slots, 1 stored |
| fs_spurious_format (violation) | a read timeout at boot formats a valid volume | one timeout |
| fs_wedge (violation) | after a write past the end of the disk a delete fails | no faults |
| irq_mouse (violation) | IRQ12 is never delivered | lines 0, 1, 12 |
| editor_quit (violation) | `q` leaves a text that no file holds | as commands |
| console_backspace (violation) | a backspace goes past the start of the line | a screen of 2 x 3, an echo of 2 |

Every bound is a constant (`MaxFaults`, `MaxCrashes`, `LbaBound`, `MaxTicks`,
`MaxReboots`, `MaxPackets`, `MaxEvents`, `MaxServiceTicks`, `MaxCalls`, `MaxTyped`). A failed call leaves memory and disk
different; a second one strikes while they are, since the end of the disk rejects
writes besides the one fault that is counted; one power loss then exposes the disk. In the Fs instances `MaxBlocks` equals `CountWidth`
as 256 does in the code, and contents stay below, as all callers' do. Config,
Package and Editor need no such bound: their stores have finitely many contents, of
which one or two leftovers for each file: none of its text, or that of an earlier
version.
Every table is small enough to be filled and to have to refuse or overwrite; where a
theorem covers a property (see below) the size does not matter at all. Two calls of
the network reach every pair of outcomes. Six-bit arithmetic wraps, its least
value is reached, and every operator and a divisor of 0 occur, within five characters.

Deadlock is checked except in `commands` and `editor_quit`: a line of the calculator at
its bound, and a network that has counted all its calls, have nothing left to do.

Fairness. Fs: the processor goes on with the call it is in (each polling loop
of the driver has a budget, so each transfer ends); callers need not call, and
power may fail. Keyboard: the reader runs when not interrupted, each command
returns, and the PIT keeps ticking; nobody need press a key. Machine: the PIT
never stops and the interrupted thread gets on; boot, acceptance and handlers go
on; devices need not raise anything, but the PIT's period is taken to be longer
than the service of what is pending (10 ms at 100 Hz). Nothing else needs fairness.

## What the violation runs show

1. The file table is 32 entries of 36 bytes and one 512-byte sector of it is
   stored: files in slots 14 and up are acknowledged and lost at the next boot.
2. `fs_init` formats when the superblock cannot be read, not only when it is
   foreign.
3. No LBA is compared with the size of the disk, and the ERR bit of the
   rejected command fails every later one: a full disk cannot be freed by
   `rmfs` until a reboot.
4. Line 2 of the master controller stays masked, so the mouse handler never
   runs.
5. The editor's `s` clears the dirty flag although the save failed, and `q` then
   leaves the unsaved text without a word.
6. `vga_putchar` tests and decrements the column in separate steps; an echo in
   between that ends a line lets a backspace go to column -1, a cell of the line
   above.

Smaller things met while modelling, each visible in the definition that has it:

* `spawn` stops at 8 tasks, not at the 16 of the process table
  (docs/10-process-management.md:76).
* A self-test whose pattern write reports a failure after the data was taken does not
  restore the sector (docs/12-disk-read-write.md:73-74).
* The boot prompt asks nobody for anything: it makes guest the active account
  (`boot_prompt_login`). docs/23-password-login.md:33 says that boot "continues to
  the shell only after a successful login".
* The number of a package's files is lost at every reload of the index:
  `package_load_index` looks for the last `|` at one it has just replaced.
* `savecfg` reports success for a text cut at 1023 bytes, and for keys that contain
  `=`; the next load reads something else. `SavedIsLoaded` says what holds.
* A file that cannot be read, or is longer than the editor's buffer, is opened as a
  new or a shorter one (`editor_load`).
* The two acknowledgements of the mouse's set-up commands are taken for the start of
  a packet, which shifts all packets that follow (`Mouse`).
* On a drive without faults an index in a low slot can list a package whose files lie
  in slots 14 and up: after a boot it is listed and its files are gone. Likewise an
  acknowledged `savecfg` into such a slot is forgotten by the next boot, which finds
  the defaults. Both follow from (1) and are in the model (`unstored`);
  `InstalledIsWhole` and `SavedIsLoaded` say what holds beside them.
* `vmm_map_user_2m` accepts an address with any bits above the lowest 48 and maps it
  at the address without them; the CPU refuses the first and uses the second.
* `bound_sockets` only grows; a full ARP cache gives up the slot of the machine's own
  address; the search for an ephemeral port does not start over.
* The least 64-bit number divided by -1 raises the CPU's divide exception.
* A line typed with leading blanks is unknown to the shell but kept in the history.

## Proofs

All constants are arbitrary, under the ASSUMEs of the modules, which TLC evaluates
in the runs.

* **FsProofs**: `FsInv` is inductive, for every set of faults, lost writes
  included. `ExtentsDisjoint` and `KeepsPromises` are not inductive alone.
  `Covered` says that while a volume is mounted, what the disk promises is also
  in memory with an extent that ends no earlier, so that `fs_next_free_lba`,
  which sees memory only, places a file past both. `WriteInv` says that the
  write under way fills a fresh extent past everything promised and that the
  blocks written so far are in place. `Unmounted` says that memory is empty
  before a volume is mounted. From FsInv follow `FilesNeverOverlap`,
  `PromisesKept`, `WritesNeverInPlace`, `UnmountedTableEmpty`; `NamesUnique`
  has an inductive invariant of its own (both tables free of twins).
* **FsAtomicProofs**: with `AtomInv` (what is on the disk is whole, only a blank disk
  is formatted, memory and the stored entries differ in the slot of the write under way
  at most) and the invariants of FsProofs, every step of Fs is a step of AtomicStore or
  a stutter: `FsImplementsAtomicStore`, for any number of slots of which any number are
  stored. The store is read off the disk: a name's content is the one its sectors hold,
  and the lemmas show that there is one such content, so the CHOOSE of the mapping is
  determined. That a new file goes outside the map just when the map is full is the
  counting argument of `FullMap`: the free slot with the lowest number is past the
  sector only when every entry of the sector is used, and used entries and names on the
  disk correspond one to one. It assumes `AtomicSetting`: a drive that fails nothing but
  may lose power, and names that are not cut (no caller passes one that is). Without a
  working drive the code is not atomic: `fs_spurious_format` shows files lost. A disk too
  small for the extent is covered, if the drive rejects the write; after that rejection
  the latched ERR fails every call, and the files outside the map count no longer.
  `AckedReachesDisk` needs less, that no write is lost in silence; it says of an
  acknowledged write that the stored sector is the table in memory, of which it has the
  entries of `Persisted`. `ListingIsFresh` needs a drive without faults, because a
  failed store leaves the listing behind the table.
  `FsImplementsFileStore` is the refinement the commands rest on: it assumes that the
  drive says so when it did not store a sector (`HonestDrive`) and that no name is cut
  (`NamesFit`); rejected commands, timeouts, failed flushes and power losses may come at
  any transfer, deletes may fail to be stored, and the table may be of any size beside
  its sector. By `FilesInv` (types and safety, no twin names, names of callers, and
  `Filling`: every file has the size of some content and no sector holds anything but a
  block of one) a block that is written changes no file in memory but the one it belongs
  to, and what a broken write leaves is a leftover. On the disk it changes at most files
  that are not `Reserved`: if memory has the file still, or a newer version of it, with
  an extent that ends no earlier, the next write is placed past it. Only a delete takes
  a file out of memory and leaves it on the disk, so the files that are not reserved are
  those whose delete failed, until the table is stored (`SectorStored`) or power is lost;
  that is FileStore's `loose`. `CallsRefineFileStore` says besides that the store which
  ends an acknowledged write is its `fs_write_file`, and each delete an `fs_delete_file`.
* **KeyboardProofs**: types, `LoadedIsOldest` and `LineFits` together are
  inductive (`LineAlwaysFits`); with the arithmetic of wrapped indices (the lemmas on
  After, Count and Slot) every step of handler and reader is a Put, a Get or a stutter
  of BoundedFifo: `RingImplementsFifo`, and `NoEarlyDrop`.
* **SchedProofs**: `SInv` relates the two counts to the point a creation has
  reached, describes every visible task and process, and says whose turn it is;
  from it types, `TurnsBounded`, `ProcessesAlwaysBound`, `NoOrphans`,
  `SharesStayEven`. `SnapshotIsBetween` compares sums over the table with the counter
  of ticks: each tick that is accounted adds one to a row and one to the counter
  (`TickAdds`), so a row copied earlier is at most its row now, and the copy, old rows
  and new ones mixed (`Mixed`), sums to between the two counters (`SumInv`).
* **Folding**: a fold is a recursive function over the subsets of its indices, by
  CHOOSE; `FoldExists` shows that there is one and `FoldRuns` that a fold over a
  sequence ends a run of values r[i] = op(r[i - 1], seq[i]). The operator is a constant of
  the module, so that each fold is an instance of it, and induction is over sets of
  numbers (`SetOfNats`, from the well-foundedness of <), so that nothing of second order
  is left.
* **MachineProofs**: blocks are disjoint and keep their contents for every size and
  heap, from the bounds on the cursor; the wrap is the case the first test of kmalloc
  catches. `WalkIsRight`: by `MapInv` the tables are entered only through the one entry
  of each level that `vmm_init` and the first mapping set, so each leaf is the page of
  the last call that named it. The three indices of an address determine its low part
  (`PageIs` and the lemmas on indices), so the entry is shared by just the addresses that
  differ in the bits above, of which the CPU takes one.
  `ServiceEnds` rests on `PicInv`: exactly the lines with a
  handler are unmasked, the cascade line never is, so only lines of the master are
  delivered, each alone, and the EOI ends it. `SelfTestRestores` assumes that the
  drive reports lost writes; then the saved copy is what the sector held from the
  read to the restoring write. `ShownWasReached`: the trail ends at the position, and
  what is already copied is a word of the copy's first moment or a later one
  (`MouseInv`). `CursorStaysOnScreen`: not the column itself, which other
  interleavings take to -1 and past the end, but the cell the next character goes to,
  for each point the thread may stand at (`ConsoleInv`).
* **RingProofs**: one lemma, `StoreAppends`, about any ring of any size: storing
  at the head appends to the list that the copying expression reads, and in a full
  ring drops its oldest. The slot of entry i is head - count + i - 1, once around at
  most (`SlotIs`). With it every step of the services is an Add or a stutter of
  Recent (`LogImplementsRecent`), and every line the shell executes an Add, a Clear
  or a stutter (`HistoryImplementsRecent`); a recall needs the invariant that what is
  listed are lines. `ServicesAgree` needs that no stamp is from the future.
* **CommandProofs**: until the shell runs every account is enabled, which is why the
  boot's switch to guest keeps `ActiveIsEnabled`. Tables of the network hold a value
  once (`OneSlot`), and each call counts evenly (`Balanced`), in every layer it reaches.
  `ListedIsInstalled`: whatever lists a package (the table, the index a read finds, the
  index on the disk) lists one whose files were all written before (`PackageInv`), unless
  a write of the index itself broke off, or was a manifest's, and what it left was stored
  or read since (`sound`). A file written whose entry lies outside the sector is
  `missing` after a boot; an entry whose files were written again since, by an install of
  any package that has one of them, promises no more than that they are there.
  `QuitIsClean`: a buffer that is
  not dirty is the text last read or saved, unless a save failed (`CleanInv`).
  `RegistriesStayWhole`: identifiers are positions and parents are windows that exist
  (`GuiInv`), because no more windows are ever made than `GuiAssumption` has room for.
  `SavedComesBack` shows by induction, with Folding, that the text of a table that fits is
  its lines, one each (`TextIsLines`), and that parsing them over the defaults sets each
  entry in its place (`Half`, `LoadIsSave`): every table the shell can reach holds a key
  once and starts with the defaults' keys (`Table`), so nothing moves. By `SettingsInv`
  the file in memory and the one on the disk each load as the table promised of it
  (`Promised`): when the file lies outside the sector, the disk promises the defaults. A save that fails withdraws the promise of the file in memory, unless it
  left the old or the new text; the promise of the one on the disk stands until another
  file is written or deleted, which stores the broken entry. Of the same invariant is
  `LevelStaysInStep`: `loglevel` finds its entry in every table.

Model-checked only: every liveness property (`CallReturns`, `KeysAreRead`,
`InputServed`, `EveryTaskRuns`, `CallsReturn`), which the prover cannot state, and
`PrintsTheValue`, whose evaluator is recursive. Invariants that were checked by runs of
their own before they were proved (`TypeOK`, `FsInv`, `UniqueNames`, the heap's and the interrupt
model's smaller ones) are no longer repeated in the runs.

## Abstractions

* A sector write is atomic; a transfer that timed out does not complete later.
* A format that stops half-way on a disk with a foreign table is not modelled:
  the disk starts blank.
* Names longer than the entry's field enter only through `Trunc`; the instances
  use names that fit, as `writefs` does by cutting them first.
* The build does not reorder or merge accesses to statics (no optimisation is
  requested): Sched, Mouse and Console take them one by one.
* The handler's echo and the readers' output belong to Console.
* The 8042's output buffer is left out of Irq.
* The programs above fs.c take each of its calls for one step: no caller looks at the
  store in the middle of one, no handler touches it, and by `FsImplementsFileStore` the
  steps before the last change nothing that a call which breaks off would not. The
  stores of Config, Package and Editor start as FileStore's do; the editor's session
  starts on a mounted volume.
* Which entries lie in the stored sector depends in the code on the slots other programs
  have taken; FileStore leaves it open for every new file.
* Config counts a text in parts between `=` characters, not in characters; Package has
  its manifests parsed, and an index that fits its file (12 entries of at most 68
  bytes in 2048); Editor counts a line in words.
* Password hashes are taken to be distinct; roles and full names are only shown.
* Ticks of the services' stamps do not wrap (64 bits).

## Not modelled

Drawing, the settings panels (filled once before the configuration is there, and not
drawn at the size of the framebuffer) and the file views of `gui/`: pixel output. The
file browser's listing and the commands that only print. Serial output and the
other conversions of `kprintf`. Checksums, headers and the parsing of addresses.
`boot.S`, the GDT and the stubs: straight-line set-up. Functions without a caller
(`fs_fsck`, `user_enable`, `mouse_poll_packet`, the window manager's clicks):
nothing reaches their state; `mouse_poll_packet` would race with the handler for
`packet_ready`. The hazard that a call of `fs_read_file` for 256 blocks asks the driver
for 0 is out of reach: no caller writes a file that long.

## Plan

1. Done: all modules above, and the proofs listed.
2. The file browser's listing over Fs, and clicks, once the kernel delivers them.
