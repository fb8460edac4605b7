------------------------------- MODULE Package -------------------------------
(***************************************************************************)
(* kernel/package/package.c: a package is installed by writing its files    *)
(* one by one and the index last; the table in memory is read back from the *)
(* index at boot. A manifest is already parsed here: its files in order, a  *)
(* line without "|" being one whose name is NoFile. The index fits its file *)
(* (12 entries of at most 68 bytes in 2048). Its content here is the set of *)
(* entries that a text of it parses to.                                     *)
(***************************************************************************)
EXTENDS FileStore

CONSTANTS
    PACKAGE_INDEX_FILE, PACKAGE_ENTRY_MAX,
    Manifests       \* records: source, name, version, files

ASSUME PackageAssumption ==
    /\ PACKAGE_INDEX_FILE \in FileNames
    /\ \A manifest \in Manifests :
        /\ Len(manifest.files) \in Nat
        /\ DOMAIN manifest.files = 1 .. Len(manifest.files)
        /\ \A i \in DOMAIN manifest.files :
            /\ manifest.files[i].file \in FileNames \cup {NoFile}
            /\ manifest.files[i].content \notin {NoFile, Unreadable}

VARIABLES
    package_entries,    \* the used slots
    installing,         \* the manifest at work, and its next line
    disturbed,          \* bookkeeping: packages whose last install did not end well
    sound,              \* bookkeeping: which lists of packages - the table, the index in
                        \* memory, the one on disk - no other writer or failed write has
                        \* mixed up
    missing             \* bookkeeping: files that lay outside the stored sector when they
                        \* were last written and are not on the disk
packageVars == <<storeVars, package_entries, installing, disturbed, sound, missing>>

Idle == <<>>
Names(entries) == {e.name : e \in entries}
Index(store) == IF store[PACKAGE_INDEX_FILE] \in {NoFile, Unreadable} THEN {}
                ELSE store[PACKAGE_INDEX_FILE]

PackageInit ==
    /\ StoreInit
    /\ package_entries = {} /\ installing = Idle /\ disturbed = {} /\ missing = {}
    /\ sound = [table |-> TRUE, memory |-> TRUE, disk |-> TRUE]

\* package_load_index looks for the count behind the last "|" at the "|" it has
\* just replaced, and always finds 0.
package_load_index(text) ==
    IF text \in {NoFile, Unreadable} THEN {} ELSE {[e EXCEPT !.installed_files = 0] : e \in text}

\* The index is as it was.
Same(after, before) == after[PACKAGE_INDEX_FILE] = before[PACKAGE_INDEX_FILE]

\* The index in memory is this sound; the one on disk is as it was, or the same.
Follows(memory) ==
    sound' = [sound EXCEPT !.memory = memory, !.disk = IF Same(disk', disk) THEN @ ELSE memory]

\* package_save_index ignores what the write returns.
package_save_index(entries) ==
    /\ fs_write_file(PACKAGE_INDEX_FILE, entries) \/ WriteFails(PACKAGE_INDEX_FILE, entries)
    /\ Follows(\/ Same(files', files) /\ sound.memory
               \/ files'[PACKAGE_INDEX_FILE] = entries /\ sound.table)

\* Packages that an install of this manifest writes over: nothing keeps the files of
\* two packages apart.
FilesOf(manifest) == {manifest.files[i].file : i \in DOMAIN manifest.files} \ {NoFile}
WritesOver(manifest) ==
    {manifest.name} \cup
        {m.name : m \in {m \in Manifests : FilesOf(m) \cap FilesOf(manifest) # {}}}

InstallBegins(manifest) ==
    /\ installing = Idle
    /\ installing' = <<manifest, 1>>
    /\ disturbed' = disturbed \cup WritesOver(manifest)
    /\ UNCHANGED <<storeVars, package_entries, sound>>

InstallFile ==
    /\ installing # Idle
    /\ LET manifest == installing[1]
           i == installing[2]
       IN /\ i <= Len(manifest.files)
          /\ LET line == manifest.files[i] IN
             \/ /\ line.file # NoFile
                /\ fs_write_file(line.file, line.content)
                /\ installing' = <<manifest, i + 1>>
             \/ line.file = NoFile /\ installing' = Idle /\ UNCHANGED storeVars
             \/ line.file # NoFile /\ WriteFails(line.file, line.content) /\ installing' = Idle
    /\ Follows(Same(files', files) /\ sound.memory)
    /\ UNCHANGED <<package_entries, disturbed>>

\* Mutant: the package is recorded before its last file.
RecordEarly(manifest, next) == next >= Len(manifest.files)
Unpacked(manifest, next) == next > Len(manifest.files)

InstallRecord ==
    /\ installing # Idle
    /\ Unpacked(installing[1], installing[2])
    /\ LET manifest == installing[1]
           others == {e \in package_entries : e.name # manifest.name}
           entry == [name |-> manifest.name, version |-> manifest.version,
                     source |-> manifest.source, installed_files |-> Len(manifest.files)]
       IN IF Cardinality(others) < PACKAGE_ENTRY_MAX
          THEN /\ package_entries' = others \cup {entry}
               /\ package_save_index(package_entries')
               /\ disturbed' = IF {files'[PACKAGE_INDEX_FILE], disk'[PACKAGE_INDEX_FILE]} = {package_entries'}
                               THEN disturbed \ {manifest.name} ELSE disturbed
          ELSE UNCHANGED <<storeVars, package_entries, disturbed, sound>>
    /\ installing' = Idle

\* The record only: the files stay.
package_remove(name) ==
    /\ installing = Idle /\ name \in Names(package_entries)
    /\ package_entries' = {e \in package_entries : e.name # name}
    /\ package_save_index(package_entries')
    /\ UNCHANGED <<installing, disturbed>>

\* Power fails, in the middle of an install perhaps; package_init at the next boot.
RebootPackage ==
    /\ PowerCycle
    /\ \E text \in {files'[PACKAGE_INDEX_FILE], Unreadable} : package_entries' = package_load_index(text)
    /\ LET found == ~Same(disk', disk) \/ sound.disk
       IN sound' = [table |-> mounted' => found, memory |-> mounted' => found, disk |-> found]
    /\ installing' = Idle
    /\ UNCHANGED disturbed

PackageNext ==
    /\ \/ \E manifest \in Manifests : InstallBegins(manifest) \/ package_remove(manifest.name)
       \/ InstallFile \/ InstallRecord
       \/ RebootPackage
    /\ missing' = {n \in missing \cup unstored' : disk'[n] = NoFile}

-----------------------------------------------------------------------------
\* An entry of the index comes from this manifest; the count is lost at every load.
EntryOf(e, m) ==
    e = [name |-> m.name, version |-> m.version, source |-> m.source,
         installed_files |-> e.installed_files]

\* What the i-th of the first n lines wrote is not written again by a later one, nor by
\* the index.
Lasts(m, i, n) ==
    /\ m.files[i].file # PACKAGE_INDEX_FILE
    /\ \A j \in i + 1 .. n : m.files[j].file # m.files[i].file

\* package_install: files first, index last. A package the index on the disk lists
\* has its files there, whatever failed and wherever power was lost, but for those whose
\* entry lay outside the stored sector; and with the listed version's contents, unless
\* a later install of it, or of a package that shares a file with it, wrote over them.
\* Only a write of the index itself that broke off, or was a manifest's, and another
\* write after it, can spoil the list.
InstalledIsWhole ==
    sound.disk => \A e \in Index(disk) : \E m \in Manifests :
        /\ EntryOf(e, m)
        /\ \A i \in DOMAIN m.files :
            LET f == m.files[i].file
            IN \/ f \in missing
               \/ /\ disk[f] # NoFile
                  /\ e.name \notin disturbed /\ Lasts(m, i, Len(m.files))
                        => disk[f] = m.files[i].content

\* The package manager by itself.
PackageSpec == PackageInit /\ [][PackageNext]_packageVars
=============================================================================
