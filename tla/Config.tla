------------------------------- MODULE Config -------------------------------
(***************************************************************************)
(* kernel/config/config.c with the commands set, savecfg, loadcfg and       *)
(* loglevel, the boot's use of it, and the log level that follows it.       *)
(* A text is the sequence of its parts between "=" characters, so that the  *)
(* line of an entry is key \o value and a load takes the first part for the *)
(* key. The file has room for FileParts parts: the line at the limit is cut.*)
(***************************************************************************)
EXTENDS FileStore, SequencesExt

CONSTANTS
    CONFIG_FILE_NAME, CONFIG_ENTRY_MAX, FileParts,
    config_defaults,            \* a sequence of entries
    Settings,                   \* the entries a user may set
    Levels,                     \* the log levels' names
    OtherFiles                  \* files that other programs write

LogKey == <<"loglevel">>
EmptyKey == <<"">>
Entries == [key : Seq(STRING) \ {<<>>}, value : Seq(STRING) \ {<<>>}]

\* The defaults have keys of their own, none empty, a slot each, and a log level among
\* them; a text is neither of the two other answers of a read.
ASSUME ConfigAssumption ==
    /\ CONFIG_FILE_NAME \in FileNames /\ OtherFiles \subseteq FileNames \ {CONFIG_FILE_NAME}
    /\ Leftovers[CONFIG_FILE_NAME] \subseteq Seq(Seq(STRING))
    /\ CONFIG_ENTRY_MAX \in Nat /\ FileParts \in Nat
    /\ config_defaults \in Seq(Entries) /\ Len(config_defaults) <= CONFIG_ENTRY_MAX
    /\ \A i, j \in DOMAIN config_defaults : config_defaults[i].key = config_defaults[j].key => i = j
    /\ \A i \in DOMAIN config_defaults : config_defaults[i].key # EmptyKey
    /\ \E i \in DOMAIN config_defaults : config_defaults[i].key = LogKey
    /\ Settings \subseteq Entries /\ {"loglevel", "torn"} \cup Levels \subseteq STRING
    /\ {NoFile, Unreadable} \cap Seq(Seq(STRING)) = {}

VARIABLES
    config_entries,             \* the used slots; none is ever freed alone
    log_minimum_level,
    saved                       \* bookkeeping: the table that a load of the file finds
                                \* now, and after a power cycle; {}: nothing promised
configVars == <<storeVars, config_entries, log_minimum_level, saved>>

config_find_index(table, key) == {i \in DOMAIN table : table[i].key = key}
Value(table, key) == {table[i].value : i \in config_find_index(table, key)}

\* An empty key is refused.
config_set(table, entry) ==
    IF entry.key = EmptyKey THEN table
    ELSE IF config_find_index(table, entry.key) # {}
    THEN [i \in DOMAIN table |-> IF table[i].key = entry.key THEN entry ELSE table[i]]
    ELSE IF Len(table) < CONFIG_ENTRY_MAX THEN Append(table, entry)
    ELSE table

-----------------------------------------------------------------------------
(* The text of a table: whole lines, then at most one that is cut.          *)

Line(entry) == entry.key \o entry.value
Torn == "torn"
Cut(line, room) == [i \in 1 .. room |-> IF i = room THEN Torn ELSE line[i]]
Used(lines) == FoldLeft(LAMBDA n, line : n + Len(line), 0, lines)
Room(lines) == FileParts - Used(lines)
AddLine(lines, entry) ==
    IF Len(Line(entry)) <= Room(lines) THEN Append(lines, Line(entry))
    ELSE IF Room(lines) = 0 THEN lines ELSE Append(lines, Cut(Line(entry), Room(lines)))
Text(table) == FoldLeft(AddLine, <<>>, table)

\* A line without "=" is skipped.
Parsed(table, line) ==
    IF Len(line) < 2 THEN table
    ELSE config_set(table, [key |-> <<Head(line)>>, value |-> Tail(line)])

\* Mutant: the defaults go in on top of the file.
DefaultsOnTop(text) ==
    FoldLeft(config_set, FoldLeft(Parsed, <<>>, IF text \in {NoFile, Unreadable} THEN <<>> ELSE text), config_defaults)

\* What config_load leaves; a file that cannot be read leaves the defaults.
config_load(text) ==
    FoldLeft(Parsed, config_defaults, IF text \in {NoFile, Unreadable} THEN <<>> ELSE text)

\* The log level after a load, when the loaded value names one.
Followed(table, level) ==
    IF \E l \in Levels : <<l>> \in Value(table, LogKey)
    THEN CHOOSE l \in Levels : <<l>> \in Value(table, LogKey)
    ELSE level

-----------------------------------------------------------------------------
ConfigInit ==
    /\ StoreInit
    /\ config_entries = config_defaults
    /\ log_minimum_level = "info"
    /\ saved = [memory |-> {config_defaults}, disk |-> {config_defaults}]

SetSetting(entry) ==
    /\ config_entries' = config_set(config_entries, entry)
    /\ UNCHANGED <<storeVars, log_minimum_level, saved>>

\* Mutant: config_set is called with the name of the old level.
LogLevelLate(level) ==
    /\ log_minimum_level' = level
    /\ config_entries' = config_set(config_entries, [key |-> LogKey, value |-> <<log_minimum_level>>])
    /\ UNCHANGED <<storeVars, saved>>

LogLevel(level) ==
    /\ log_minimum_level' = level
    /\ config_entries' = config_set(config_entries, [key |-> LogKey, value |-> <<level>>])
    /\ UNCHANGED <<storeVars, saved>>

\* A table that its text holds whole: nothing is cut, no key contains "=".
Faithful(table) ==
    /\ Used([i \in DOMAIN table |-> Line(table[i])]) <= FileParts
    /\ \A i \in DOMAIN table : Len(table[i].key) = 1

Promise(table) == IF Faithful(table) THEN {table} ELSE {}

\* What the disk promises when the file in memory promises this and its entry was stored,
\* or lies outside the sector that is stored.
Stored(memory) == IF CONFIG_FILE_NAME \in unstored' THEN {config_defaults} ELSE memory

\* The file in memory promises this; the one on the disk what it did, or what was stored.
Promises(memory) ==
    saved' = [memory |-> memory,
              disk |-> IF disk'[CONFIG_FILE_NAME] = disk[CONFIG_FILE_NAME]
                       THEN saved.disk ELSE Stored(memory)]

config_save ==
    /\ fs_write_file(CONFIG_FILE_NAME, Text(config_entries))
    /\ saved' = [memory |-> Promise(config_entries), disk |-> Stored(Promise(config_entries))]
    /\ UNCHANGED <<config_entries, log_minimum_level>>

SaveFails ==
    /\ WriteFails(CONFIG_FILE_NAME, Text(config_entries))
    /\ Promises(IF files' = files THEN saved.memory
                ELSE IF files'[CONFIG_FILE_NAME] = Text(config_entries) THEN Promise(config_entries)
                ELSE {})
    /\ UNCHANGED <<config_entries, log_minimum_level>>

\* Another program writes or deletes a file of its own; either stores the whole table
\* of files.
OtherFile(name) ==
    /\ fs_write_file(name, <<>>) \/ WriteFails(name, <<>>) \/ fs_delete_file(name)
    /\ Promises(saved.memory)
    /\ UNCHANGED <<config_entries, log_minimum_level>>

Loads(text, level) ==
    /\ config_entries' = config_load(text)
    /\ log_minimum_level' = Followed(config_entries', level)

\* Any read of the file may fail.
LoadSettings ==
    /\ \E text \in {files[CONFIG_FILE_NAME], Unreadable} : Loads(text, log_minimum_level)
    /\ UNCHANGED <<storeVars, saved>>

\* Power fails; kmain loads the configuration after log_init and fs_init.
RebootConfig ==
    /\ PowerCycle
    /\ \E text \in {files'[CONFIG_FILE_NAME], Unreadable} : Loads(text, "info")
    /\ LET found == IF disk'[CONFIG_FILE_NAME] = disk[CONFIG_FILE_NAME]
                    THEN saved.disk ELSE {config_defaults}
       IN saved' = [memory |-> IF mounted' THEN found ELSE {config_defaults}, disk |-> found]

ConfigNext ==
    \/ \E entry \in Settings : SetSetting(entry)
    \/ \E level \in Levels : LogLevel(level)
    \/ config_save \/ SaveFails
    \/ \E name \in OtherFiles : OtherFile(name)
    \/ LoadSettings \/ RebootConfig

ConfigSpec == ConfigInit /\ [][ConfigNext]_configVars

-----------------------------------------------------------------------------
\* The load did read the file.
Reads(text) == config_entries' = config_load(text)

\* config.c, docs/19: what an acknowledged savecfg wrote is what loadcfg finds, and a
\* boot if the file's entry lies in the stored sector; otherwise a boot finds the
\* defaults. The text must hold the table whole, which save does not check. A save that
\* fails takes the promise from loadcfg, and from the next boot only if another file is
\* written before the power fails; a delete whose store fails takes it from no other file.
SavedIsLoaded ==
    [][(LoadSettings \/ RebootConfig) /\ Reads(files'[CONFIG_FILE_NAME])
         /\ saved'.memory # {} => config_entries' \in saved'.memory]_configVars

LevelAgrees == <<log_minimum_level>> \in Value(config_entries, LogKey)
LevelNamed == \E l \in Levels : <<l>> \in Value(config_entries, LogKey)
\* shell_execute, kmain: the level the log filters by is the one the configuration
\* shows, and a load restores that; only a `set loglevel`, which changes the entry
\* alone, or a value that names no level drives them apart.
LevelFollows ==
    [][(LevelAgrees \/ LoadSettings \/ RebootConfig) /\ LevelNamed' /\ ~(\E e \in Settings : SetSetting(e))
         => LevelAgrees']_configVars
=============================================================================
