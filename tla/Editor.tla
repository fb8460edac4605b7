------------------------------- MODULE Editor -------------------------------
(***************************************************************************)
(* kernel/editor/editor.c: one editing session at a time on the file        *)
(* `path`. A line is the sequence of its words; a load keeps                *)
(* EDITOR_LINE_MAX of them and EDITOR_MAX_LINES lines of the file, and      *)
(* drops the rest in silence.                                               *)
(***************************************************************************)
EXTENDS FileStore, SequencesExt

CONSTANTS
    path,
    EDITOR_MAX_LINES, EDITOR_LINE_MAX,
    TypedLines,     \* what a user may type
    OldTexts        \* what the file may hold at first: lines, or NoFile

VARIABLES
    lines, cursor, dirty,
    editing,        \* editor_run is in its loop
    savedLines,     \* bookkeeping: the buffer at the load or at the last good save
    saveFailed      \* bookkeeping: a save failed since
editorVars == <<storeVars, lines, cursor, dirty, editing, savedLines, saveFailed>>

Blank == <<>>
Clipped(line) == SubSeq(line, 1, IF Len(line) > EDITOR_LINE_MAX THEN EDITOR_LINE_MAX ELSE Len(line))

\* editor_load: a file that cannot be read is taken for a new one.
editor_load(text) ==
    IF text \in {NoFile, Unreadable} THEN <<>>
    ELSE IF text = <<>> THEN <<Blank>>
    ELSE [i \in 1 .. (IF Len(text) > EDITOR_MAX_LINES THEN EDITOR_MAX_LINES ELSE Len(text))
            |-> Clipped(text[i])]

\* An empty buffer is saved as one newline.
Written == IF lines = <<>> THEN <<Blank>> ELSE lines

EditorInit ==
    /\ \E text \in OldTexts : files = [n \in FileNames |-> IF n = path THEN text ELSE NoFile]
    /\ disk = files /\ mounted = TRUE /\ unstored = {} /\ loose = {}
    /\ lines = <<>> /\ cursor = 0 /\ dirty = FALSE /\ editing = FALSE
    /\ savedLines = <<>> /\ saveFailed = FALSE

EditorOpens ==
    /\ ~editing
    /\ \E text \in {files[path], Unreadable} : lines' = editor_load(text)
    /\ savedLines' = lines'
    /\ cursor' = 0 /\ dirty' = FALSE /\ editing' = TRUE /\ saveFailed' = FALSE
    /\ UNCHANGED storeVars

Edits(newLines, newCursor) ==
    /\ editing
    /\ lines' = newLines /\ cursor' = newCursor
    /\ dirty' = TRUE
    /\ UNCHANGED <<storeVars, editing, savedLines, saveFailed>>

InsertLine(line) ==
    Len(lines) < EDITOR_MAX_LINES /\ Edits(InsertAt(lines, cursor + 1, line), cursor)

AppendLine(line) ==
    Len(lines) < EDITOR_MAX_LINES /\ Edits(Append(lines, line), Len(lines))

\* Mutant: a deletion is no change worth saving.
DeleteKeepsClean ==
    /\ editing /\ lines # <<>>
    /\ lines' = RemoveAt(lines, cursor + 1)
    /\ cursor' = IF cursor >= Len(lines) - 1 /\ cursor > 0 THEN cursor - 1 ELSE cursor
    /\ UNCHANGED <<storeVars, dirty, editing, savedLines, saveFailed>>

DeleteLine ==
    /\ lines # <<>>
    /\ Edits(RemoveAt(lines, cursor + 1),
             IF cursor >= Len(lines) - 1 /\ cursor > 0 THEN cursor - 1 ELSE cursor)

MoveCursor ==
    /\ editing
    /\ \/ cursor + 1 < Len(lines) /\ cursor' = cursor + 1
       \/ cursor > 0 /\ cursor' = cursor - 1
    /\ UNCHANGED <<storeVars, lines, dirty, editing, savedLines, saveFailed>>

SaveSucceeds ==
    /\ editing
    /\ fs_write_file(path, Written)
    /\ savedLines' = lines /\ saveFailed' = FALSE
    /\ UNCHANGED <<lines, cursor>>

EditorSaveFails ==
    /\ editing
    /\ WriteFails(path, Written)
    /\ saveFailed' = TRUE
    /\ UNCHANGED <<lines, cursor, savedLines, editing>>

\* "s" calls the buffer clean whatever the save returned; "wq" stays if it failed.
SaveCommand ==
    /\ dirty' = FALSE
    /\ \/ SaveSucceeds /\ UNCHANGED editing
       \/ EditorSaveFails
SaveAndQuit ==
    /\ UNCHANGED dirty
    /\ \/ SaveSucceeds /\ editing' = FALSE
       \/ EditorSaveFails

Quit ==
    /\ editing /\ ~dirty
    /\ editing' = FALSE
    /\ UNCHANGED <<storeVars, lines, cursor, dirty, savedLines, saveFailed>>

RebootEditor ==
    /\ PowerCycle
    /\ lines' = <<>> /\ cursor' = 0 /\ dirty' = FALSE /\ editing' = FALSE
    /\ savedLines' = <<>> /\ saveFailed' = FALSE

EditorNext ==
    \/ EditorOpens \/ Quit \/ RebootEditor
    \/ \E line \in TypedLines : InsertLine(line) \/ AppendLine(line)
    \/ DeleteLine \/ MoveCursor
    \/ SaveCommand \/ SaveAndQuit

-----------------------------------------------------------------------------
\* editor_run: "q" leaves only a buffer that shows what was last read or saved,
\* provided that the last save, if any, succeeded.
QuitKeepsText == [][Quit /\ ~saveFailed => lines = savedLines]_editorVars

\* editor.c:260: "unsaved changes; type wq to save and quit" - "q" never leaves
\* changes behind that were not saved.
QuitLosesNothing == [][Quit => lines = savedLines]_editorVars

\* The editor by itself.
EditorSpec == EditorInit /\ [][EditorNext]_editorVars
=============================================================================
