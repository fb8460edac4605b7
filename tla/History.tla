------------------------------- MODULE History -------------------------------
(***************************************************************************)
(* The command history of kernel/shell/shell.c and its use in               *)
(* shell_execute. A line is <<indented, word>>. A line typed with blanks in *)
(* front is copied back with its blanks before it is compared with the      *)
(* commands, so that it matches none of them, but it is stored nonetheless. *)
(***************************************************************************)
EXTENDS Integers, Sequences

CONSTANTS
    SHELL_HISTORY_MAX,
    Words               \* commands, "history" and "clearhist" among them

ASSUME HistoryAssumption == SHELL_HISTORY_MAX \in Nat \ {0}

VARIABLES
    shell_history, shell_history_count, shell_history_next,
    ran                 \* the command executed last, "unknown" or "none"
historyVars == <<shell_history, shell_history_count, shell_history_next, ran>>

Lines == BOOLEAN \X Words
Managing(line) == line \in {<<FALSE, "history">>, <<FALSE, "clearhist">>}

HistoryInit ==
    /\ shell_history = [i \in 0 .. SHELL_HISTORY_MAX - 1 |-> <<>>]
    /\ shell_history_count = 0 /\ shell_history_next = 0
    /\ ran = "none"

\* Mutant: the oldest entry is taken to be in slot 0.
GetFromZero(index) == shell_history[index]
shell_history_get(index) ==
    LET start == (shell_history_next + SHELL_HISTORY_MAX - shell_history_count) % SHELL_HISTORY_MAX
    IN shell_history[(start + index) % SHELL_HISTORY_MAX]

shell_history_add(line) ==
    /\ shell_history' = [shell_history EXCEPT ![shell_history_next] = line]
    /\ shell_history_next' = (shell_history_next + 1) % SHELL_HISTORY_MAX
    /\ shell_history_count' =
         IF shell_history_count < SHELL_HISTORY_MAX THEN shell_history_count + 1
         ELSE shell_history_count

shell_history_clear ==
    /\ shell_history' = [i \in 0 .. SHELL_HISTORY_MAX - 1 |-> <<>>]
    /\ shell_history_count' = 0 /\ shell_history_next' = 0

Executes(line) == ran' = IF line[1] THEN "unknown" ELSE line[2]

TypeLine(line) ==
    /\ Executes(line)
    /\ IF line = <<FALSE, "clearhist">> THEN shell_history_clear
       ELSE IF Managing(line)
            THEN UNCHANGED <<shell_history, shell_history_count, shell_history_next>>
            ELSE shell_history_add(line)

\* "!n", and "!!" for the last: the entry is stored again out of the ring itself.
Recall(n) ==
    /\ n \in 1 .. shell_history_count
    /\ Executes(shell_history_get(n - 1))
    /\ shell_history_add(shell_history_get(n - 1))

HistoryNext ==
    \/ \E line \in Lines : TypeLine(line)
    \/ \E n \in 1 .. SHELL_HISTORY_MAX : Recall(n)

HistorySpec == HistoryInit /\ [][HistoryNext]_historyVars

-----------------------------------------------------------------------------
Listed == [i \in 1 .. shell_history_count |-> shell_history_get(i - 1)]

History == INSTANCE Recent WITH Items <- Lines \ {<<FALSE, "history">>, <<FALSE, "clearhist">>},
                                Max <- SHELL_HISTORY_MAX, list <- Listed

\* shell.c: what `history` lists, and "!n" indexes, are the newest lines in the
\* order they ran; a recall at the limit overwrites the slot it reads from.
HistoryIsRecent == History!RecentSpec
=============================================================================
