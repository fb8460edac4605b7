\* The smallest screen, and an echo that fits its line.
SPECIFICATION ConsoleSpec
CONSTANTS
    VGA_ROWS = 2
    VGA_COLS = 3
    EchoPrefix = 1
INVARIANT BackspaceStaysInLine
