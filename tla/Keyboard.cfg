SPECIFICATION FairSpec
CONSTANTS
    KEYBUF_SIZE = 3
    LINE_MAX = 3
    Keys = {"letter", "tab", "bs", "enter", "f1"}
    Chars = {"a", "A", "space", "tab", "bs", "nl"}
    Ascii <- MCAscii
    AsciiShift <- MCAsciiShift
    SerialInput = {"a", "nl"}
    Printable = {"a", "A", "space"}
    NUL = "nul"
    Newline = "nl"
    Backspace = "bs"
    Tab = "tab"
    Space = "space"
INVARIANTS LoadedIsOldest LineFits
PROPERTIES RingIsFifo DropsOnlyWhenFull KeysAreRead
