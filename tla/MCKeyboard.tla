------------------------------ MODULE MCKeyboard ------------------------------
EXTENDS Keyboard, TLC

\* The main block of the keyboard in four keys: a letter, Tab, Backspace and
\* Enter; "f1" stands for the keys both tables map to 0.
MCAscii ==
    "letter" :> "a" @@ "tab" :> "tab" @@ "bs" :> "bs" @@ "enter" :> "nl" @@ "f1" :> "nul"
MCAsciiShift ==
    "letter" :> "A" @@ "tab" :> "tab" @@ "bs" :> "bs" @@ "enter" :> "nl" @@ "f1" :> "nul"

=============================================================================
