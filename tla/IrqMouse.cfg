SPECIFICATION IrqFairSpec
CONSTANTS
    Lines = {0, 1, 12}
    Main = Main
PROPERTIES MouseServed
