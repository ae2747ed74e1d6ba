CONSTANTS
    VGA_SCROLLBACK_ROWS = 5
    VGA_CONTENT_WIDTH = 2
    VGA_CONTENT_HEIGHT = 2
    Chars = {" "}
    Colors = {7, 12}
    MaxDropped = 2
SPECIFICATION Spec
INVARIANTS
    ScreenCurrent
PROPERTY
    ImplementsRoll
