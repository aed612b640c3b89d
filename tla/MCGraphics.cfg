\* Five calls: all of the kinds that draw, and the two that create.
CONSTANTS
    Screens <- SomeScreens
    PageWords = 2
    Words = 40
    Font <- SomeFont
    GlyphWidth = 1
    GlyphHeight = 2
    Strings <- SomeStrings
    Images <- SomeImages
    Windows <- SomeWindows
    Places <- SomePlaces
    MaxCalls = 5
SPECIFICATION Spec
PROPERTIES ImplementsCanvas OnlyOwnMemory
\* The bound on the calls.
CHECK_DEADLOCK FALSE
