SPECIFICATION BookMapSpec
CONSTANTS
    Paragraphs <- MCPlainParagraphs
    Declarations <- MCDeclarations
    StubParas = 1
    StubWords = 2
    MaxTyped = 4
INVARIANT SameBylines
CHECK_DEADLOCK FALSE
