SPECIFICATION Spec
CONSTANTS
    Mistyped = Mistyped
    Texts <- MCTexts
    Switches <- MCSwitches
    Numbers <- MCNumbers
    Default <- MCDefault
    Options <- MCOptions
    Files <- MCFiles
INVARIANTS
    PlainOnlyIfAsked
    NoPauseOnlyFromFile
    DefaultUnlessGiven
CHECK_DEADLOCK FALSE
