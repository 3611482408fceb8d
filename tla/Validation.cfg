SPECIFICATION Spec
CONSTANTS
    MinPassword = 3
    OtherFields = {"email"}
    Typed = {"lower", "digit", "special", "space"}
    OtherTexts <- ShortTexts
    MaxTyped = 5
INVARIANTS TypeOK SentAsChecked
PROPERTIES SamePasswordBothWays
