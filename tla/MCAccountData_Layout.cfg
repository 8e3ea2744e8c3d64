SPECIFICATION Spec
CONSTANTS
    BASE = 2
    U64_BYTES = 2
    USIZE = 24
    Fields <- MCFields
    Sizes = {0, 1, 5}
    Values <- MCValues
    Foreign <- MCForeign
    NoAnswer = NoAnswer
INVARIANTS
    FieldsReadBack
    SlicesStayInside
    AnswerIsLowHalf
