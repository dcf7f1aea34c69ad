CONSTANTS
    Letters = {"a", "b"}
    Chars = {"a", "A", "b"}
    NumStrings = 3
    MaxString = 3
    MaxText = 3
SPECIFICATION Spec
INVARIANTS Answers Counted
PROPERTIES Resumes SpacesStay
CHECK_DEADLOCK FALSE
