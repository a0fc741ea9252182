CONSTANTS
    Texts <- AccentedText
    MaxBytes = 4
    PageSizes = {4}
    NoManifest = NoManifest
SPECIFICATION Spec
INVARIANT CompleteIsTheEnd
CHECK_DEADLOCK FALSE
