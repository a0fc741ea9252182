\* The client stops when both streams are complete.
CONSTANTS
    Texts <- MixedTexts
    MaxBytes = 6
    PageSizes = {3, 4}
    NoManifest = NoManifest
SPECIFICATION Spec
INVARIANTS QuotaHeld NoGap ManifestAttests CursorAdvances PagesWhole TruncationTold
PROPERTY OutputEnds
CHECK_DEADLOCK FALSE
