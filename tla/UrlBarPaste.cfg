SPECIFICATION Spec
CONSTANTS
    HeldKeys = {"letter", "right"}
    Fingers = {1}
    Typed <- TypedVal
    Clipboard <- Latin1Clip
    Urls <- UrlsVal
    MaxBytes = 3
INVARIANT CaretOnBoundary
