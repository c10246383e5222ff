SPECIFICATION Spec
CONSTANTS
    HeldKeys = {"letter", "right"}
    Fingers = {1, 2}
    Typed <- TypedVal
    Clipboard <- ValidClip
    Urls <- UrlsVal
    MaxBytes = 3
PROPERTY TapStays
