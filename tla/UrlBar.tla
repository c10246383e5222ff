------------------------------- MODULE UrlBar -------------------------------
(***************************************************************************)
(* Typing into veron-browser: the seat of the WPE platform                  *)
(* (wpe-veron-seat.c), which decides whether an event is the page's or the  *)
(* strip's, and the URL field of the strip (chrome.c and the handlers of    *)
(* main.c).                                                                 *)
(*                                                                         *)
(* Two flags say who has the keyboard: chromeFocus on the toplevel routes   *)
(* keys, focused in the field accepts them.  Keys repeat by a timer of the  *)
(* client, which a wl_keyboard that goes away does not stop.  The field is  *)
(* a byte string with two byte offsets into it.                             *)
(*                                                                         *)
(* A byte is a letter "w", a separator "s", or the lead "L" or trail "T" of *)
(* a two-byte letter.  Click coordinates, times and fonts are choices; the  *)
(* buttons of the strip other than the field only matter by what they do to *)
(* the focus.  The compositor, the page and other clients are external.     *)
(***************************************************************************)
EXTENDS Integers, Sequences, FiniteSets, FiniteSetsExt

CONSTANTS
    HeldKeys,    \* keys that are held long enough to repeat
    Fingers,     \* ids of touch points
    Typed,       \* what a key inserts: UTF-8 of one character
    Clipboard,   \* what other clients offer to paste
    Urls,        \* what the page reports
    MaxBytes     \* bound on the field

\* What a key does to the field; letters include the control combinations, since
\* the modifiers are those of the moment of each repeat.
Keys == {"letter", "backspace", "delete", "left", "right", "home", "end", "return", "escape"}

ASSUME UrlBarAssumption ==
    /\ HeldKeys \subseteq Keys
    /\ \A t \in Typed \cup Clipboard \cup Urls : t \in Seq({"w", "s", "L", "T"})
    /\ <<>> \notin Typed
    /\ MaxBytes \in Nat

VARIABLES
    pointer,      \* pointerSurface: "none", "strip", "page"
    button1,      \* the pointer-button bit of the seat's modifiers
    wlKeyboard,   \* the wl_keyboard: "gone", or the compositor's focus "in", "out"
    keyboard,     \* keyboardToplevel is set
    held,         \* keys that are down, of which this window will hear the release
    repeatKey,    \* repeatKeycode, with its timer; "none" when idle
    orphaned,     \* the wl_keyboard whose press started the repeat was released
    touchPoints,  \* per finger, where it went down, "up" when it is not down
    touchSurface,
    chromeFocus,  \* of the toplevel
    focused,      \* of the field
    editing, caret, anchor,
    url,
    selecting     \* Browser.selecting

pointerVars == <<pointer, button1>>
keyVars     == <<wlKeyboard, keyboard, held, repeatKey, orphaned>>
touchVars   == <<touchPoints, touchSurface>>
textVars    == <<editing, caret, anchor, url>>
fieldVars   == <<chromeFocus, focused, textVars, selecting>>
vars == <<pointerVars, keyVars, touchVars, fieldVars>>

Bytes == {"w", "s", "L", "T"}

TypeOK ==
    /\ pointer \in {"none", "strip", "page"}
    /\ button1 \in BOOLEAN
    /\ wlKeyboard \in {"gone", "out", "in"}
    /\ keyboard \in BOOLEAN
    /\ held \subseteq HeldKeys
    /\ repeatKey \in HeldKeys \cup {"none"}
    /\ orphaned \in BOOLEAN
    /\ touchPoints \in [Fingers -> {"up", "strip", "page"}]
    /\ touchSurface \in {"none", "strip", "page"}
    /\ chromeFocus \in BOOLEAN
    /\ focused \in BOOLEAN
    /\ editing \in Seq(Bytes)
    /\ caret \in Nat
    /\ anchor \in Nat
    /\ url \in Urls
    /\ selecting \in BOOLEAN

Init ==
    /\ pointer = "none" /\ button1 = FALSE
    /\ wlKeyboard = "gone" /\ keyboard = FALSE
    /\ held = {} /\ repeatKey = "none" /\ orphaned = FALSE
    /\ touchPoints = [f \in Fingers |-> "up"] /\ touchSurface = "none"
    /\ chromeFocus = FALSE /\ focused = FALSE /\ selecting = FALSE
    /\ url \in Urls
    /\ editing = url /\ caret = Len(url) /\ anchor = caret

(***************************************************************************)
(* UTF-8 and the field's text                                              *)
(***************************************************************************)

\* Mutant of PrevChar.
PrevByte(t, i) == i - 1

\* g_utf8_next_char goes by the lead byte, g_utf8_prev_char back over trails.
NextChar(t, i) == i + IF i < Len(t) /\ t[i + 1] = "L" THEN 2 ELSE 1
PrevChar(t, i) == Max({j \in 0 .. i - 1 : j = 0 \/ t[j + 1] # "T"})

\* Where a character starts, or the end of the text: all that selOffsetForX
\* answers for a click, as it walks by characters from the start.
Boundaries(t) == {i \in 0 .. Len(t) : i = Len(t) \/ t[i + 1] # "T"}

Erase(t, from, to) == SubSeq(t, 1, from) \o SubSeq(t, to + 1, Len(t))
Insert(t, at, s)   == SubSeq(t, 1, at) \o s \o SubSeq(t, at + 1, Len(t))

From == IF caret < anchor THEN caret ELSE anchor
To   == IF caret < anchor THEN anchor ELSE caret

\* The field's state after an edit: text, caret and anchor.
Field(t, c, a) == editing' = t /\ caret' = c /\ anchor' = a

\* selDelete
selDelete == Field(Erase(editing, From, To), From, From)

\* veron_chrome_insert: the selection goes, then the text comes; g_string_insert
\* refuses a position past the end, the caret moves all the same.
insert(s) ==
    LET t == Erase(editing, From, To)
        u == IF From <= Len(t) THEN Insert(t, From, s) ELSE t
    IN  IF s = <<>> THEN UNCHANGED <<editing, caret, anchor>>
        ELSE Len(u) <= MaxBytes /\ Field(u, From + Len(s), From + Len(s))

\* veron_chrome_backspace and veron_chrome_delete
backspace ==
    IF caret # anchor THEN selDelete
    ELSE IF caret = 0 THEN UNCHANGED <<editing, caret, anchor>>
    ELSE LET p == PrevChar(editing, caret)
         IN  Field(Erase(editing, p, caret), p, p)
delete ==
    IF caret # anchor THEN selDelete
    ELSE LET n == NextChar(editing, caret)
         IN  IF caret >= Len(editing) \/ n > Len(editing)
             THEN UNCHANGED <<editing, caret, anchor>>
             ELSE Field(Erase(editing, caret, n), caret, caret)

\* veron_chrome_move_caret_ex
Moved(direction, toEnd) ==
    IF toEnd THEN IF direction < 0 THEN 0 ELSE Len(editing)
    ELSE IF direction < 0 /\ caret > 0 THEN PrevChar(editing, caret)
    ELSE IF direction > 0 /\ caret < Len(editing) THEN NextChar(editing, caret)
    ELSE caret
moveCaret(direction, toEnd, extend) ==
    /\ UNCHANGED editing
    /\ IF ~extend /\ caret # anchor /\ ~toEnd
       THEN /\ caret' = IF direction < 0 THEN From ELSE To
            /\ anchor' = caret'
       ELSE /\ caret' = Moved(direction, toEnd)
            /\ anchor' = IF extend THEN anchor ELSE caret'

\* veron_chrome_word_at: the run of letters around the offset, or the separator
\* there.
WordAt(t, at) ==
    LET letters(i, j) == \A k \in i + 1 .. j : t[k] # "s"
        from == Min({i \in 0 .. at : i \in Boundaries(t) /\ letters(i, at)})
        to   == Max({j \in at .. Len(t) : j \in Boundaries(t) /\ letters(at, j)})
    IN  <<from, IF from = to /\ to < Len(t) THEN NextChar(t, to) ELSE to>>

(***************************************************************************)
(* Focus                                                                   *)
(***************************************************************************)

\* veron_chrome_set_focused: gaining focus starts from the page's URL.
Opened == IF focused THEN editing ELSE url

\* Mutant of GiveUpFocus.
GiveUpField ==
    /\ focused' = FALSE
    /\ UNCHANGED chromeFocus

\* veron_chrome_set_focused(FALSE) with wpe_toplevel_veron_set_chrome_focus.
GiveUpFocus ==
    /\ focused' = FALSE
    /\ chromeFocus' = FALSE

\* onChromeEvent, pointer down on the URL: the first click selects everything,
\* a double click a word, a later one places the caret and starts a drag.
ClickUrl(double) ==
    /\ focused' = TRUE
    /\ chromeFocus' = TRUE
    /\ \E at \in Boundaries(Opened) :
           IF double THEN /\ Field(Opened, WordAt(Opened, at)[2], WordAt(Opened, at)[1])
                          /\ UNCHANGED selecting
           ELSE IF ~focused THEN Field(Opened, Len(Opened), 0) /\ UNCHANGED selecting
           ELSE Field(editing, at, at) /\ selecting' = TRUE
    /\ UNCHANGED url

\* onChromeEvent, pointer down on the downloads, the menu or nothing; back,
\* forward and reload leave the focus alone.
ClickElsewhere ==
    /\ GiveUpFocus
    /\ UNCHANGED <<textVars, selecting>>

StripDown ==
    \/ \E double \in BOOLEAN : ClickUrl(double)
    \/ ClickElsewhere
    \/ UNCHANGED fieldVars

StripUp ==
    /\ selecting' = FALSE
    /\ UNCHANGED <<chromeFocus, focused, textVars>>

StripMove ==
    IF selecting /\ button1
    THEN /\ \E at \in Boundaries(editing) : Field(editing, at, anchor)
         /\ UNCHANGED <<chromeFocus, focused, url, selecting>>
    ELSE UNCHANGED fieldVars

\* wpeVeronToplevelDropChromeFocus and onChromeFocusLost
PageClicked ==
    /\ IF chromeFocus THEN GiveUpFocus ELSE UNCHANGED <<chromeFocus, focused>>
    /\ UNCHANGED <<textVars, selecting>>

(***************************************************************************)
(* Keys                                                                    *)
(***************************************************************************)

\* browserNavigate: nothing for an empty field; else the focus goes back.
Navigate ==
    /\ IF \E i \in 1 .. Len(editing) : TRUE THEN GiveUpFocus
       ELSE UNCHANGED <<chromeFocus, focused>>
    /\ UNCHANGED <<textVars, selecting>>

Edit(A) == A /\ UNCHANGED <<chromeFocus, focused, url, selecting>>

\* onChromeKey, for a key-down: any key with control pressed is no text, and
\* shift extends the selection.
ChromeKey(k) ==
    IF ~focused THEN UNCHANGED fieldVars
    ELSE \/ k = "letter" /\ \E s \in Typed : Edit(insert(s))
         \/ k = "letter" /\ Edit(Field(editing, Len(editing), 0))        \* control-A
         \/ k = "letter" /\ Edit(caret # anchor /\ selDelete)            \* control-X
         \/ k = "letter" /\ \E s \in Clipboard : Edit(insert(s))         \* control-V
         \/ k = "backspace" /\ Edit(backspace)
         \/ k = "delete" /\ Edit(delete)
         \/ /\ k \in {"left", "right", "home", "end"}
            /\ \E extend \in BOOLEAN :
                  Edit(moveCaret(IF k \in {"left", "home"} THEN -1 ELSE 1,
                                 k \in {"home", "end"}, extend))
         \/ k = "return" /\ Navigate
         \/ k = "escape" /\ GiveUpFocus /\ UNCHANGED <<textVars, selecting>>

\* veronSeatDispatchKey: to the strip when it has the focus, else to the page.
DispatchKey(k) == IF chromeFocus THEN ChromeKey(k) ELSE UNCHANGED fieldVars

\* veronSeatStopRepeat
StopRepeat == repeatKey' = "none" /\ orphaned' = FALSE

\* keyboardKey, pressed: the event, and a repeat of this key instead of any,
\* unless the compositor's rate or the keymap says that it does not repeat.
KeyDown(k) ==
    /\ wlKeyboard = "in" /\ k \notin held
    /\ DispatchKey(k)
    /\ held' = held \cup {k}
    /\ \/ repeatKey' = k /\ orphaned' = FALSE
       \/ StopRepeat
    /\ UNCHANGED <<wlKeyboard, keyboard, pointerVars, touchVars>>

\* Mutant of KeyUp.
KeyUpKeepsRepeat(k) ==
    /\ wlKeyboard = "in" /\ k \in held
    /\ held' = held \ {k}
    /\ UNCHANGED <<repeatKey, orphaned, wlKeyboard, keyboard, pointerVars, touchVars, fieldVars>>

\* keyboardKey, released: only the repeat of that key ends.
KeyUp(k) ==
    /\ wlKeyboard = "in" /\ k \in held
    /\ held' = held \ {k}
    /\ IF repeatKey = k THEN StopRepeat ELSE UNCHANGED <<repeatKey, orphaned>>
    /\ UNCHANGED <<wlKeyboard, keyboard, pointerVars, touchVars, fieldVars>>

\* keyboardKey twice, for a key that is up again before the repeat delay is over:
\* its press ends any other repeat, its release its own.
Tap(k) ==
    /\ wlKeyboard = "in" /\ k \notin held
    /\ DispatchKey(k)
    /\ StopRepeat
    /\ UNCHANGED <<wlKeyboard, keyboard, held, pointerVars, touchVars>>

\* veronSeatRepeatFirst and veronSeatRepeatTick
RepeatTick ==
    /\ repeatKey # "none"
    /\ IF keyboard THEN DispatchKey(repeatKey) ELSE UNCHANGED fieldVars
    /\ UNCHANGED <<keyVars, pointerVars, touchVars>>

\* keyboardEnter ignores the keys that are already down, of which the releases
\* come all the same.
KeyboardEnter ==
    /\ wlKeyboard = "out"
    /\ wlKeyboard' = "in"
    /\ keyboard' = TRUE
    /\ held' \in SUBSET HeldKeys
    /\ UNCHANGED <<repeatKey, orphaned, pointerVars, touchVars, fieldVars>>

\* keyboardLeave ends the repeat: the releases go to another window, so that
\* keys held on the way out are up, as far as this one will hear.
KeyboardLeave ==
    /\ wlKeyboard = "in"
    /\ wlKeyboard' = "out"
    /\ keyboard' = FALSE
    /\ held' = {}
    /\ StopRepeat
    /\ UNCHANGED <<pointerVars, touchVars, fieldVars>>

\* keyboardRepeatInfo, for a rate of 0.
RepeatInfo ==
    /\ wlKeyboard # "gone"
    /\ StopRepeat
    /\ UNCHANGED <<wlKeyboard, keyboard, held, pointerVars, touchVars, fieldVars>>

\* seatCapabilities, keyboard lost: wl_keyboard_release and no more, so that
\* neither a release nor a leave will come.  The seat loses its keyboard at every
\* switch to another virtual terminal.
KeyboardLost ==
    /\ wlKeyboard # "gone"
    /\ wlKeyboard' = "gone"
    /\ held' = {}
    /\ orphaned' = (repeatKey # "none")
    /\ UNCHANGED <<keyboard, repeatKey, pointerVars, touchVars, fieldVars>>

\* seatCapabilities, keyboard found.
KeyboardBack ==
    /\ wlKeyboard = "gone"
    /\ wlKeyboard' = "out"
    /\ UNCHANGED <<keyboard, held, repeatKey, orphaned, pointerVars, touchVars, fieldVars>>

(***************************************************************************)
(* Pointer, touch, page                                                    *)
(***************************************************************************)

PointerEnter(s) ==
    /\ pointer = "none"
    /\ pointer' = s
    /\ UNCHANGED <<button1, keyVars, touchVars, fieldVars>>

\* pointerLeave: an up that follows goes to nobody, and the button bit stays.  A
\* wl_pointer that seatCapabilities releases comes to the same: the next event is
\* an enter.
PointerLeave ==
    /\ pointer # "none"
    /\ pointer' = "none"
    /\ UNCHANGED <<button1, keyVars, touchVars, fieldVars>>

\* pointerButton and seatDispatch; the first button only.
PointerDown ==
    /\ pointer # "none"
    /\ button1' = TRUE
    /\ IF pointer = "strip" THEN StripDown ELSE PageClicked
    /\ UNCHANGED <<pointer, keyVars, touchVars>>
PointerUp ==
    /\ pointer # "none"
    /\ button1' = FALSE
    /\ IF pointer = "strip" THEN StripUp ELSE UNCHANGED fieldVars
    /\ UNCHANGED <<pointer, keyVars, touchVars>>
PointerMotion ==
    /\ pointer = "strip"
    /\ StripMove
    /\ UNCHANGED <<pointerVars, keyVars, touchVars>>

\* touchDown: one surface for all fingers, that of the last one down.  A tap in
\* the strip is a click; a tap in the page says nothing to the strip.  A finger
\* may be in the table already, when the seat lost its wl_touch with it down.
TouchDown(f, s) ==
    /\ touchPoints' = [touchPoints EXCEPT ![f] = s]
    /\ touchSurface' = s
    /\ IF s = "strip" THEN StripDown ELSE UNCHANGED fieldVars
    /\ UNCHANGED <<pointerVars, keyVars>>
TouchUp(f) ==
    /\ touchPoints[f] # "up"
    /\ touchPoints' = [touchPoints EXCEPT ![f] = "up"]
    /\ touchSurface' = IF \A g \in Fingers \ {f} : touchPoints[g] = "up"
                       THEN "none" ELSE touchSurface
    /\ IF touchSurface = "strip" THEN StripUp ELSE UNCHANGED fieldVars
    /\ UNCHANGED <<pointerVars, keyVars>>
TouchMotion(f) ==
    /\ touchPoints[f] # "up"
    /\ IF touchSurface = "strip" THEN StripMove ELSE UNCHANGED fieldVars
    /\ UNCHANGED <<pointerVars, keyVars, touchVars>>

\* touchCancel: to the strip, a cancelled finger is one that moves.
TouchCancel ==
    /\ touchSurface # "none"
    /\ IF touchSurface = "strip" THEN StripMove ELSE UNCHANGED fieldVars
    /\ touchPoints' = [f \in Fingers |-> "up"]
    /\ touchSurface' = "none"
    /\ UNCHANGED <<pointerVars, keyVars>>

\* onUriChanged and veron_chrome_set_url: the field follows the page only while
\* nobody types in it.
UriChanged(u) ==
    /\ url' = u
    /\ IF focused THEN UNCHANGED <<editing, caret, anchor>> ELSE Field(u, Len(u), Len(u))
    /\ UNCHANGED <<chromeFocus, focused, selecting, pointerVars, keyVars, touchVars>>

-----------------------------------------------------------------------------
Next ==
    \/ \E k \in HeldKeys : KeyDown(k) \/ KeyUp(k)
    \/ \E k \in Keys : Tap(k)
    \/ RepeatTick
    \/ KeyboardEnter
    \/ KeyboardLeave
    \/ RepeatInfo
    \/ KeyboardLost
    \/ KeyboardBack
    \/ \E s \in {"strip", "page"} : PointerEnter(s)
    \/ PointerLeave
    \/ PointerDown
    \/ PointerUp
    \/ PointerMotion
    \/ \E f \in Fingers, s \in {"strip", "page"} : TouchDown(f, s)
    \/ \E f \in Fingers : TouchUp(f) \/ TouchMotion(f)
    \/ TouchCancel
    \/ \E u \in Urls : UriChanged(u)

Spec == Init /\ [][Next]_vars

-----------------------------------------------------------------------------
\* The toplevel routes keys to the strip exactly while the field takes them:
\* otherwise what is typed vanishes, or goes where nobody looks.
FocusAgrees == chromeFocus = focused

\* Caret and anchor stand between characters of the field, so every slice of
\* it is valid UTF-8 (chrome.c: "safe here rather than by luck").
CaretOnBoundary == {caret, anchor} \subseteq Boundaries(editing)

\* No key repeats into a window that was told that the keyboard left it, and none
\* that is not held, whatever presses, releases, leaves and enters with keys down
\* came before; the one exception is a repeat that was running when the seat lost
\* its keyboard, and it ends with the next press, leave, or release of that key
\* (wpe-veron-seat.c: "LEAVING STOPS THE REPEAT", "A NEW PRESS CANCELS THE OLD
\* REPEAT").
RepeatHeld ==
    repeatKey # "none" => /\ keyboard
                          /\ \/ wlKeyboard = "in" /\ repeatKey \in held
                             \/ orphaned

\* The same without the exception: "without this the timer runs forever, typing
\* into a window the user is no longer looking at" (wpe-veron-seat.c).
RepeatOnlyHeld == repeatKey # "none" => repeatKey \in held

\* A finger is lifted from the surface it was put on: "a tap in the chrome
\* cannot reach the page" (wpe-veron-seat.c).
TapStays ==
    [][\A f \in Fingers : (touchPoints[f] # "up" /\ touchPoints'[f] = "up")
                              => touchSurface = touchPoints[f]]_vars
=============================================================================
