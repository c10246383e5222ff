------------------------------- MODULE Window -------------------------------
(***************************************************************************)
(* The window of the browser as the compositor sees it: the toplevel and   *)
(* the page view of the WPE platform wpe-platform-veron                     *)
(* (wpe-toplevel-veron.c, wpe-view-veron.c, wpe-veron-shm.c) and the strip  *)
(* of veron-browser (chrome.c).                                             *)
(*                                                                         *)
(* Three surfaces share one connection.  The toplevel's own surface carries *)
(* a background whose size follows configure events; the page surface is    *)
(* fed by WebKit, which may draw again when it hears of a frame and may     *)
(* reuse a buffer when it hears of its release; the strip owns two buffers  *)
(* and paints into the one the compositor does not hold.                    *)
(*                                                                         *)
(* Sizes are heights: every function that moves a height moves the width    *)
(* with it and tests both the same way.  The compositor, WebKit and GObject *)
(* weak pointers are external.                                              *)
(***************************************************************************)
EXTENDS Integers, FiniteSets

CONSTANTS
    Buffers,    \* WPEBuffers of WebKit's pool
    Shm,        \* the ones in shared memory; the others are DMABufs
    NoBuffer,
    Heights,    \* heights a compositor names in a configure
    Default,    \* VERON_DEFAULT_HEIGHT, also what veron-browser asks for
    Strip       \* the strip's height, CHROME_HEIGHT

ASSUME WindowAssumption ==
    /\ Shm \subseteq Buffers
    /\ NoBuffer \notin Buffers
    /\ Heights \subseteq Nat \ {0}
    /\ Default \in Nat \ {0}
    /\ Strip \in 1 .. Default - 1

VARIABLES
    phase,        \* "new", "built" (constructed), "run" (in the main loop), "gone"
    size,         \* the height WPEToplevel records, 0 when none
    background,   \* backgroundHeight, 0 when no background was painted
    chromeHeight,
    xdgDecoration,
    viewSize,     \* what wpe_view_resized last told the page
    mapped,
    buf,          \* per WPEBuffer, the platform's record and the compositor's use
    shown,        \* the buffer last committed on the page surface
    frame,        \* frameCallback: "none", "asked", "done" (its event is queued)
    pendingBuffer,
    waiting,      \* WebKit submitted a frame and has not heard of one since
    strip,        \* VeronChrome's two buffers and what is pending on them
    fault         \* a held buffer was written, or a dead view was used

toplevelVars == <<size, background, chromeHeight, xdgDecoration>>
pageVars     == <<buf, shown, frame, pendingBuffer, waiting>>
vars == <<phase, toplevelVars, viewSize, mapped, pageVars, strip, fault>>

Sizes == Heights \cup {Default}

\* A WPEBuffer the platform has not seen: no user data, nothing in flight.
Unseen == [cached |-> FALSE, busy |-> FALSE, view |-> FALSE,
           held |-> FALSE, rel |-> FALSE, inUse |-> FALSE]

\* A strip buffer: `busy' is the client's flag, the other two the compositor's.
Free   == [busy |-> FALSE, held |-> FALSE, rel |-> FALSE]
Posted == [busy |-> TRUE, held |-> TRUE, rel |-> FALSE]

TypeOK ==
    /\ phase \in {"new", "built", "run", "gone"}
    /\ size \in Sizes \cup {0}
    /\ background \in Sizes \cup {0}
    /\ chromeHeight \in {0, Strip}
    /\ xdgDecoration \in BOOLEAN
    /\ viewSize \in Nat
    /\ mapped \in BOOLEAN
    /\ buf \in [Buffers -> [cached : BOOLEAN, busy : BOOLEAN, view : BOOLEAN,
                            held : BOOLEAN, rel : BOOLEAN, inUse : BOOLEAN]]
    /\ shown \in Buffers \cup {NoBuffer}
    /\ frame \in {"none", "asked", "done"}
    /\ pendingBuffer \in Buffers \cup {NoBuffer}
    /\ waiting \in BOOLEAN
    /\ strip \in [bufs : [{1, 2} -> [busy : BOOLEAN, held : BOOLEAN, rel : BOOLEAN]],
                  shown : 0 .. 2, pending : BOOLEAN, fresh : BOOLEAN,
                  nomem : BOOLEAN, torn : BOOLEAN]
    /\ fault \in BOOLEAN

Init ==
    /\ phase = "new"
    /\ size = 0 /\ background = 0 /\ chromeHeight = 0 /\ xdgDecoration = FALSE
    /\ viewSize = 0 /\ mapped = FALSE
    /\ buf = [b \in Buffers |-> Unseen]
    /\ shown = NoBuffer /\ frame = "none" /\ pendingBuffer = NoBuffer
    /\ waiting = FALSE
    /\ strip = [bufs |-> [i \in {1, 2} |-> Free], shown |-> 0, pending |-> FALSE,
                fresh |-> TRUE, nomem |-> FALSE, torn |-> FALSE]
    /\ fault = FALSE

(***************************************************************************)
(* The strip                                                               *)
(***************************************************************************)

FirstFree(s) == {i \in {1, 2} : /\ ~s.bufs[i].busy
                                /\ \A j \in 1 .. i - 1 : s.bufs[j].busy}

\* Mutant of Acquire.
AcquireSingle(s, ok) == IF ok THEN {1} \cap FirstFree(s) ELSE {}

\* chromeAcquire: the first buffer that is not busy, remade at a new size when
\* there is memory for it; none is the empty set.
Acquire(s, ok) == IF ok THEN FirstFree(s) ELSE {}

\* Mutant of Draw.
DrawDropped(s, ok) ==
    LET got == Acquire(s, ok)
        i   == CHOOSE j \in got : TRUE
    IN  IF got = {} THEN [s EXCEPT !.fresh = FALSE]
        ELSE [s EXCEPT !.bufs[i] = Posted, !.shown = i, !.fresh = TRUE,
                       !.nomem = FALSE, !.torn = s.torn \/ s.bufs[i].held]

\* veron_chrome_draw: paint into an acquired buffer and commit it, or record
\* that a redraw is due.
Draw(s, ok) ==
    LET got == Acquire(s, ok)
        i   == CHOOSE j \in got : TRUE
    IN  IF got = {}
        THEN [s EXCEPT !.pending = TRUE, !.fresh = FALSE,
                       !.nomem = ~ok /\ FirstFree(s) # {}]
        ELSE [s EXCEPT !.bufs[i] = Posted, !.shown = i, !.fresh = TRUE,
                       !.nomem = FALSE, !.torn = s.torn \/ s.bufs[i].held]

\* Anything that changes what the strip shows ends with veron_chrome_draw: a
\* key, a click, the page's URL or progress, a download, a setting.
StripChanges(ok) ==
    /\ phase = "run"
    /\ strip' = Draw(strip, ok)
    /\ UNCHANGED <<phase, toplevelVars, viewSize, mapped, pageVars, fault>>

\* The compositor stops reading a strip buffer and says so (external).
StripReleased(i) ==
    /\ strip.bufs[i].held /\ ~strip.bufs[i].rel
    /\ strip' = [strip EXCEPT !.bufs[i].held = FALSE, !.bufs[i].rel = TRUE]
    /\ UNCHANGED <<phase, toplevelVars, viewSize, mapped, pageVars, fault>>

\* chromeBufferRelease: that buffer's flag, and the redraw that waited for it.
chromeBufferRelease(i, ok) ==
    LET s == [strip EXCEPT !.bufs[i].busy = FALSE, !.bufs[i].rel = FALSE]
    IN  /\ phase = "run"
        /\ strip.bufs[i].rel
        /\ strip' = IF s.pending THEN Draw([s EXCEPT !.pending = FALSE], ok) ELSE s
        /\ UNCHANGED <<phase, toplevelVars, viewSize, mapped, pageVars, fault>>

(***************************************************************************)
(* The toplevel                                                            *)
(***************************************************************************)

\* What is left for the page under a strip of height c, at least one row.
PageHeight(h, c) == IF h - c < 1 THEN 1 ELSE h - c

\* veronToplevelPaintBackground: nothing for the size already painted; else a
\* new buffer, after whose commit the old one and the decoration object go.
\* `ok' is FALSE when the buffer could not be made.
PaintBackground(h, ok) ==
    IF h = background \/ ~ok
    THEN UNCHANGED <<background, xdgDecoration>>
    ELSE background' = h /\ xdgDecoration' = FALSE

\* xdgToplevelConfigure: 0 leaves the choice to the client, which keeps the
\* size it has and else takes the default.
Chosen(h) == IF h > 0 THEN h ELSE IF size > 0 THEN size ELSE Default

\* wpeToplevelVeronConstructed makes the surfaces and the decoration object;
\* its round trip delivers the first configure.  The view attached to the
\* toplevel is then sized and mapped (veronViewToplevelChanged).
Construct(h, ok) ==
    /\ phase = "new"
    /\ phase' = "built"
    /\ size' = Chosen(h)
    /\ background' = IF ok THEN Chosen(h) ELSE 0
    /\ xdgDecoration' = ~ok
    /\ viewSize' = PageHeight(Chosen(h), chromeHeight)
    /\ mapped' = TRUE
    /\ UNCHANGED <<chromeHeight, pageVars, strip, fault>>

\* Mutant of Reserved.
ReservedNot(h, c, told) == told

\* wpe_toplevel_veron_set_chrome_height tells the page only of a positive rest.
Reserved(h, c, told) == IF h - c > 0 THEN h - c ELSE told

\* main() of veron-browser: wpe_toplevel_resize, then the strip's height, then
\* two draws of the strip (browserApplySettings and the last one) and the loop.
Setup(ok) ==
    /\ phase = "built"
    /\ phase' = "run"
    /\ PaintBackground(Default, ok)
    /\ size' = Default
    /\ chromeHeight' = Strip
    /\ viewSize' = Reserved(Default, Strip, PageHeight(Default, chromeHeight))
    /\ strip' = Draw(Draw(strip, ok), ok)
    /\ UNCHANGED <<mapped, pageVars, fault>>

\* A configure in the loop: xdgToplevelConfigure, then xdgSurfaceConfigure,
\* which acknowledges, paints, records the size, has the strip redrawn at the
\* new width (onToplevelResized) and tells the page.
Configure(h, ok) ==
    /\ phase = "run"
    /\ PaintBackground(Chosen(h), ok)
    /\ size' = Chosen(h)
    /\ strip' = Draw(strip, ok)
    /\ viewSize' = PageHeight(Chosen(h), chromeHeight)
    /\ UNCHANGED <<phase, chromeHeight, mapped, pageVars, fault>>

(***************************************************************************)
(* The page                                                                *)
(***************************************************************************)

\* wpeVeronBufferFromSHM copies the pixels, unless the compositor still holds
\* the copy made before; veronBufferFromDMABuf wraps the buffer once.
Convertible(b) == b \in Shm => ~(buf[b].cached /\ buf[b].busy)

\* wpeViewVeronRenderBuffer: convert, attach, drop the old frame callback, ask
\* for a new one, commit.  A buffer that cannot be converted changes nothing.
\* WebKit may paint before it hears of the last frame, and may hand any buffer.
RenderBuffer(b) ==
    /\ phase = "run" /\ mapped
    /\ Convertible(b)
    /\ buf' = [buf EXCEPT ![b].cached = TRUE, ![b].busy = b \in Shm,
                          ![b].view = TRUE, ![b].held = TRUE, ![b].inUse = TRUE]
    /\ fault' = (fault \/ (b \in Shm /\ buf[b].held))
    /\ shown' = b
    /\ frame' = "asked"
    /\ pendingBuffer' = b
    /\ waiting' = TRUE
    /\ UNCHANGED <<phase, toplevelVars, viewSize, mapped, strip>>

\* The compositor presents the page surface (external).
FrameEvent ==
    /\ frame = "asked"
    /\ frame' = "done"
    /\ UNCHANGED <<phase, toplevelVars, viewSize, mapped, buf, shown,
                   pendingBuffer, waiting, strip, fault>>

\* Mutant of frameDone.
frameDoneQuiet ==
    /\ frame = "done"
    /\ frame' = "none"
    /\ fault' = (fault \/ phase = "gone")
    /\ UNCHANGED <<phase, toplevelVars, viewSize, mapped, buf, shown, pendingBuffer,
                   waiting, strip>>

\* frameDone: WebKit learns that it may draw again.
frameDone ==
    /\ frame = "done"
    /\ frame' = "none"
    /\ waiting' = (waiting /\ pendingBuffer = NoBuffer)
    /\ pendingBuffer' = NoBuffer
    /\ fault' = (fault \/ phase = "gone")
    /\ UNCHANGED <<phase, toplevelVars, viewSize, mapped, buf, shown, strip>>

\* The compositor stops reading a page buffer and says so (external).
BufferReleased(b) ==
    /\ buf[b].held /\ ~buf[b].rel
    /\ buf' = [buf EXCEPT ![b].held = FALSE, ![b].rel = TRUE]
    /\ UNCHANGED <<phase, toplevelVars, viewSize, mapped, shown, frame,
                   pendingBuffer, waiting, strip, fault>>

\* Mutant of ReleasedTo.
ReleasedToNobody(b) == [buf[b] EXCEPT !.rel = FALSE, !.busy = FALSE]

\* veronBufferReleased and shmBufferRelease: the busy flag, and WebKit if the
\* view is still there.
ReleasedTo(b) == [buf[b] EXCEPT !.rel = FALSE, !.busy = FALSE,
                                !.inUse = @ /\ ~buf[b].view]

bufferRelease(b) ==
    /\ buf[b].rel
    /\ buf' = [buf EXCEPT ![b] = ReleasedTo(b)]
    /\ fault' = (fault \/ (buf[b].view /\ phase = "gone"))
    /\ UNCHANGED <<phase, toplevelVars, viewSize, mapped, shown, frame,
                   pendingBuffer, waiting, strip>>

\* WebKit destroys a buffer that is not the one it waits to see presented; the
\* destroy notify (veronDMABufFree, veronSHMBufferFree) takes the wl_buffer,
\* and with it every event still queued for it.
BufferFree(b) ==
    /\ buf[b].cached /\ b # pendingBuffer
    /\ buf' = [buf EXCEPT ![b] = Unseen]
    /\ shown' = IF shown = b THEN NoBuffer ELSE shown
    /\ UNCHANGED <<phase, toplevelVars, viewSize, mapped, frame, pendingBuffer,
                   waiting, strip, fault>>

\* Mutant of Dispose.
DisposeKeepsCallback ==
    /\ frame' = frame
    /\ buf' = [b \in Buffers |-> [buf[b] EXCEPT !.view = FALSE]]

\* wpe_view_veron_dispose drops the frame callback; finalising the view clears
\* the weak pointers to it; wpeToplevelVeronDispose gives up the background.
Dispose ==
    /\ frame' = "none"
    /\ buf' = [b \in Buffers |-> [buf[b] EXCEPT !.view = FALSE]]

\* The window is closed (xdgToplevelClose) and its view goes.
Close ==
    /\ phase = "run"
    /\ phase' = "gone"
    /\ Dispose
    /\ background' = 0 /\ xdgDecoration' = FALSE
    /\ mapped' = FALSE
    /\ pendingBuffer' = NoBuffer
    /\ waiting' = FALSE
    /\ UNCHANGED <<size, chromeHeight, viewSize, shown, strip, fault>>

-----------------------------------------------------------------------------
Next ==
    \/ \E h \in Heights \cup {0}, ok \in BOOLEAN : Construct(h, ok)
    \/ \E ok \in BOOLEAN : Setup(ok)
    \/ \E h \in Heights \cup {0}, ok \in BOOLEAN : Configure(h, ok)
    \/ \E ok \in BOOLEAN : StripChanges(ok)
    \/ \E i \in {1, 2} : StripReleased(i)
    \/ \E i \in {1, 2}, ok \in BOOLEAN : chromeBufferRelease(i, ok)
    \/ \E b \in Buffers : RenderBuffer(b)
    \/ FrameEvent
    \/ frameDone
    \/ \E b \in Buffers : BufferReleased(b)
    \/ \E b \in Buffers : bufferRelease(b)
    \/ \E b \in Buffers : BufferFree(b)
    \/ Close

Spec == Init /\ [][Next]_vars

\* The compositor presents what is committed and gives back what it has
\* replaced; it need not give back what it shows.  The client's main loop runs
\* every event that its socket holds, also when WebKit keeps painting, which
\* is strong fairness of the frame event's handler.
Fairness ==
    /\ WF_vars(FrameEvent)
    /\ SF_vars(frameDone)
    /\ \A b \in Buffers : /\ WF_vars(shown # b /\ BufferReleased(b))
                          /\ SF_vars(bufferRelease(b))
    /\ \A i \in {1, 2} : /\ WF_vars(strip.shown # i /\ StripReleased(i))
                         /\ WF_vars(\E ok \in BOOLEAN : chromeBufferRelease(i, ok))

FairSpec == Spec /\ Fairness

-----------------------------------------------------------------------------
\* The compositor never reads memory that is being painted, on the page's
\* shared-memory path (`busy' of wpe-veron-shm.c) or on the strip's (`busy' of
\* chrome.c), and no event reaches a view that is gone (the weak pointers of
\* wpe-view-veron.c and the callback dropped in its dispose).
NoFault == ~fault /\ ~strip.torn

\* The page is told the height under the strip, whichever of the configure,
\* the resize, the strip's reservation and the attachment of the view told it
\* last ("all three have to agree", wpe-view-veron.c).
PageFits ==
    phase = "run" => IF size > chromeHeight THEN chromeHeight + viewSize = size
                                            ELSE viewSize = 1

\* A strip that does not show the browser's state has its redraw recorded and
\* a release to come that will run it, unless memory ran out (chrome.c: a
\* dropped redraw was the bug).
RedrawNotLost ==
    (phase = "run" /\ ~strip.fresh) =>
        /\ strip.pending
        /\ strip.nomem \/ \E i \in {1, 2} : strip.bufs[i].busy

\* A buffer that WebKit or the strip counts as given away is with the
\* compositor, or its release is queued; one in neither place would never be
\* drawn into again, and the pool would run dry one buffer at a time.
NoBufferLost ==
    /\ \A i \in {1, 2} : strip.bufs[i].busy => strip.bufs[i].held \/ strip.bufs[i].rel
    /\ phase = "run" =>
         \A b \in Buffers : buf[b].inUse \/ buf[b].busy => buf[b].held \/ buf[b].rel

\* A deferred redraw of the strip happens: two buffers break the cycle of a
\* release that needs a commit that needs a release.
StripCatchesUp ==
    (strip.pending /\ ~strip.fresh) ~> (strip.fresh \/ strip.nomem \/ phase = "gone")

\* WebKit learns that it may draw again after every frame it submits.
PageDrawsAgain == waiting ~> (~waiting \/ phase = "gone")

\* A buffer that the page surface no longer shows returns to WebKit's pool.
BuffersComeBack ==
    \A b \in Buffers :
        (buf[b].inUse /\ shown # b) ~> (~buf[b].inUse \/ shown = b \/ phase = "gone")

\* A mapped window keeps the server-side decorations it asked for
\* (wpe-toplevel-veron.c: without them it cannot be moved, resized, maximised
\* or closed).
Decorated == (phase = "run" /\ background # 0) => xdgDecoration
=============================================================================
