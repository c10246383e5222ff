---------------------------- MODULE WindowProofs ----------------------------
(***************************************************************************)
(* The buffers and sizes of the browser's window, proved of Window for      *)
(* every pool of page buffers, every height a compositor may name, every    *)
(* default and every strip lower than it, and every order of the events of  *)
(* the three surfaces.                                                      *)
(*                                                                          *)
(* The two busy flags are safe for the same reason, which is the heart of   *)
(* WindowInv: a buffer that the compositor reads, or whose release is still *)
(* queued, is flagged, and never both at once, so that handling the release *)
(* cannot clear the flag of a buffer committed again meanwhile.  OutInv is  *)
(* the converse: a flagged buffer is read, or its release is queued.        *)
(***************************************************************************)
EXTENDS Window, TLAPS

\* A buffer of the strip.
BufType == [busy : BOOLEAN, held : BOOLEAN, rel : BOOLEAN]

\* The strip.
StripType == [bufs : [{1, 2} -> BufType],
              shown : 0 .. 2, pending : BOOLEAN, fresh : BOOLEAN,
              nomem : BOOLEAN, torn : BOOLEAN]

\* A buffer of the page.
PageType == [cached : BOOLEAN, busy : BOOLEAN, view : BOOLEAN,
             held : BOOLEAN, rel : BOOLEAN, inUse : BOOLEAN]

\* The strip never painted what the compositor reads, and its flags say what that is.
StripSafe(s) ==
    /\ s.torn = FALSE
    /\ \A i \in {1, 2} : /\ s.bufs[i].held \/ s.bufs[i].rel => s.bufs[i].busy
                         /\ ~(s.bufs[i].held /\ s.bufs[i].rel)

\* A strip that is behind has its redraw recorded, and a release that will run it
\* is to come, unless memory ran out.
StripDue(s) ==
    ~s.fresh => s.pending /\ (s.nomem \/ \E i \in {1, 2} : s.bufs[i].busy)

\* Both of the strip.
StripInv == StripSafe(strip) /\ StripDue(strip)

\* The same of the page's shared-memory copies; and of a view that is gone no
\* callback and no weak pointer is left.
PageInv ==
    /\ fault = FALSE
    /\ \A b \in Shm : /\ buf[b].held \/ buf[b].rel => buf[b].cached /\ buf[b].busy
                      /\ ~(buf[b].held /\ buf[b].rel)
    /\ phase = "gone" => frame = "none" /\ \A b \in Buffers : ~buf[b].view

\* The strip's height is reserved exactly from the main loop on.
SizeInv ==
    /\ phase \in {"new", "built"} => chromeHeight = 0
    /\ phase = "run" => size # 0 /\ chromeHeight = Strip

\* The inductive invariant.
WindowInv == TypeOK /\ StripInv /\ PageInv /\ SizeInv /\ PageFits

-----------------------------------------------------------------------------
\* chromeAcquire answers a buffer that is not busy, or none and a reason.
LEMMA AcquireOne ==
  ASSUME NEW s \in StripType, NEW ok \in BOOLEAN
  PROVE  /\ Acquire(s, ok) \subseteq {1, 2}
         /\ \A i \in Acquire(s, ok) : ~s.bufs[i].busy
         /\ Acquire(s, ok) = {} => (~ok /\ FirstFree(s) # {}) \/ \E i \in {1, 2} : s.bufs[i].busy
<1>1. CASE s.bufs[1].busy
  BY <1>1 DEF Acquire, FirstFree
<1>2. CASE ~s.bufs[1].busy
  <2>1. 1 \in FirstFree(s)
    BY <1>2 DEF FirstFree
  <2> QED BY <2>1 DEF Acquire, FirstFree
<1> QED BY <1>1, <1>2

\* veron_chrome_draw tears nothing and records the redraw it could not do.
LEMMA DrawSafe ==
  ASSUME NEW s \in StripType, NEW ok \in BOOLEAN, StripSafe(s)
  PROVE  Draw(s, ok) \in StripType /\ StripSafe(Draw(s, ok)) /\ StripDue(Draw(s, ok))
<1>1. CASE Acquire(s, ok) = {}
  <2>1. Draw(s, ok) = [s EXCEPT !.pending = TRUE, !.fresh = FALSE,
                                !.nomem = ~ok /\ FirstFree(s) # {}]
    BY <1>1 DEF Draw
  <2>2. /\ Draw(s, ok) \in StripType
        /\ Draw(s, ok).bufs = s.bufs /\ Draw(s, ok).torn = s.torn /\ Draw(s, ok).pending = TRUE
        /\ Draw(s, ok).nomem = (~ok /\ FirstFree(s) # {})
    BY <2>1 DEF StripType
  <2> QED
    BY <1>1, <2>2, AcquireOne DEF StripSafe, StripDue
<1>2. CASE Acquire(s, ok) # {}
  <2> DEFINE i == CHOOSE j \in Acquire(s, ok) : TRUE
  <2>1. i \in {1, 2} /\ ~s.bufs[i].busy
    BY <1>2, AcquireOne
  <2>2. Draw(s, ok) = [s EXCEPT !.bufs[i] = Posted, !.shown = i, !.fresh = TRUE,
                                !.nomem = FALSE, !.torn = s.torn \/ s.bufs[i].held]
    BY <1>2 DEF Draw
  <2> HIDE DEF i
  <2>3. s.bufs[i].held = FALSE /\ s.torn = FALSE
    BY <2>1 DEF StripSafe, StripType, BufType
  <2>4. Posted \in BufType
    BY DEF Posted, BufType
  <2>5. /\ Draw(s, ok) \in StripType
        /\ Draw(s, ok).bufs = [s.bufs EXCEPT ![i] = Posted]
        /\ Draw(s, ok).torn = FALSE /\ Draw(s, ok).fresh = TRUE
    <3>1. [s.bufs EXCEPT ![i] = Posted] \in [{1, 2} -> BufType]
      BY <2>1, <2>4 DEF StripType
    <3>2. Draw(s, ok) = [bufs |-> [s.bufs EXCEPT ![i] = Posted], shown |-> i,
                         pending |-> s.pending, fresh |-> TRUE, nomem |-> FALSE, torn |-> FALSE]
      BY <2>2, <2>3 DEF StripType
    <3> QED BY <2>1, <3>1, <3>2 DEF StripType
  <2>6. StripDue(Draw(s, ok))
    BY <2>5 DEF StripDue
  <2>7. StripSafe(Draw(s, ok))
    BY <2>1, <2>5 DEF StripSafe, StripType, Posted, BufType
  <2> QED BY <2>5, <2>6, <2>7
<1> QED BY <1>1, <1>2

\* What is left for the page fits under the strip, or is one row.
LEMMA PageHeightType ==
  ASSUME NEW h \in Nat \ {0}, NEW c \in Nat
  PROVE  /\ PageHeight(h, c) \in Nat
         /\ IF h > c THEN c + PageHeight(h, c) = h ELSE PageHeight(h, c) = 1
BY DEF PageHeight

\* xdgToplevelConfigure always ends with a height.
LEMMA ChosenType ==
  ASSUME TypeOK, NEW h \in Heights \cup {0}
  PROVE  Chosen(h) \in Sizes /\ Chosen(h) \in Nat \ {0}
BY WindowAssumption DEF TypeOK, Chosen, Sizes

\* Before the window is made nothing is committed.
LEMMA WindowInit == Init => WindowInv
<1> SUFFICES ASSUME Init PROVE WindowInv
  OBVIOUS
<1>1. TypeOK
  <2>1. strip \in StripType
    <3>1. [i \in {1, 2} |-> Free] \in [{1, 2} -> BufType]
      BY DEF Free, BufType
    <3> QED BY <3>1 DEF Init, StripType
  <2>2. Unseen \in [cached : BOOLEAN, busy : BOOLEAN, view : BOOLEAN,
                     held : BOOLEAN, rel : BOOLEAN, inUse : BOOLEAN]
    BY DEF Unseen
  <2> QED
    BY <2>1, <2>2, WindowAssumption DEF Init, TypeOK, StripType, BufType, Sizes
<1>2. StripInv
  BY DEF Init, StripInv, StripSafe, StripDue, Free
<1>3. PageInv
  BY WindowAssumption DEF Init, PageInv, Unseen
<1> QED
  BY <1>1, <1>2, <1>3 DEF Init, WindowInv, SizeInv, PageFits

\* A step of the strip alone is judged by the strip.
LEMMA StripKept ==
  ASSUME WindowInv, strip' \in StripType, StripSafe(strip'), StripDue(strip'),
         UNCHANGED <<phase, toplevelVars, viewSize, mapped, pageVars, fault>>
  PROVE  WindowInv'
BY DEF WindowInv, TypeOK, StripInv, PageInv, SizeInv, PageFits, StripType, BufType,
       toplevelVars, pageVars

\* A step of the page alone is judged by the page.
LEMMA PageKept ==
  ASSUME WindowInv, TypeOK', PageInv', phase' = phase, strip' = strip,
         UNCHANGED <<toplevelVars, viewSize>>
  PROVE  WindowInv'
BY DEF WindowInv, StripInv, SizeInv, PageFits, toplevelVars

\* Every step keeps the invariant.
LEMMA WindowNext == WindowInv /\ [Next]_vars => WindowInv'
<1> SUFFICES ASSUME WindowInv, [Next]_vars PROVE WindowInv'
  OBVIOUS
<1> USE WindowAssumption
<1>0. strip \in StripType
  BY DEF WindowInv, TypeOK, StripType, BufType
<1>a. TypeOK
  BY DEF WindowInv
<1>1. ASSUME NEW h \in Heights \cup {0}, NEW ok \in BOOLEAN, Construct(h, ok) PROVE WindowInv'
  <2>1. Chosen(h) \in Sizes /\ Chosen(h) \in Nat \ {0} /\ chromeHeight \in Nat
    BY <1>a, ChosenType DEF TypeOK
  <2>2. viewSize' \in Nat
    BY <1>1, <2>1, PageHeightType DEF Construct
  <2>3. TypeOK'
    BY <1>1, <1>a, <2>1, <2>2 DEF Construct, TypeOK, pageVars
  <2> QED
    BY <1>1, <2>3 DEF Construct, WindowInv, StripInv, PageInv, SizeInv, PageFits, pageVars
<1>2. ASSUME NEW ok \in BOOLEAN, Setup(ok) PROVE WindowInv'
  <2>1. strip' \in StripType /\ StripSafe(strip') /\ StripDue(strip')
    BY <1>0, <1>2, DrawSafe DEF Setup, WindowInv, StripInv
  <2>2. viewSize' = Default - Strip /\ Default - Strip \in Nat
    BY <1>2 DEF Setup, Reserved
  <2>3. background' \in Sizes \cup {0} /\ xdgDecoration' \in BOOLEAN
    BY <1>2, <1>a DEF Setup, PaintBackground, TypeOK, Sizes
  <2>4. TypeOK'
    BY <1>2, <1>a, <2>1, <2>2, <2>3 DEF Setup, TypeOK, StripType, BufType, Sizes, pageVars
  <2>5. PageFits' /\ SizeInv'
    BY <1>2, <2>2 DEF Setup, PageFits, SizeInv
  <2> QED
    BY <1>2, <2>1, <2>4, <2>5 DEF Setup, WindowInv, StripInv, PageInv, pageVars
<1>3. ASSUME NEW h \in Heights \cup {0}, NEW ok \in BOOLEAN, Configure(h, ok) PROVE WindowInv'
  <2>1. Chosen(h) \in Sizes /\ Chosen(h) \in Nat \ {0} /\ chromeHeight \in Nat
    BY <1>a, ChosenType DEF TypeOK
  <2>2. strip' \in StripType /\ StripSafe(strip') /\ StripDue(strip')
    BY <1>0, <1>3, DrawSafe DEF Configure, WindowInv, StripInv
  <2>3. viewSize' \in Nat /\ PageFits'
    BY <1>3, <2>1, PageHeightType DEF Configure, PageFits
  <2>4. background' \in Sizes \cup {0} /\ xdgDecoration' \in BOOLEAN
    BY <1>3, <1>a, <2>1 DEF Configure, PaintBackground, TypeOK
  <2>5. TypeOK'
    BY <1>3, <1>a, <2>1, <2>2, <2>3, <2>4 DEF Configure, TypeOK, StripType, BufType, pageVars
  <2> QED
    BY <1>3, <2>1, <2>2, <2>3, <2>5 DEF Configure, WindowInv, StripInv, SizeInv, PageInv, pageVars
<1>4. ASSUME NEW ok \in BOOLEAN, StripChanges(ok) PROVE WindowInv'
  <2>1. strip' \in StripType /\ StripSafe(strip') /\ StripDue(strip')
    BY <1>0, <1>4, DrawSafe DEF StripChanges, WindowInv, StripInv
  <2> QED BY <1>4, <2>1, StripKept DEF StripChanges
<1>5. ASSUME NEW i \in {1, 2}, StripReleased(i) PROVE WindowInv'
  <2>1. strip' \in StripType /\ StripSafe(strip') /\ StripDue(strip')
    <3>1. strip.bufs[i].held /\ strip.bufs[i] \in BufType
      BY <1>0, <1>5 DEF StripReleased, StripType
    <3>2. strip' = [strip EXCEPT !.bufs = [strip.bufs EXCEPT ![i] =
                      [strip.bufs[i] EXCEPT !.held = FALSE, !.rel = TRUE]]]
      BY <1>0, <1>5 DEF StripReleased, StripType, BufType
    <3>3. [strip.bufs[i] EXCEPT !.held = FALSE, !.rel = TRUE] \in BufType
      BY <3>1 DEF BufType
    <3>4. [strip.bufs EXCEPT ![i] = [strip.bufs[i] EXCEPT !.held = FALSE, !.rel = TRUE]]
            \in [{1, 2} -> BufType]
      BY <1>0, <3>3 DEF StripType
    <3>5. strip' \in StripType
      BY <1>0, <3>2, <3>4 DEF StripType
    <3>6. /\ strip'.torn = strip.torn /\ strip'.fresh = strip.fresh
          /\ strip'.pending = strip.pending /\ strip'.nomem = strip.nomem
          /\ \A j \in {1, 2} : strip'.bufs[j].busy = strip.bufs[j].busy
          /\ \A j \in {1, 2} \ {i} : strip'.bufs[j] = strip.bufs[j]
          /\ ~strip'.bufs[i].held
      BY <1>0, <3>1, <3>2 DEF StripType, BufType
    <3>7. StripSafe(strip') /\ StripDue(strip')
      BY <3>1, <3>6 DEF WindowInv, StripInv, StripSafe, StripDue
    <3> QED BY <3>5, <3>7
  <2> QED BY <1>5, <2>1, StripKept DEF StripReleased
<1>6. ASSUME NEW i \in {1, 2}, NEW ok \in BOOLEAN, chromeBufferRelease(i, ok) PROVE WindowInv'
  <2> DEFINE s == [strip EXCEPT !.bufs[i].busy = FALSE, !.bufs[i].rel = FALSE]
             t == [s EXCEPT !.pending = FALSE]
  <2>1. s \in StripType /\ StripSafe(s)
    <3>1. strip.bufs[i].rel /\ strip.bufs[i] \in BufType
      BY <1>0, <1>6 DEF chromeBufferRelease, StripType
    <3>2. s = [strip EXCEPT !.bufs = [strip.bufs EXCEPT ![i] =
                 [strip.bufs[i] EXCEPT !.busy = FALSE, !.rel = FALSE]]]
      BY <1>0 DEF StripType, BufType
    <3>3. [strip.bufs[i] EXCEPT !.busy = FALSE, !.rel = FALSE] \in BufType
      BY <3>1 DEF BufType
    <3>4. [strip.bufs EXCEPT ![i] = [strip.bufs[i] EXCEPT !.busy = FALSE, !.rel = FALSE]]
            \in [{1, 2} -> BufType]
      BY <1>0, <3>3 DEF StripType
    <3>5. /\ s \in StripType /\ s.torn = strip.torn
          /\ \A j \in {1, 2} \ {i} : s.bufs[j] = strip.bufs[j]
          /\ s.bufs[i].held = strip.bufs[i].held /\ ~s.bufs[i].rel
      BY <1>0, <3>1, <3>2, <3>4 DEF StripType, BufType
    <3> QED
      BY <3>1, <3>5 DEF WindowInv, StripInv, StripSafe
  <2>2. s.pending = strip.pending /\ s.fresh = strip.fresh
    BY <1>0 DEF StripType
  <2>3. strip' = IF s.pending THEN Draw(t, ok) ELSE s
    BY <1>6 DEF chromeBufferRelease
  <2> HIDE DEF s
  <2>4. t \in StripType /\ StripSafe(t)
    BY <2>1 DEF StripType, StripSafe
  <2> HIDE DEF t
  <2>5. strip' \in StripType /\ StripSafe(strip') /\ StripDue(strip')
    <3>1. CASE s.pending
      BY <2>3, <2>4, <3>1, DrawSafe
    <3>2. CASE ~s.pending
      <4>1. StripDue(s)
        BY <2>2, <3>2 DEF WindowInv, StripInv, StripDue
      <4> QED BY <2>1, <2>3, <3>2, <4>1
    <3> QED BY <3>1, <3>2
  <2> QED BY <1>6, <2>5, StripKept DEF chromeBufferRelease
<1>7. ASSUME NEW b \in Buffers, RenderBuffer(b) PROVE WindowInv'
  <2>1. TypeOK'
    <3>1. buf' \in [Buffers -> PageType]
      <4>1. (b \in Shm) \in BOOLEAN
        OBVIOUS
      <4>2. PICK x \in BOOLEAN : x = (b \in Shm)
        BY <4>1
      <4>3. buf' = [buf EXCEPT ![b].cached = TRUE, ![b].busy = x,
                               ![b].view = TRUE, ![b].held = TRUE, ![b].inUse = TRUE]
        BY <1>7, <4>2, Zenon DEF RenderBuffer
      <4> DEFINE new == [cached |-> TRUE, busy |-> x, view |-> TRUE, held |-> TRUE,
                         rel |-> buf[b].rel, inUse |-> TRUE]
      <4>4. buf' = [buf EXCEPT ![b] = new]
        <5>1. buf \in [Buffers -> PageType]
          BY <1>a DEF TypeOK, PageType
        <5>2. buf'[b] = [buf[b] EXCEPT !.cached = TRUE, !.busy = x, !.view = TRUE,
                                       !.held = TRUE, !.inUse = TRUE]
          BY <4>3, <5>1
        <5>3. buf'[b] = new
          BY <5>1, <5>2 DEF PageType
        <5>4. DOMAIN buf' = Buffers /\ \A c \in Buffers \ {b} : buf'[c] = buf[c]
          BY <4>3, <5>1
        <5>5. buf' = [c \in Buffers |-> buf'[c]]
          BY <4>3, <5>1
        <5> HIDE DEF new
        <5> QED BY <5>1, <5>3, <5>4, <5>5
      <4>5. new \in PageType
        BY <1>a DEF TypeOK, PageType
      <4> HIDE DEF new
      <4> QED BY <1>a, <4>4, <4>5 DEF TypeOK, PageType
    <3>2. fault' \in BOOLEAN
      BY <1>7, <1>a DEF RenderBuffer, TypeOK
    <3> QED
      BY <1>7, <1>a, <3>1, <3>2 DEF RenderBuffer, TypeOK, PageType, toplevelVars
  <2>2. PageInv'
    <3>1. b \in Shm => ~buf[b].held /\ ~buf[b].rel
      BY <1>7 DEF RenderBuffer, Convertible, WindowInv, PageInv
    <3>2. fault' = FALSE
      BY <1>7, <3>1 DEF RenderBuffer, WindowInv, PageInv
    <3>3. ASSUME NEW c \in Shm
          PROVE  /\ buf'[c].held \/ buf'[c].rel => buf'[c].cached /\ buf'[c].busy
                 /\ ~(buf'[c].held /\ buf'[c].rel)
      <4>1. CASE c = b
        BY <1>7, <1>a, <3>1, <4>1 DEF RenderBuffer, TypeOK
      <4>2. CASE c # b
        BY <1>7, <1>a, <4>2 DEF RenderBuffer, TypeOK, WindowInv, PageInv
      <4> QED BY <4>1, <4>2
    <3> QED BY <1>7, <3>2, <3>3 DEF RenderBuffer, PageInv
  <2> QED BY <1>7, <2>1, <2>2, PageKept DEF RenderBuffer
<1>8. CASE FrameEvent
  <2>1. TypeOK' /\ PageInv'
    BY <1>8, <1>a DEF FrameEvent, TypeOK, WindowInv, PageInv, toplevelVars
  <2> QED BY <1>8, <2>1, PageKept DEF FrameEvent
<1>9. CASE frameDone
  <2>1. TypeOK' /\ PageInv'
    BY <1>9, <1>a DEF frameDone, TypeOK, WindowInv, PageInv, toplevelVars
  <2> QED BY <1>9, <2>1, PageKept DEF frameDone
<1>10. ASSUME NEW b \in Buffers, BufferReleased(b) PROVE WindowInv'
  <2>1. TypeOK'
    BY <1>10, <1>a DEF BufferReleased, TypeOK, toplevelVars
  <2>2. PageInv'
    BY <1>10, <1>a DEF BufferReleased, TypeOK, WindowInv, PageInv
  <2> QED BY <1>10, <2>1, <2>2, PageKept DEF BufferReleased
<1>11. ASSUME NEW b \in Buffers, bufferRelease(b) PROVE WindowInv'
  <2>1. TypeOK'
    <3>1. ReleasedTo(b) \in PageType
      <4>1. buf[b] \in PageType
        BY <1>a DEF TypeOK, PageType
      <4>2. PICK x \in BOOLEAN : x = (buf[b].inUse /\ ~buf[b].view)
        OBVIOUS
      <4>3. ReleasedTo(b) = [buf[b] EXCEPT !.rel = FALSE, !.busy = FALSE, !.inUse = x]
        BY <4>1, <4>2 DEF ReleasedTo, PageType
      <4> QED BY <4>1, <4>3 DEF PageType
    <3>2. fault' \in BOOLEAN
      BY <1>11, <1>a DEF bufferRelease, TypeOK
    <3> QED
      BY <1>11, <1>a, <3>1, <3>2 DEF bufferRelease, TypeOK, PageType, toplevelVars
  <2>2. PageInv'
    BY <1>11, <1>a DEF bufferRelease, ReleasedTo, TypeOK, WindowInv, PageInv
  <2> QED BY <1>11, <2>1, <2>2, PageKept DEF bufferRelease
<1>12. ASSUME NEW b \in Buffers, BufferFree(b) PROVE WindowInv'
  <2>1. TypeOK'
    BY <1>12, <1>a DEF BufferFree, Unseen, TypeOK, toplevelVars
  <2>2. PageInv'
    BY <1>12, <1>a DEF BufferFree, Unseen, TypeOK, WindowInv, PageInv
  <2> QED BY <1>12, <2>1, <2>2, PageKept DEF BufferFree
<1>13. CASE Close
  <2>1. TypeOK'
    BY <1>13, <1>a, ZenonT(60) DEF Close, Dispose, TypeOK
  <2>2. PageInv'
    BY <1>13, <1>a DEF Close, Dispose, TypeOK, WindowInv, PageInv
  <2> QED
    BY <1>13, <2>1, <2>2 DEF Close, WindowInv, StripInv, SizeInv, PageFits
<1>14. CASE UNCHANGED vars
  BY <1>14 DEF vars, toplevelVars, pageVars, WindowInv, TypeOK, StripInv, PageInv, SizeInv, PageFits
<1> QED
  BY <1>1, <1>2, <1>3, <1>4, <1>5, <1>6, <1>7, <1>8, <1>9, <1>10, <1>11, <1>12, <1>13, <1>14
     DEF Next

\* The compositor never reads memory that is being painted, on the page's or on the
\* strip's path, and no event reaches a view that is gone (wpe-veron-shm.c,
\* chrome.c, wpe-view-veron.c).
THEOREM NothingTorn == Spec => []NoFault
<1>1. WindowInv => NoFault
  BY DEF WindowInv, StripInv, StripSafe, PageInv, NoFault
<1> QED
  BY WindowInit, WindowNext, <1>1, PTL DEF Spec

\* Whoever told the page its height last, the configure, the resize or the strip's
\* reservation, told it what is left under the strip.
THEOREM PageAlwaysFits == Spec => []PageFits
<1>1. WindowInv => PageFits
  BY DEF WindowInv
<1> QED
  BY WindowInit, WindowNext, <1>1, PTL DEF Spec

\* A redraw of the strip that found no free buffer is recorded, and while memory
\* lasts a buffer whose release will run it is out (chrome.c).
THEOREM RedrawRemembered == Spec => []RedrawNotLost
<1>1. WindowInv => RedrawNotLost
  BY DEF WindowInv, StripInv, StripDue, RedrawNotLost
<1> QED
  BY WindowInit, WindowNext, <1>1, PTL DEF Spec

-----------------------------------------------------------------------------
(* No buffer is lost.                                                       *)

\* The strip's busy buffers are with the compositor, or on their way back.
StripOut(s) == \A i \in {1, 2} : s.bufs[i].busy => s.bufs[i].held \/ s.bufs[i].rel

\* The same of a page's buffer; and a buffer that WebKit counts as given away has the
\* view to tell, until the window goes.
PageOut(x) == (x.inUse \/ x.busy => x.held \/ x.rel) /\ (x.inUse => x.view)

OutInv == StripOut(strip) /\ (phase # "gone" => \A b \in Buffers : PageOut(buf[b]))

\* veron_chrome_draw flags only the buffer that it commits.
LEMMA DrawOut ==
  ASSUME NEW s \in StripType, NEW ok \in BOOLEAN, StripOut(s)
  PROVE  StripOut(Draw(s, ok))
<1>1. CASE Acquire(s, ok) = {}
  <2>1. Draw(s, ok).bufs = s.bufs
    BY <1>1 DEF Draw, StripType
  <2> QED BY <2>1 DEF StripOut
<1>2. CASE Acquire(s, ok) # {}
  <2> DEFINE i == CHOOSE j \in Acquire(s, ok) : TRUE
  <2>1. i \in {1, 2}
    BY <1>2, AcquireOne
  <2>2. Draw(s, ok) = [s EXCEPT !.bufs[i] = Posted, !.shown = i, !.fresh = TRUE,
                                !.nomem = FALSE, !.torn = s.torn \/ s.bufs[i].held]
    BY <1>2 DEF Draw
  <2> HIDE DEF i
  <2>3. Draw(s, ok).bufs = [s.bufs EXCEPT ![i] = Posted]
    BY <2>1, <2>2 DEF StripType
  <2>4. Posted.held
    BY DEF Posted
  <2> QED BY <2>1, <2>3, <2>4 DEF StripOut, StripType
<1> QED BY <1>1, <1>2

\* Every step keeps it.
LEMMA OutNext == WindowInv /\ OutInv /\ [Next]_vars => OutInv'
<1> SUFFICES ASSUME WindowInv, OutInv, [Next]_vars PROVE OutInv'
  OBVIOUS
<1>0. strip \in StripType /\ buf \in [Buffers -> PageType] /\ StripSafe(strip)
  BY DEF WindowInv, TypeOK, StripType, BufType, PageType, StripInv
<1>o. StripOut(strip)
  BY DEF OutInv
<1>p. phase # "gone" => \A b \in Buffers : PageOut(buf[b])
  BY DEF OutInv
\* Steps of the strip.
<1>1. ASSUME StripOut(strip'), buf' = buf, phase # "gone" PROVE OutInv'
  BY <1>1, <1>p DEF OutInv
<1>2. ASSUME NEW ok \in BOOLEAN, StripChanges(ok) PROVE OutInv'
  BY <1>0, <1>o, <1>1, <1>2, DrawOut DEF StripChanges, pageVars
<1>3. ASSUME NEW h \in Heights \cup {0}, NEW ok \in BOOLEAN, Configure(h, ok) PROVE OutInv'
  BY <1>0, <1>o, <1>1, <1>3, DrawOut DEF Configure, pageVars
<1>4. ASSUME NEW ok \in BOOLEAN, Setup(ok) PROVE OutInv'
  <2>1. Draw(strip, ok) \in StripType /\ StripOut(Draw(strip, ok))
    BY <1>0, <1>o, DrawSafe, DrawOut
  <2>2. StripOut(strip')
    BY <1>4, <2>1, DrawOut DEF Setup
  <2> QED BY <1>1, <1>4, <2>2 DEF Setup, pageVars
<1>5. ASSUME NEW i \in {1, 2}, StripReleased(i) PROVE OutInv'
  <2>1. strip'.bufs = [strip.bufs EXCEPT ![i] = [@ EXCEPT !.held = FALSE, !.rel = TRUE]]
    BY <1>0, <1>5 DEF StripReleased, StripType, BufType
  <2>2. StripOut(strip')
    BY <2>1, <1>0, <1>o DEF StripOut, StripType, BufType
  <2> QED BY <1>5, <2>2, <1>p DEF StripReleased, OutInv, pageVars
<1>6. ASSUME NEW i \in {1, 2}, NEW ok \in BOOLEAN, chromeBufferRelease(i, ok) PROVE OutInv'
  <2> DEFINE s == [strip EXCEPT !.bufs[i].busy = FALSE, !.bufs[i].rel = FALSE]
             t == [s EXCEPT !.pending = FALSE]
             old == strip.bufs[i]
             new == [old EXCEPT !.busy = FALSE, !.rel = FALSE]
  <2>1. s \in StripType /\ StripOut(s)
    <3>1. old \in BufType
      BY <1>0 DEF StripType
    <3>2. new \in BufType /\ ~new.busy
      BY <3>1 DEF BufType
    <3>3. s = [strip EXCEPT !.bufs = [strip.bufs EXCEPT ![i] = new]]
      BY <1>0 DEF StripType, BufType
    <3> HIDE DEF new, old, s
    <3>4. [strip.bufs EXCEPT ![i] = new] \in [{1, 2} -> BufType]
      BY <1>0, <3>2 DEF StripType
    <3>5. s \in StripType /\ s.bufs = [strip.bufs EXCEPT ![i] = new]
      BY <1>0, <3>3, <3>4 DEF StripType
    <3> QED BY <1>0, <1>o, <3>2, <3>5 DEF StripOut, StripType
  <2>2. strip' = IF s.pending THEN Draw(t, ok) ELSE s
    BY <1>6 DEF chromeBufferRelease
  <2> HIDE DEF s
  <2>3. t \in StripType /\ StripOut(t)
    BY <2>1 DEF StripType, StripOut
  <2> HIDE DEF t
  <2>4. StripOut(strip')
    BY <2>1, <2>2, <2>3, DrawOut
  <2> QED BY <1>1, <1>6, <2>4 DEF chromeBufferRelease, pageVars
\* Steps of the page: one buffer changes, and its new record is in order.
<1>7. ASSUME strip' = strip, phase' = phase, NEW b \in Buffers, NEW x,
             buf' = [buf EXCEPT ![b] = x], phase # "gone" => PageOut(x)
      PROVE  OutInv'
  BY <1>7, <1>0, <1>o, <1>p DEF OutInv
<1>8. ASSUME NEW b \in Buffers, RenderBuffer(b) PROVE OutInv'
  <2>1. /\ strip' = strip /\ phase' = phase
        /\ buf' = [buf EXCEPT ![b].cached = TRUE, ![b].busy = b \in Shm,
                              ![b].view = TRUE, ![b].held = TRUE, ![b].inUse = TRUE]
    BY <1>8, Zenon DEF RenderBuffer
  <2>2. buf'[b].held /\ buf'[b].view
    BY <2>1, <1>0 DEF PageType
  <2>3. \A c \in Buffers \ {b} : buf'[c] = buf[c]
    BY <2>1, <1>0
  <2>4. \A c \in Buffers : phase # "gone" => PageOut(buf'[c])
    BY <2>2, <2>3, <1>p DEF PageOut
  <2> QED BY <2>1, <2>4, <1>o DEF OutInv
<1>9. ASSUME NEW b \in Buffers, BufferReleased(b) PROVE OutInv'
  <2> DEFINE x == [buf[b] EXCEPT !.held = FALSE, !.rel = TRUE]
  <2>1. buf' = [buf EXCEPT ![b] = x] /\ strip' = strip /\ phase' = phase
    BY <1>9, <1>0 DEF BufferReleased, PageType
  <2>2. phase # "gone" => PageOut(x)
    BY <1>0, <1>p DEF PageOut, PageType
  <2> HIDE DEF x
  <2> QED BY <1>7, <2>1, <2>2
<1>10. ASSUME NEW b \in Buffers, bufferRelease(b) PROVE OutInv'
  <2>1. buf' = [buf EXCEPT ![b] = ReleasedTo(b)] /\ strip' = strip /\ phase' = phase
    BY <1>10 DEF bufferRelease
  <2>2. phase # "gone" => PageOut(ReleasedTo(b))
    <3>1. SUFFICES ASSUME phase # "gone" PROVE ~ReleasedTo(b).inUse /\ ~ReleasedTo(b).busy
      BY DEF PageOut
    <3>2. buf[b] \in PageType /\ (buf[b].inUse => buf[b].view)
      BY <1>0, <1>p, <3>1 DEF PageOut
    <3> QED BY <3>2 DEF ReleasedTo, PageType
  <2> QED BY <1>7, <2>1, <2>2
<1>11. ASSUME NEW b \in Buffers, BufferFree(b) PROVE OutInv'
  <2>1. buf' = [buf EXCEPT ![b] = Unseen] /\ strip' = strip /\ phase' = phase
    BY <1>11 DEF BufferFree
  <2>2. PageOut(Unseen)
    BY DEF PageOut, Unseen
  <2> QED BY <1>7, <2>1, <2>2
<1>12. CASE Close
  BY <1>12, <1>o DEF Close, OutInv
<1>13. ASSUME NEW h \in Heights \cup {0}, NEW ok \in BOOLEAN, Construct(h, ok) PROVE OutInv'
  BY <1>13, <1>o, <1>p DEF Construct, OutInv, pageVars
<1>14. CASE FrameEvent \/ frameDone \/ UNCHANGED vars
  BY <1>14, <1>o, <1>p DEF FrameEvent, frameDone, vars, OutInv, pageVars
<1> QED
  BY <1>2, <1>3, <1>4, <1>5, <1>6, <1>8, <1>9, <1>10, <1>11, <1>12, <1>13, <1>14 DEF Next

\* No buffer of WebKit's pool or of the strip is lost between the client, the compositor and
\* the queue of releases (wpe-view-veron.c, wpe-veron-shm.c, chrome.c).
THEOREM BuffersAccountedFor == Spec => []NoBufferLost
<1>1. Init => OutInv
  BY DEF Init, OutInv, StripOut, PageOut, Free, Unseen
<1>2. OutInv => NoBufferLost
  BY DEF OutInv, StripOut, PageOut, NoBufferLost
<1> QED BY <1>1, <1>2, WindowInit, WindowNext, OutNext, PTL DEF Spec

=============================================================================
