------------------------------- MODULE Co5300 -------------------------------
(***************************************************************************)
(* The upload of a frame (firmware/src/co5300.rs): Slint renders the spans *)
(* of the dirty region line by line into a buffer of one band of lines,    *)
(* process_line collects them, and flush_band sends them as rectangles     *)
(* whenever the band changes, and at the end of the frame.  Each transfer  *)
(* may be refused; main.rs then asks for another frame.                    *)
(*                                                                         *)
(* A pixel of the panel is stale when it does not show the present         *)
(* picture; the buffer is known by the line that each of its pixels is of. *)
(***************************************************************************)
EXTENDS Integers, Sequences, FiniteSets

CONSTANTS Width, Height, \* of the panel, in pixels
          TileLines,     \* TILE_LINES
          MaxSpans,      \* MAX_DIRTY_SPANS
          MaxBlocks,     \* bound on the blocks of a changed region,
          LaterBlocks,   \* and those blocks that change while the panel
                         \* misses a failed frame
          MaxFaults      \* bound on refused transfers

ASSUME Co5300Assumption ==
  /\ \A n \in {Width, Height, TileLines} : n \in Nat \ {0} /\ n % 2 = 0
  /\ \A n \in {MaxSpans, MaxBlocks, MaxFaults} : n \in Nat

VARIABLES
  dirty,    \* the region that Slint will render next
  frame,    \* the region of the frame in progress
  spans,    \* spans of it that Slint has not rendered yet
  drawing,  \* a frame is in progress
  redraw,   \* main has asked for one
  buffer,   \* render_buffer: the line of each pixel, none if of an old frame
  band,     \* band_y
  dirtySpans,
  error,    \* frame_error is Some
  stale,
  missed,   \* regions of the frames that failed, not drawn since
  faults

slint == <<dirty, frame, spans>>
upload == <<buffer, band, dirtySpans, error, stale, faults>>
vars == <<slint, drawing, redraw, upload, missed>>

Columns == 0..(Width - 1)
Lines == 0..(Height - 1)
Rows == 0..(TileLines - 1)
Pixels == Columns \X Lines
NoLine == -1
Option(S) == {{}} \cup {{x} : x \in S}

(* The dirty region is aligned to blocks of two by two pixels.              *)
Blocks == {{2 * x, 2 * x + 1} \X {2 * y, 2 * y + 1} :
             x \in 0..(Width \div 2 - 1), y \in 0..(Height \div 2 - 1)}

ASSUME LaterBlocksAssumption == LaterBlocks \subseteq Blocks

(* The spans of a region: its runs of pixels, in each line.                 *)
Span == [line : Lines, start : Columns, end : 1..Width]
SpanPixels(s) == {<<x, s.line>> : x \in s.start..(s.end - 1)}
SpansOf(region) ==
  {s \in Span : /\ s.start < s.end
                /\ SpanPixels(s) \subseteq region
                /\ <<s.start - 1, s.line>> \notin region
                /\ <<s.end, s.line>> \notin region}

(* The order in which Slint renders: down the lines, then to the right.     *)
Before(x, y, x2, y2) == y < y2 \/ (y = y2 /\ x < x2)
NextSpan == CHOOSE s \in spans :
              \A t \in spans \ {s} : Before(s.start, s.line, t.start, t.line)

Init ==
  /\ dirty = Pixels /\ frame = {} /\ spans = {}
  /\ drawing = FALSE /\ redraw = FALSE
  /\ buffer = [pixel \in Rows \X Columns |-> NoLine]
  /\ band = {} /\ dirtySpans = <<>> /\ error = FALSE
  /\ stale = Pixels /\ missed = {}
  /\ faults = 0

-----------------------------------------------------------------------------
(* flush_band: a span extends the rectangle that ends above it.  The mutant *)
(* extends one of the same columns wherever it ends.                        *)
SameColumns(r, s) == r.x = s.start /\ r.width = s.end - s.start
Extends(r, s) == SameColumns(r, s) /\ r.y + r.height = s.line

Merged(rectangles, s) ==
  LET above == {r \in rectangles : Extends(r, s)}
  IN IF above = {}
     THEN rectangles \cup {[x |-> s.start, y |-> s.line, width |-> s.end - s.start, height |-> 1]}
     ELSE (rectangles \ above) \cup {[r EXCEPT !.height = @ + 1] : r \in above}

Rectangles ==
  LET merged[n \in 0..Len(dirtySpans)] ==
        IF n = 0 THEN {} ELSE Merged(merged[n - 1], dirtySpans[n])
  IN merged[Len(dirtySpans)]

RectanglePixels(r) == (r.x..(r.x + r.width - 1)) \X (r.y..(r.y + r.height - 1))

(* write_rectangle's conditions.                                            *)
Sendable(r, y) ==
  /\ \A n \in {r.x, r.y, r.width, r.height} : n % 2 = 0
  /\ r.width > 0 /\ r.height > 0
  /\ r.x + r.width <= Width /\ r.y + r.height <= Height
  /\ y <= r.y /\ r.y - y + r.height <= TileLines

(* The panel shows what the buffer holds in the rows of the rectangles.     *)
Sent(rectangles, y) ==
  LET pixels == UNION {RectanglePixels(r) : r \in rectangles}
      right == {p \in pixels : buffer[<<p[2] - y, p[1]>>] = p[2]}
  IN (stale \ right) \cup (pixels \ right)

FlushSucceeds ==
  /\ \A y \in band : /\ \A r \in Rectangles : Sendable(r, y)
                     /\ stale' = Sent(Rectangles, y)
  /\ band = {} => UNCHANGED stale
  /\ UNCHANGED faults

(* A transfer is refused; the driver keeps its bus and its buffer.          *)
Refused == faults < MaxFaults /\ faults' = faults + 1

(* The first rectangle that is not sendable, or whose transfer is refused,  *)
(* ends the flush: those before it have been sent.                          *)
FlushFails ==
  \E y \in band, r \in Rectangles :
    LET before == {q \in Rectangles : Before(q.x, q.y, r.x, r.y)} IN
    /\ \A q \in before : Sendable(q, y)
    /\ stale' = Sent(before, y)
    /\ \/ ~Sendable(r, y) /\ UNCHANGED faults
       \/ Sendable(r, y) /\ Refused

-----------------------------------------------------------------------------
(* The picture changes between frames.                                      *)
Changes ==
  /\ ~drawing
  /\ \E block \in IF missed = {} THEN Blocks ELSE LaterBlocks :
       /\ dirty' = dirty \cup block
       /\ Cardinality(dirty') <= 4 * MaxBlocks
       /\ stale' = stale \cup block
  /\ UNCHANGED <<frame, spans, drawing, redraw, buffer, band, dirtySpans, error,
                 missed, faults>>

(* render_by_line: what Slint has rendered is not dirty any more.           *)
StartsFrame ==
  /\ ~drawing /\ (dirty # {} \/ redraw)
  /\ drawing' = TRUE /\ redraw' = FALSE
  /\ frame' = dirty /\ spans' = SpansOf(dirty) /\ dirty' = {}
  /\ buffer' = [i \in DOMAIN buffer |-> NoLine]
  /\ UNCHANGED <<band, dirtySpans, error, stale, missed, faults>>

BandOf(s) == (s.line \div TileLines) * TileLines
EndsBand == band # {} /\ band # {BandOf(NextSpan)}

(* The push into dirty_spans; the mutant is off by one.                     *)
HasSpare(collected) == Len(collected) <= MaxSpans
HasRoom(collected) == Len(collected) < MaxSpans

(* process_line renders a span into its rows of the buffer.                 *)
Renders(s, collected) ==
  /\ band' = {BandOf(s)}
  /\ buffer' = [i \in DOMAIN buffer |->
                  IF i[1] = s.line - BandOf(s) /\ i[2] \in s.start..(s.end - 1)
                  THEN s.line ELSE buffer[i]]
  /\ \/ /\ HasRoom(collected)
        /\ dirtySpans' = Append(collected, s) /\ UNCHANGED error
     \/ /\ ~HasRoom(collected)
        /\ dirtySpans' = collected /\ error' = TRUE

ProcessLine ==
  /\ spans # {}
  /\ spans' = spans \ {NextSpan}
  /\ \/ error /\ UNCHANGED upload
     \/ ~error /\ ~EndsBand /\ Renders(NextSpan, dirtySpans) /\ UNCHANGED <<stale, faults>>
     \/ ~error /\ EndsBand /\ FlushSucceeds /\ Renders(NextSpan, <<>>)
     \/ /\ ~error /\ EndsBand /\ FlushFails
        /\ error' = TRUE /\ UNCHANGED <<buffer, band, dirtySpans>>
  /\ UNCHANGED <<dirty, frame, drawing, redraw, missed>>

(* finish_frame.  The mutant keeps the spans of a frame that failed.        *)
KeptAfterFrame == IF error THEN dirtySpans ELSE <<>>
SpansAfterFrame == <<>>

FinishFrame ==
  /\ drawing /\ spans = {}
  /\ \/ error /\ UNCHANGED <<stale, faults>> /\ redraw' = TRUE
     \/ ~error /\ FlushFails /\ redraw' = TRUE
     \/ ~error /\ FlushSucceeds /\ UNCHANGED redraw
  /\ missed' = IF redraw' THEN missed \cup frame ELSE missed \ frame
  /\ error' = FALSE /\ band' = {} /\ dirtySpans' = SpansAfterFrame
  /\ drawing' = FALSE /\ frame' = {}
  /\ UNCHANGED <<dirty, spans, buffer>>

Next == Changes \/ StartsFrame \/ ProcessLine \/ FinishFrame

Spec == Init /\ [][Next]_vars

-----------------------------------------------------------------------------
TypeOK ==
  /\ {dirty, frame, stale, missed} \subseteq SUBSET Pixels
  /\ spans \subseteq Span
  /\ {drawing, redraw, error} \subseteq BOOLEAN
  /\ buffer \in [Rows \X Columns -> Lines \cup {NoLine}]
  /\ band \in Option(Lines)
  /\ dirtySpans \in Seq(Span) /\ Len(dirtySpans) <= MaxSpans
  /\ faults \in 0..MaxFaults

(* When no frame is being drawn, the panel shows the picture wherever Slint *)
(* thinks that it does, but for the frames that failed: no span is lost, no *)
(* line is taken from another one's rows, and nothing of a failed frame     *)
(* leaks into the next.                                                     *)
ShownIsDrawn == ~drawing => stale \subseteq dirty \cup missed

(* A frame fails only for a refused transfer, or because the region has     *)
(* more spans in one band than dirty_spans holds: every rectangle of an     *)
(* aligned region can be sent, whatever the bands it crosses and however    *)
(* its spans are merged.                                                    *)
Overflows ==
  \E y \in Lines : Cardinality({s \in SpansOf(frame) : s.line \div TileLines = y}) > MaxSpans
Fails == (~error /\ error') \/ (drawing /\ ~error /\ redraw' /\ ~drawing')
OnlyFaultsFail == [][Fails => faults' > faults \/ Overflows]_vars
=============================================================================
