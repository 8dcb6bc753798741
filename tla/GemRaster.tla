------------------------------ MODULE GemRaster ------------------------------
(***************************************************************************)
(* The raster core (gem_vdi.c) over the screen drivers (drivers/): lines,  *)
(* filled shapes, forms, glyphs and copies are cut to the clip and become  *)
(* bytes, masks and loops in video memory.  Each action is one call on a   *)
(* screen of its own; "job" keeps what was asked for and which pixels the  *)
(* code has reached, and the properties compare the two.                   *)
(*                                                                         *)
(* A clip or a rectangle is <<x1, y1, x2, y2>>, both corners inside it.    *)
(***************************************************************************)
EXTENDS Integers, FiniteSets, SequencesExt

CONSTANTS
    Width, Height,  \* xres and yres
    ByteCells,      \* pixels in a byte of video memory, rows and columns of a pattern
    WordBits,       \* bits of a coordinate
    Corners,        \* corners of the shapes drawn
    Places,         \* where forms and rectangles are put, some off the screen
    Extents,        \* their widths and heights
    Clips,          \* what clients ask of the clip, as <<count, x, y, width, height>>
    Polygons,       \* sequences of points
    PatternCells,   \* what is set in the pattern and in the forms drawn
    NONE

VARIABLE job

Pixels == (0 .. Width - 1) \X (0 .. Height - 1)
Within(r) == (r[1] .. r[3]) \X (r[2] .. r[4])
Least(a, b) == IF a < b THEN a ELSE b
Most(a, b) == IF a > b THEN a ELSE b

----------------------------------------------------------------------------
(* Clips *)

\* gem_vdi_set_clip
SetClip(c) ==
    IF c[1] = 0 THEN <<0, 0, Width - 1, Height - 1>>
    ELSE <<Most(c[2], 0), Most(c[3], 0),
           Least(c[2] + c[4] - 1, Width - 1), Least(c[3] + c[5] - 1, Height - 1)>>

\* gem_inside_clip
InsideClip(clip, p) == p[1] >= clip[1] /\ p[1] <= clip[3] /\ p[2] >= clip[2] /\ p[2] <= clip[4]

\* The part of x, y, width, height inside the clip.
Cut(clip, x, y, width, height) ==
    <<Most(x, clip[1]), Most(y, clip[2]),
      Least(x + width - 1, clip[3]), Least(y + height - 1, clip[4])>>

----------------------------------------------------------------------------
(* Bytes of video memory.  The pixels of a span are those of the first     *)
(* byte's mask, of whole bytes, and of the last byte's mask.               *)

ByteMask(x1, x2, byte) ==
    {i \in 0 .. ByteCells - 1 :
        /\ byte = x1 \div ByteCells => i >= x1 % ByteCells
        /\ byte = x2 \div ByteCells => i <= x2 % ByteCells}

\* gem_mono_horizontal_line, gem_planar_solid_span
Span(x1, x2, y) ==
    UNION {{<<byte * ByteCells + i, y>> : i \in ByteMask(x1, x2, byte)} :
              byte \in x1 \div ByteCells .. x2 \div ByteCells}

\* gem_mono_fill_rect, gem_planar_fill_rect
Rows(r) == UNION {Span(r[1], r[3], y) : y \in r[2] .. r[4]}

\* gem_mono_fill_pattern, gem_planar_pattern_span: the row of the pattern is
\* the mask of each byte.
PatternRow(y) == {i \in 0 .. ByteCells - 1 : <<i, y % ByteCells>> \in PatternCells}

PatternBytes(x1, x2, y) ==
    UNION {{<<byte * ByteCells + i, y>> : i \in ByteMask(x1, x2, byte) \cap PatternRow(y)} :
              byte \in x1 \div ByteCells .. x2 \div ByteCells}

\* gem_pattern_span: the runs of set bits, from a mask that starts at x1 and
\* wraps after a byte.
PatternRuns(x1, x2, y) ==
    LET set[x \in x1 - 1 .. x2 + 1] ==
            x \in x1 .. x2 /\ ((x1 % ByteCells) + (x - x1)) % ByteCells \in PatternRow(y)
    IN  UNION {Span(r[1], r[2], y) :
                  r \in {q \in (x1 .. x2) \X (x1 .. x2) :
                           /\ \A x \in q[1] .. q[2] : q[1] <= q[2] /\ set[x]
                           /\ q[1] <= q[2] /\ ~set[q[1] - 1] /\ ~set[q[2] + 1]}}

----------------------------------------------------------------------------
(* Lines *)

Half == 2 ^ (WordBits - 1)
Word(v) == ((v + Half) % (2 * Half)) - Half

\* gem_vdi_line for a line that is neither level nor upright, and
\* gem_vdi_pattern_line: the points in the order they are reached.  The walk
\* is given up after "steps" points.
Walk(a, b, steps) ==
    LET dx == Word(Most(a[1], b[1]) - Least(a[1], b[1]))
        dy == Word(Most(a[2], b[2]) - Least(a[2], b[2]))
        sx == IF a[1] < b[1] THEN 1 ELSE -1
        sy == IF a[2] < b[2] THEN 1 ELSE -1
        step[n \in 1 .. steps] ==
            IF n = 1 THEN [at |-> a, error |-> Word(dx - dy), ended |-> a = b]
            ELSE LET last == step[n - 1]
                     twice == Word(2 * last.error)
                     aside == twice > -dy
                     down == twice < dx
                     at == <<last.at[1] + (IF aside THEN sx ELSE 0),
                             last.at[2] + (IF down THEN sy ELSE 0)>>
                 IN  IF last.ended THEN last
                     ELSE [at |-> at,
                           error |-> Word(last.error - (IF aside THEN dy ELSE 0)
                                                     + (IF down THEN dx ELSE 0)),
                           ended |-> at = b]
    IN  step

\* Level and upright lines are cut to the clip and drawn as a span.
LinePixels(clip, a, b, steps) ==
    LET walk == Walk(a, b, steps)
        x == Most(Least(a[1], b[1]), clip[1]) .. Least(Most(a[1], b[1]), clip[3])
        y == Most(Least(a[2], b[2]), clip[2]) .. Least(Most(a[2], b[2]), clip[4])
    IN  IF a[2] = b[2] /\ a[2] \in clip[2] .. clip[4]
        THEN IF x = {} THEN {}
             ELSE Span(Most(Least(a[1], b[1]), clip[1]), Least(Most(a[1], b[1]), clip[3]), a[2])
        ELSE IF a[1] = b[1] /\ a[1] \in clip[1] .. clip[3]
        THEN {a[1]} \X y
        ELSE {walk[n].at : n \in 1 .. steps} \cap {p \in Pixels : InsideClip(clip, p)}

----------------------------------------------------------------------------
(* Polygons *)

\* gem_vdi_fill_polygon_pattern: its edges, the level ones left out.
Edges(points) ==
    LET n == Len(points)
        edge(i) == LET p == points[i]
                       q == points[IF i = n THEN 1 ELSE i + 1]
                   IN  IF q[2] < p[2] THEN <<q, p>> ELSE <<p, q>>
    IN  {<<i, edge(i)>> : i \in {j \in 1 .. n : edge(j)[1][2] # edge(j)[2][2]}}

\* The column an edge has reached on row y: the error is carried from row to
\* row, and the column steps while it is not below dy.
EdgeColumn(e, y) ==
    LET p == e[2][1]
        q == e[2][2]
        dy == q[2] - p[2]
        dx == Most(q[1], p[1]) - Least(q[1], p[1])
        sign == IF q[1] >= p[1] THEN 1 ELSE -1
        row[r \in p[2] .. y] ==
            IF r = p[2] THEN [x |-> p[1], error |-> 0]
            ELSE LET error == row[r - 1].error + dx
                 IN  [x |-> row[r - 1].x + sign * (error \div dy), error |-> error % dy]
    IN  row[y].x

\* The columns where the edges cross a row, in order; an edge ends above the
\* row of its lower point.
Crossings(edges, y) ==
    LET crossing == {e \in edges : e[2][1][2] <= y /\ y <= e[2][2][2] - 1}
    IN  SortSeq(SetToSeq({<<EdgeColumn(e, y), e[1]>> : e \in crossing}),
                LAMBDA a, b : a[1] < b[1])

PolygonPixels(clip, points, Drawn(_, _, _)) ==
    LET edges == Edges(points)
        rows == {y \in clip[2] .. clip[4] : \E e \in edges : y \in e[2][1][2] .. e[2][2][2] - 1}
        pairs(y) == LET c == Crossings(edges, y)
                    IN  {<<Most(c[2 * k - 1][1], clip[1]), Least(c[2 * k][1], clip[3])>> :
                            k \in 1 .. Len(c) \div 2}
    IN  UNION {UNION {Drawn(p[1], p[2], y) : p \in {q \in pairs(y) : q[1] <= q[2]}} : y \in rows}

----------------------------------------------------------------------------
(* Forms and glyphs, whose set bits are PatternCells: gem_vdi_bitmap,      *)
(* gem_vdi_glyph and gem_vdi_form.                                         *)

\* Pixel by pixel, for the modes the driver has no fast path for.
BitmapPoints(clip, x, y, width, height) ==
    {p \in Within(<<x, y, x + width - 1, y + height - 1>>) :
        InsideClip(clip, p) /\ <<p[1] - x, p[2] - y>> \in PatternCells}

\* gem_mono_bitmap_replace, gem_planar_bitmap_replace, and the glyphs: the
\* driver is given the cut rectangle and the source bit and row it begins with.
BitmapBits(clip, x, y, width, height) ==
    LET r == Cut(clip, x, y, width, height)
        source_x == r[1] - x
        skip_rows == r[2] - y
        set == {s \in (0 .. r[3] - r[1]) \X (0 .. r[4] - r[2]) :
                   <<source_x + s[1], skip_rows + s[2]>> \in PatternCells}
    IN  {<<r[1] + s[1], r[2] + s[2]>> : s \in set}

----------------------------------------------------------------------------
(* Copies on the screen.  Memory starts with every pixel holding its own   *)
(* place, so that the order of the writes shows.                           *)

\* The order of steps 0 .. n - 1.
Order(n, reversed) == [k \in 1 .. n |-> IF reversed THEN n - k ELSE k - 1]

\* Mutant: columns always go from left to right.
SlowOrderForward(to, from, width, height) ==
    LET rows == Order(height, to[2] > from[2])
    IN  FlattenSeq([k \in 1 .. height |->
            [j \in 1 .. width |-> <<j - 1, rows[k]>>]])

\* gem_vdi_blit: the offsets in the order they are copied.
SlowOrder(to, from, width, height) ==
    LET rows == Order(height, to[2] > from[2])
        columns == Order(width, to[2] = from[2] /\ to[1] > from[1])
    IN  FlattenSeq([k \in 1 .. height |-> [j \in 1 .. width |-> <<columns[j], rows[k]>>]])

\* gem_pc_screen_blit: pixels up to the first whole byte, whole bytes, and
\* the pixels after the last of them; from the right if it moves right.
FastOrder(to, from, width, height) ==
    LET leading == Least(width, (ByteCells - (to[1] % ByteCells)) % ByteCells)
        boundary == leading + ((width - leading) \div ByteCells) * ByteCells
        rows == Order(height, to[2] > from[2])
        back == to[1] > from[1]
        part(low, high) == [j \in 1 .. high - low |->
                               IF back THEN high - j ELSE low + j - 1]
        columns == IF back
                   THEN part(boundary, width) \o part(leading, boundary) \o part(0, leading)
                   ELSE part(0, leading) \o part(leading, boundary) \o part(boundary, width)
    IN  FlattenSeq([k \in 1 .. height |-> [j \in 1 .. width |-> <<columns[j], rows[k]>>]])

\* What the driver takes: a plain copy, whole on the screen and in the clip,
\* whose two places lie at the same pixel of a byte.
TakesFast(clip, to, from, width, height) ==
    /\ to[1] >= clip[1] /\ to[2] >= clip[2]
    /\ to[1] + width - 1 <= clip[3] /\ to[2] + height - 1 <= clip[4]
    /\ (to[1] - from[1]) % ByteCells = 0

Copied(clip, to, from, width, height) ==
    LET order == IF TakesFast(clip, to, from, width, height)
                 THEN FastOrder(to, from, width, height)
                 ELSE SlowOrder(to, from, width, height)
        Write(memory, o) ==
            LET p == <<to[1] + o[1], to[2] + o[2]>>
            IN  IF InsideClip(clip, p)
                THEN [memory EXCEPT ![p] = memory[<<from[1] + o[1], from[2] + o[2]>>]]
                ELSE memory
    IN  FoldLeft(Write, [p \in Pixels |-> p], order)

----------------------------------------------------------------------------
(* The calls *)

RasterInit == job = NONE

DrawLine(a, b, c) ==
    job' = [op |-> "line", from |-> a, to |-> b, clip |-> SetClip(c),
            drawn |-> LinePixels(SetClip(c), a, b, Width + Height + 8),
            ended |-> Walk(a, b, Width + Height + 8)[Width + Height + 8].ended]

DrawRect(x, y, width, height, c) ==
    LET clip == SetClip(c)
        r == Cut(clip, x, y, width, height)
        empty == r[1] > r[3] \/ r[2] > r[4]
    IN  job' = [op |-> "rect", x |-> x, y |-> y, width |-> width, height |-> height,
                clip |-> clip,
                filled |-> IF empty THEN {} ELSE Rows(r),
                opaque |-> IF empty THEN {} ELSE UNION {PatternBytes(r[1], r[3], v) : v \in r[2] .. r[4]},
                runs |-> IF empty THEN {} ELSE UNION {PatternRuns(r[1], r[3], v) : v \in r[2] .. r[4]},
                bitmap |-> IF empty THEN {} ELSE BitmapBits(clip, x, y, width, height),
                points |-> BitmapPoints(clip, x, y, width, height)]

FillPolygon(points, c) ==
    job' = [op |-> "polygon", points |-> points, clip |-> SetClip(c),
            filled |-> PolygonPixels(SetClip(c), points, Span),
            runs |-> PolygonPixels(SetClip(c), points, PatternRuns)]

Blit(to, from, width, height, c) ==
    /\ from[1] + width <= Width /\ from[2] + height <= Height
    /\ job' = [op |-> "blit", to |-> to, from |-> from, width |-> width, height |-> height,
               clip |-> SetClip(c), memory |-> Copied(SetClip(c), to, from, width, height)]

RasterNext ==
    /\ job = NONE
    /\ \E c \in Clips :
         \/ \E a, b \in Corners : DrawLine(a, b, c)
         \/ \E x, y \in Places, width, height \in Extents :
              \/ DrawRect(x, y, width, height, c)
              \/ \E from \in Pixels : Blit(<<x, y>>, from, width, height, c)
         \/ \E points \in Polygons : FillPolygon(points, c)

RasterSpec == RasterInit /\ [][RasterNext]_job

----------------------------------------------------------------------------
(* Properties *)

Drew(op) == job # NONE /\ job.op = op

\* gem_vdi_line: a line comes to its end, whichever of its three paths draws
\* it, it has a pixel for each step of its longer side, none further than
\* half a pixel from the true line, and the clip takes pixels away and moves
\* none.
LinesAreLines ==
    Drew("line") =>
        LET a == job.from
            b == job.to
            dx == Most(a[1], b[1]) - Least(a[1], b[1])
            dy == Most(a[2], b[2]) - Least(a[2], b[2])
            Near(p) == LET off == (p[1] - a[1]) * (b[2] - a[2]) - (p[2] - a[2]) * (b[1] - a[1])
                       IN  2 * off <= Most(dx, dy) /\ -2 * off <= Most(dx, dy)
            box == Within(<<Least(a[1], b[1]), Least(a[2], b[2]),
                            Most(a[1], b[1]), Most(a[2], b[2])>>)
        IN  /\ job.ended
            /\ \A p \in job.drawn : InsideClip(job.clip, p) /\ p \in box /\ Near(p)
            /\ \A p \in {a, b} : InsideClip(job.clip, p) => p \in job.drawn
            /\ \A k \in Least(a[1], b[1]) .. Most(a[1], b[1]) :
                 dx >= dy /\ (\A y \in Least(a[2], b[2]) .. Most(a[2], b[2]) :
                                InsideClip(job.clip, <<k, y>>))
                 => Cardinality({p \in job.drawn : p[1] = k}) = 1

\* gem_vdi_fill_rect, gem_vdi_fill_pattern, gem_pattern_span: the byte masks
\* make the rectangle, and a pattern lies on the screen's own grid whichever
\* path draws it and wherever the clip begins, so that pieces of it join.
PatternsAreAnchored ==
    Drew("rect") =>
        LET area == {p \in Within(<<job.x, job.y, job.x + job.width - 1, job.y + job.height - 1>>) :
                        InsideClip(job.clip, p)}
            grid == {p \in area : <<p[1] % ByteCells, p[2] % ByteCells>> \in PatternCells}
        IN  job.filled = area /\ job.opaque = grid /\ job.runs = grid

\* gem_vdi_bitmap: a form cut by the clip shows the same of its cells in the
\* driver's bytes as pixel by pixel.
FormsAreCutNotMoved == Drew("rect") => job.bitmap = job.points

\* gem_vdi_fill_polygon_pattern: the pixels between the first and the second
\* crossing of a row, the third and the fourth, and so on; the clip and the
\* pattern take pixels away, and the point it begins with does not matter.
PolygonsAreEvenOdd ==
    Drew("polygon") =>
        LET n == Len(job.points)
            P(i) == job.points[i]
            Q(i) == job.points[IF i = n THEN 1 ELSE i + 1]
            High(i) == IF P(i)[2] < Q(i)[2] THEN P(i) ELSE Q(i)
            Low(i) == IF P(i)[2] < Q(i)[2] THEN Q(i) ELSE P(i)
            At(y) == {i \in 1 .. n : High(i)[2] <= y /\ y < Low(i)[2]}
            Column(i, y) ==
                LET run == (y - High(i)[2]) * (Low(i)[1] - High(i)[1])
                    dy == Low(i)[2] - High(i)[2]
                IN  High(i)[1] + (IF run >= 0 THEN run \div dy ELSE -((-run) \div dy))
            Lit(p) == \/ Cardinality({i \in At(p[2]) : Column(i, p[2]) <= p[1]}) % 2 = 1
                      \/ \E i \in At(p[2]) : Column(i, p[2]) = p[1]
            shape == {p \in Pixels : InsideClip(job.clip, p) /\ Lit(p)}
        IN  /\ \A y \in 0 .. Height - 1 : Cardinality(At(y)) % 2 = 0
            /\ job.filled = shape
            /\ job.runs = {p \in shape : <<p[1] % ByteCells, p[2] % ByteCells>> \in PatternCells}

\* gem_vdi_blit, gem_pc_screen_blit: a copy that overlaps itself is as if all
\* pixels were read before the first is written, by bytes or by pixels.
CopiesAreSimultaneous ==
    Drew("blit") =>
        job.memory = [p \in Pixels |->
            IF InsideClip(job.clip, p)
               /\ p \in Within(<<job.to[1], job.to[2], job.to[1] + job.width - 1,
                                 job.to[2] + job.height - 1>>)
            THEN <<job.from[1] + p[1] - job.to[1], job.from[2] + p[2] - job.to[2]>>
            ELSE p]

RasterSafety ==
    /\ LinesAreLines
    /\ PatternsAreAnchored
    /\ FormsAreCutNotMoved
    /\ PolygonsAreEvenOdd
    /\ CopiesAreSimultaneous
=============================================================================
