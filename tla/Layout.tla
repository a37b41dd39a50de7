-------------------------------- MODULE Layout --------------------------------
(***************************************************************************)
(* Where the sources go: layout.js, which the encoder's filtergraph, the   *)
(* channel pages of version 1 and the console's preview use, and           *)
(* clientLayout.ts, with which the React viewer composes for itself.       *)
(*                                                                         *)
(* Sizes are integers; a quotient that the code rounds down to an even     *)
(* number is HalfDown here, so no fraction is needed.                      *)
(***************************************************************************)
EXTENDS Integers

CONSTANTS Canvases,     \* [width, height, gap] that are configured
          Stages,       \* [width, height, gap] that a React page has measured
          Layouts,      \* configured layouts: [kind, cols, rows]
          MaxOnAir      \* bound: sources on air at once

\* The sizes an administrator may choose, made even; what a browser measures, made even
\* and never below 2, which may be narrower than any of them.
ASSUME CanvasesAreValid ==
    /\ Canvases \cup Stages \subseteq [width : Nat, height : Nat, gap : Nat]
    /\ \A c \in Canvases \cup Stages : c.width % 2 = 0 /\ c.height % 2 = 0
    /\ \A c \in Canvases : c.width >= 320 /\ c.height >= 180 /\ c.gap <= 64
    /\ \A c \in Stages : c.width >= 2 /\ c.height >= 2
ASSUME LayoutsAreValid ==
    \A l \in Layouts :
        \/ l.kind \in {"auto", "solo", "row", "column", "spotlight"}
        \/ l.kind = "fixed" /\ l.cols \in 1 .. 24 /\ l.rows \in 1 .. 24
ASSUME OnAirIsCounted == MaxOnAir \in Nat

VARIABLES canvas, layout, onAir, spotlight

layoutVars == <<canvas, layout, onAir, spotlight>>

Most(m, n) == IF m > n THEN m ELSE n
Least(m, n) == IF m < n THEN m ELSE n

\* even(n / k, min)
HalfDown(n, k, min) == Most(min, 2 * (n \div (2 * k)))
even(n, min) == HalfDown(n, 1, min)

clampToCanvas_SizeOnly(cell, width, height) ==
    [x |-> even(cell.x, 0), y |-> even(cell.y, 0),
     w |-> Least(cell.w, width), h |-> Least(cell.h, height)]

clampToCanvas(cell, width, height) ==
    LET w == Least(cell.w, width)
        h == Least(cell.h, height)
    IN  [x |-> even(Most(0, Least(cell.x, width - w)), 0),
         y |-> even(Most(0, Least(cell.y, height - h)), 0),
         w |-> w, h |-> h]

\* "5 items over 2 rows -> [3, 2]"
distribute(count, rows) ==
    [r \in 0 .. rows - 1 |-> count \div rows + (IF r < count % rows THEN 1 ELSE 0)]

\* The row a source is in, and its place there: the top rows are one longer.
RowOf(i, count, rows) ==
    LET base == count \div rows
        long == (count % rows) * (base + 1)
    IN  IF i < long THEN i \div (base + 1) ELSE (count % rows) + (i - long) \div base
PlaceOf(i, count, rows) ==
    LET base == count \div rows
        long == (count % rows) * (base + 1)
    IN  IF i < long THEN i % (base + 1) ELSE (i - long) % base

gridCells(count, c, rows) ==
    LET perRow    == distribute(count, rows)
        maxPerRow == perRow[0]
        cellW     == HalfDown(c.width - c.gap * (maxPerRow + 1), maxPerRow, 2)
        cellH     == HalfDown(c.height - c.gap * (rows + 1), rows, 2)
        offsetY   == HalfDown(c.height - (cellH * rows + c.gap * (rows + 1)), 2, 0)
        left(r)   == HalfDown(c.width - (cellW * perRow[r] + c.gap * (perRow[r] - 1)), 2, 0)
    IN  [i \in 0 .. count - 1 |->
            LET r == RowOf(i, count, rows)
            IN  clampToCanvas([x |-> left(r) + PlaceOf(i, count, rows) * (cellW + c.gap),
                               y |-> c.gap + offsetY + r * (cellH + c.gap),
                               w |-> cellW, h |-> cellH], c.width, c.height)]

\* "One large cell plus a stack of smaller ones down the right-hand side."
spotlightCells(count, c) ==
    LET sideCount == count - 1
        sideW == 2 * (Most(22 * c.width, 22000) \div 200)
        mainW == even(c.width - sideW - c.gap * 3, 2)
        sideH == HalfDown(c.height - c.gap * (sideCount + 1), sideCount, 2)
    IN  IF count = 1
        THEN [i \in {0} |-> [x |-> c.gap, y |-> c.gap,
                             w |-> even(c.width - c.gap * 2, 2), h |-> even(c.height - c.gap * 2, 2)]]
        ELSE [i \in 0 .. count - 1 |->
                clampToCanvas(IF i = 0
                              THEN [x |-> c.gap, y |-> c.gap, w |-> mainW, h |-> even(c.height - c.gap * 2, 2)]
                              ELSE [x |-> c.gap * 2 + mainW, y |-> c.gap + (i - 1) * (sideH + c.gap),
                                    w |-> sideW, h |-> sideH],
                              c.width, c.height)]

WholeCanvas(c) == [i \in {0} |-> [x |-> 0, y |-> 0, w |-> c.width, h |-> c.height]]

\* Math.ceil(count / cols), Math.ceil(Math.sqrt(count))
CeilDiv(count, cols) == (count + cols - 1) \div cols
CeilSqrt(count) == CHOOSE n \in 1 .. count : n * n >= count /\ (n - 1) * (n - 1) < count

\* "A fixed grid keeps its shape: cells are sized for the full matrix".
FixedCells(count, c, cols, rows) ==
    LET cellW == HalfDown(c.width - c.gap * (cols + 1), cols, 2)
        cellH == HalfDown(c.height - c.gap * (rows + 1), rows, 2)
    IN  [i \in 0 .. Least(count, cols * rows) - 1 |->
            clampToCanvas([x |-> c.gap + (i % cols) * (cellW + c.gap),
                           y |-> c.gap + (i \div cols) * (cellH + c.gap),
                           w |-> cellW, h |-> cellH], c.width, c.height)]

\* l names one of the layouts, or a matrix such as "3x3" with its columns and rows.
computeLayout(count, c, l) ==
    CASE count = 0 -> [i \in {} |-> 0]
      [] count > 0 /\ (l.kind = "solo" \/ (l.kind = "auto" /\ count = 1)) -> WholeCanvas(c)
      [] count > 0 /\ l.kind = "spotlight" -> spotlightCells(count, c)
      [] count > 0 /\ l.kind = "row" -> gridCells(count, c, 1)
      [] count > 0 /\ l.kind = "column" -> gridCells(count, c, count)
      [] count > 1 /\ l.kind = "auto" -> gridCells(count, c, CeilDiv(count, CeilSqrt(count)))
      [] OTHER -> FixedCells(count, c, l.cols, l.rows)

-----------------------------------------------------------------------------
(* clientLayout.ts.                                                        *)

\* 9 * cols * rows times the width of a 16:9 picture in a cell, which is
\* min(width / cols, 16/9 * height / rows), so that widths can be compared.
Wider(a, b, c) ==
    LET width(g) == Least(9 * c.width * g.rows, 16 * c.height * g.cols)
    IN  width(a) * b.cols * b.rows >= width(b) * a.cols * a.rows

Grids(count) ==
    {[cols |-> n, rows |-> CeilDiv(count, n)] :
        n \in {m \in 1 .. count : m = 1 \/ (m - 1) * CeilDiv(count, m) < count}}

\* "keep whichever gives the largest picture"; of equals the one tried last.
bestGrid(count, c) ==
    CHOOSE g \in Grids(count) : \A o \in Grids(count) :
        Wider(g, o, c) /\ (o.cols > g.cols => ~Wider(o, g, c))

\* The source in the spotlight takes the large cell, the others keep their order.
computeClientLayout(count, c, index) ==
    CASE count = 0 -> [i \in {} |-> 0]
      [] count = 1 -> WholeCanvas(c)
      [] count > 1 /\ index \in 0 .. count - 1 ->
           LET cells == spotlightCells(count, c)
           IN  [i \in 0 .. count - 1 |-> cells[IF i = index THEN 0 ELSE IF i < index THEN i + 1 ELSE i]]
      [] OTHER -> gridCells(count, c, bestGrid(count, c).rows)

\* "only as tall as its content actually needs", and never above the budget.
naturalFillHeight(count, c) ==
    LET rows == bestGrid(count, c).rows
        cell == gridCells(count, c, rows)[0]
    IN  CASE count = 0 -> 0
          [] count = 1 -> Least(HalfDown(9 * c.width, 16, 2), c.height)
          [] OTHER -> Least(Least(HalfDown(9 * cell.w, 16, 2), cell.h) * rows + c.gap * (rows + 1), c.height)

\* The stage of a channel that is laid out to maximize.
Stage(count, c) == [c EXCEPT !.height = even(naturalFillHeight(count, c), 2)]

-----------------------------------------------------------------------------
(* Sources come and go; a viewer puts one in the spotlight.                *)

LayoutInit == canvas \in Canvases \cup Stages /\ layout \in Layouts /\ onAir = 0 /\ spotlight = -1

SourceComes == onAir < MaxOnAir /\ onAir' = onAir + 1 /\ UNCHANGED <<canvas, layout, spotlight>>

SourceGoes ==
    /\ onAir > 0 /\ onAir' = onAir - 1
    /\ spotlight' = IF spotlight = onAir' THEN -1 ELSE spotlight
    /\ UNCHANGED <<canvas, layout>>

Spotlights(i) == i # spotlight /\ spotlight' = i /\ UNCHANGED <<canvas, layout, onAir>>

LayoutNext == SourceComes \/ SourceGoes \/ \E i \in -1 .. onAir - 1 : Spotlights(i)

-----------------------------------------------------------------------------
LayoutTypeOK ==
    /\ canvas \in Canvases \cup Stages /\ layout \in Layouts
    /\ onAir \in 0 .. MaxOnAir /\ spotlight \in -1 .. onAir - 1

OnCanvas(cell, c) ==
    /\ cell.x >= 0 /\ cell.y >= 0 /\ cell.x + cell.w <= c.width /\ cell.y + cell.h <= c.height
    /\ cell.w > 0 /\ cell.h > 0 /\ cell.w % 2 = 0 /\ cell.h % 2 = 0

\* "All rectangles are clamped to even pixel values because H.264 chroma subsampling
\* requires even dimensions."
Inside(cell, c) == OnCanvas(cell, c) /\ cell.x % 2 = 0 /\ cell.y % 2 = 0

Apart(a, b) == a.x + a.w <= b.x \/ b.x + b.w <= a.x \/ a.y + a.h <= b.y \/ b.y + b.h <= a.y

\* Room for as many cells in a line, gutters included, at more than the least size.
Room(c, n) == c.width >= 2 * n + c.gap * (n + 3) + 220 /\ c.height >= 4 * n + c.gap * (n + 1)

Composes(cells, count, c) ==
    /\ DOMAIN cells = 0 .. count - 1
    /\ \A i \in DOMAIN cells : Inside(cells[i], c)
    /\ Room(c, count) => \A i, j \in DOMAIN cells : i # j => Apart(cells[i], cells[j])

Capacity == CASE layout.kind = "solo" -> 1 [] layout.kind \in {"auto", "row", "column", "spotlight"} -> MaxOnAir
              [] OTHER -> layout.cols * layout.rows

\* The one cell that is not clamped: one source in the spotlight is put a gutter from the
\* edges, on odd pixels when the gutter is odd.
OddCorner == layout.kind = "spotlight" /\ onAir = 1 /\ canvas.gap % 2 = 1

\* Every source on air that the layout has a place for gets a cell on even pixels
\* inside the canvas ("a large gutter with many rows could otherwise place cells
\* past the edge, where they simply vanish with no error"), and no two overlap
\* where there is room; on a configured canvas, in the viewer's grid on a canvas
\* or on whatever stage it measured, and on a stage as tall as its pictures need.
\* With OddCorner the code promises the size and the place inside only.
CellsFit ==
    /\ canvas \in Canvases =>
         LET cells == computeLayout(onAir, canvas, layout)
         IN  IF OddCorner THEN DOMAIN cells = {0} /\ OnCanvas(cells[0], canvas)
             ELSE Composes(cells, Least(onAir, Capacity), canvas)
    /\ Composes(computeClientLayout(onAir, canvas, spotlight), onAir, canvas)
    /\ onAir > 0 => Composes(computeClientLayout(onAir, Stage(onAir, canvas), -1), onAir, Stage(onAir, canvas))
===============================================================================
