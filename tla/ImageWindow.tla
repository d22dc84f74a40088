----------------------------- MODULE ImageWindow -----------------------------
(***************************************************************************)
(* The integer geometry of a product: the pixel window of a box on a       *)
(* level of a COG (Grid.Window, Decimation, PickLevel, LevelGrid of        *)
(* internal/cog, Service.window), the samples that readTile copies, and    *)
(* the mosaic of map tiles of internal/tiles.                              *)
(*                                                                         *)
(* Model coordinates are integers in units of a fraction of a pixel, so    *)
(* that a box may begin anywhere within one; where the code rounds a       *)
(* floating-point quotient, the quotient here is exact.                    *)
(*                                                                         *)
(* A file `f` has f.levels, the directories from full resolution to the    *)
(* coarsest overview, and f.grid.  Levels are counted from 1.              *)
(***************************************************************************)
EXTENDS Integers, Sequences, Rounding

\* Georeferences: the upper left corner and the size of a pixel.
Grids == [originX : Int, originY : Int, scaleX : Int, scaleY : Int]

Boxes == [minX : Int, maxX : Int, minY : Int, maxY : Int]

-----------------------------------------------------------------------------
(* The window of a box.                                                    *)

\* Faulty variant: the end of the window is rounded down.
SpanFloors(origin, scale, n, lo, hi) ==
    [from |-> Larger(FloorDiv(lo - origin, scale), 0),
     to   |-> Smaller(FloorDiv(hi - origin, scale), n)]

\* The pixels from `from` up to `to` that a range of coordinates touches, of
\* the n pixels of the given scale from origin on.
Span(origin, scale, n, lo, hi) ==
    [from |-> Larger(FloorDiv(lo - origin, scale), 0),
     to   |-> Smaller(CeilDiv(hi - origin, scale), n)]

Empty(span) == span.from >= span.to

NoWindow == [ok |-> FALSE]

\* Grid.Window.  Rows count downwards from the upper edge.
Window(g, w, h, box) ==
    LET cols == Span(g.originX, g.scaleX, w, box.minX, box.maxX)
        rows == Span(-g.originY, g.scaleY, h, -box.maxY, -box.minY)
    IN  IF g.scaleX <= 0 \/ g.scaleY <= 0 THEN NoWindow
        ELSE IF Empty(cols) \/ Empty(rows) THEN NoWindow
        ELSE [ok |-> TRUE, x0 |-> cols.from, y0 |-> rows.from,
              w |-> cols.to - cols.from, h |-> rows.to - rows.from]

\* math.Round(full / level), and 1 at least.
Reduction(full, level) == Larger((2 * full + level) \div (2 * level), 1)

Decimation(f, i) == Reduction(f.levels[1].width, f.levels[i].width)

\* A level's output for a window of w x h pixels at full resolution.
FitsLevel(f, i, maxPx, w, h) ==
    /\ CeilDiv(w, Decimation(f, i)) <= maxPx
    /\ CeilDiv(h, Decimation(f, i)) <= maxPx

\* The finest level that fits, or the coarsest there is.
PickLevel(f, maxPx, w, h) ==
    IF maxPx <= 0 THEN 1
    ELSE CHOOSE i \in DOMAIN f.levels :
            /\ FitsLevel(f, i, maxPx, w, h) \/ i = Len(f.levels)
            /\ \A j \in 1 .. i - 1 : ~FitsLevel(f, j, maxPx, w, h)

LevelGrid(f, i) ==
    [f.grid EXCEPT !.scaleX = @ * Decimation(f, i), !.scaleY = @ * Decimation(f, i)]

LevelWindow(f, i, box) ==
    Window(LevelGrid(f, i), f.levels[i].width, f.levels[i].height, box)

-----------------------------------------------------------------------------
(* The tiles of a window, and what readTile copies of each.                *)

\* The tiles of the given size that n pixels from `first` on lie in.
Covering(first, n, size) == TruncDiv(first, size) .. TruncDiv(first + n - 1, size)

CoveringTiles(win, tw, th) ==
    Covering(win.x0, win.w, tw) \X Covering(win.y0, win.h, th)

\* The samples of tile <<tx, ty>> that lie in the window: where each is in the
\* tile's data, rows of tw pixels, and where it goes in the raster.
Copies(win, tile, tw, rows, th, spp) ==
    LET tileX == tile[1] * tw
        tileY == tile[2] * th
    IN  {[src |-> ((y - tileY) * tw + (x - tileX)) * spp + b,
          dst |-> ((y - win.y0) * win.w + (x - win.x0)) * spp + b] :
            x \in Larger(win.x0, tileX) .. Smaller(win.x0 + win.w, tileX + tw) - 1,
            y \in Larger(win.y0, tileY) .. Smaller(win.y0 + win.h, tileY + rows) - 1,
            b \in 0 .. spp - 1}

-----------------------------------------------------------------------------
(* Mosaics of map tiles.                                                   *)

\* The pixels of a map, of so many along each side: globalPx of a box on a
\* map `world` units wide.  North is up: y is measured from the upper edge,
\* after the projection.
MosaicWindow(box, world, side) ==
    LET x0 == FloorDiv(box.minX * side, world)
        y0 == FloorDiv(box.minY * side, world)
        x1 == CeilDiv(box.maxX * side, world)
        y1 == CeilDiv(box.maxY * side, world)
    IN  [ok |-> x0 < x1 /\ y0 < y1, x0 |-> x0, y0 |-> y0, w |-> x1 - x0, h |-> y1 - y0]

\* pickZoom: the deepest zoom at which a size, in tiles of 256 pixels, stays
\* within px; 0 if none does.
ZoomFits(size, world, zoom, px, nominal) == size * 2^zoom * nominal <= px * world

PickZoom(size, world, maxZoom, px, nominal) ==
    CHOOSE z \in 0 .. maxZoom :
        /\ z = 0 \/ ZoomFits(size, world, z, px, nominal)
        /\ \A y \in z + 1 .. maxZoom : ~ZoomFits(size, world, y, px, nominal)

=============================================================================
