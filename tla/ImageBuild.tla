------------------------------ MODULE ImageBuild ------------------------------
(***************************************************************************)
(* One build of a product: buildImage and buildOrthoSTAC, which open a COG, *)
(* cut a window out of one of its levels tile by tile and write it as a    *)
(* GeoTIFF or an encoded image; buildNDVI, which does so with two COGs, a  *)
(* red and a near infrared band; and buildOrthoTiles, which puts a window  *)
(* together from map tiles.                                                *)
(*                                                                         *)
(* CogHeader.tla opens the file; ImageWindow.tla and TiffFile.tla have the *)
(* arithmetic.  The tiles of a window are handled in any order, as the     *)
(* workers of TilePool.tla get to them; here is what each does with its    *)
(* samples.  An index out of range panics in a worker's goroutine, which   *)
(* ends the process.                                                       *)
(***************************************************************************)
EXTENDS CogHeader, ImageWindow, TiffFile

CONSTANTS
    Cases,      \* what is asked for, of which file or tile source; `cog` has the
                \* specifications of files that WriteCOG has made
    StripBytes, \* stripSpec aims at strips of this size: 1 << 20
    Nominal     \* the tile size pickZoom reckons with: 256

\* The fields of a directory that place its pixels are numbers, sound or not.
ASSUME PicturesAssumption ==
    \A f \in Files : \A o \in DOMAIN f.dirs :
        LET d == f.dirs[o]
        IN  /\ d.width \in Int /\ d.height \in Int /\ d.tw \in Int /\ d.th \in Int
            /\ d.factor \in Int /\ d.salt \in Int
            /\ d.grid \in Grids

\* The box of map tiles is `size` units wide and high on the ground, as pickZoom
\* reckons: sizeKM by the map's resolution at the centre's latitude.  AOIDegrees
\* has other numbers of kilometres to the degree: 111.320 to one of longitude,
\* which is 5 millionths more, and 110.574 to one of latitude, 7 thousandths less.
\* So the box is no wider than pickZoom thinks, and a little higher.
ASSUME CasesAssumption ==
    \A c \in Cases :
        /\ c.kind \in {"cog", "ndvi", "tiles"}
        /\ c.file \in Files /\ c.box \in Boxes /\ c.maxPx \in Int
        /\ c.kind = "ndvi" => c.nir \in Files
        /\ c.kind = "tiles" =>
            /\ c.world \in Nat \ {0} /\ c.maxZoom \in Nat /\ c.ts \in Nat \ {0}
            /\ c.size \in Nat /\ c.box.maxX - c.box.minX <= c.size
        /\ c.kind # "tiles" =>
            c.tags.keys \in Nat /\ c.tags.ascii \in Nat /\ c.tags.noData \in Nat
        /\ \A spec \in c.cog : CogSpec(spec) /\ CogFits(spec)
        /\ c.cog # {} =>
            {c.file} \cup (IF c.kind = "ndvi" THEN {c.nir} ELSE {}) \subseteq {WriteCog(spec) : spec \in c.cog}

ASSUME StripBytesAssumption == StripBytes \in Nat \ {0}
ASSUME NominalAssumption == Nominal \in Nat \ {0}

VARIABLES
    request,    \* the case
    phase,      \* of the build
    why,        \* what it failed of
    red,        \* the opened red band, while the other is opened and read
    bands,      \* the rasters read before the present one
    level,      \* the level it reads, from 1 on; 0 for a mosaic
    win,        \* its window
    raster,     \* the samples, rows of win.w pixels, counted from 0
    todoTiles,  \* the tiles still to be copied
    blank       \* the map tiles the server has not

readVars == <<level, win, raster, todoTiles, blank>>
buildVars == <<request, phase, why, red, bands, readVars>>
vars == <<headerVars, buildVars>>

NoFile == [levels |-> <<>>, first |-> 0, grid |-> <<>>]

Init ==
    /\ request \in Cases
    /\ file = request.file
    /\ HeaderInit
    /\ phase = IF request.kind = "tiles" THEN "mosaic" ELSE "open"
    /\ why = "none"
    /\ red = NoFile
    /\ bands = <<>>
    /\ level = 0
    /\ win = NoWindow
    /\ raster = <<>>
    /\ todoTiles = {}
    /\ blank = {}

\* What stands in a file or on a map: any function that tells the samples
\* apart will do.
Pixel(salt, x, y, b, bits) == (101 * x + 57 * y + 31 * b + salt) % 2^bits

\* What a level holds: every pixel is one of the full resolution's.
LevelPixel(d, x, y, b) == Pixel(d.salt, d.factor * x, d.factor * y, b, d.bits)

End(p, reason) ==
    /\ phase' = p
    /\ why' = reason
    /\ UNCHANGED <<request, red, bands, readVars>>

-----------------------------------------------------------------------------
(* Open and the choice of the window.                                      *)

OpenStep == phase = "open" /\ HeaderNext /\ UNCHANGED buildVars

OpenFails ==
    /\ phase = "open" /\ stage = "failed"
    /\ End("error", "header")
    /\ UNCHANGED headerVars

\* The directories in order of their width, the widest first; those of the
\* same width keep their order (sort.SliceStable).
Rank(i) ==
    Cardinality({j \in DOMAIN ifds :
        \/ file.dirs[ifds[j]].width > file.dirs[ifds[i]].width
        \/ file.dirs[ifds[j]].width = file.dirs[ifds[i]].width /\ j <= i})

\* The opened file: its levels, and the grid of the directory that came first.
Opened ==
    LET ranked(r) == ifds[CHOOSE i \in DOMAIN ifds : Rank(i) = r]
    IN  [levels |-> [r \in DOMAIN ifds |-> file.dirs[ranked(r)]],
         first |-> ranked(1), grid |-> file.dirs[ifds[1]].grid]

TwoBands == request.kind = "ndvi"

\* The file that places the product, and the one that is being read.
Placing == IF TwoBands THEN red ELSE Opened

Reading == IF TwoBands /\ bands = <<>> THEN red ELSE Opened

Level == Reading.levels[level]

\* The red band is open, the near infrared one is next.
OpenNir ==
    /\ phase = "open" /\ stage = "opened"
    /\ TwoBands /\ red = NoFile
    /\ red' = Opened
    /\ Reopen(request.nir)
    /\ UNCHANGED <<request, phase, why, bands, readVars>>

\* The bounds ReadWindow insists on.
InRaster(w, d) ==
    /\ w.x0 >= 0 /\ w.y0 >= 0 /\ w.w > 0 /\ w.h > 0
    /\ w.x0 + w.w <= d.width /\ w.y0 + w.h <= d.height

SameSize(f, g, i) ==
    /\ i <= Len(g.levels)
    /\ f.levels[i].width = g.levels[i].width /\ f.levels[i].height = g.levels[i].height

\* ReadWindow begins: a raster of zeros, and the tiles the window lies in.
StartRead(lv, w, size, tiles) ==
    /\ phase' = "read"
    /\ level' = lv
    /\ win' = w
    /\ raster' = [i \in 0 .. size - 1 |-> 0]
    /\ todoTiles' = tiles
    /\ UNCHANGED <<request, why, red, blank>>

StartLevel(lv, w, d) ==
    StartRead(lv, w, w.w * w.h * d.spp, CoveringTiles(w, TileWidth(d), TileHeight(d)))

\* Service.window: the window at full resolution picks the level, and the box
\* is cut anew on the level's own grid.  buildNDVI compares the two levels.
PickWindow ==
    /\ phase = "open" /\ stage = "opened"
    /\ TwoBands => red # NoFile
    /\ \E f \in {Placing} :
       \E full \in {Window(f.grid, f.levels[1].width, f.levels[1].height, request.box)} :
        IF ~full.ok THEN End("error", "outside")
        ELSE \E i \in {PickLevel(f, request.maxPx, full.w, full.h)} :
             \E w \in {LevelWindow(f, i, request.box)} :
                IF ~w.ok THEN End("error", "outside")
                ELSE IF TwoBands /\ ~SameSize(f, Opened, i) THEN End("error", "grids")
                ELSE IF ~InRaster(w, f.levels[i]) THEN End("error", "bounds")
                ELSE StartLevel(i, w, f.levels[i]) /\ UNCHANGED bands
    /\ UNCHANGED headerVars

\* The red raster is complete, the same window of the other band is next.
NextBand ==
    /\ phase = "read" /\ todoTiles = {}
    /\ TwoBands /\ bands = <<>>
    /\ bands' = <<raster>>
    /\ StartLevel(level, win, Opened.levels[level])
    /\ UNCHANGED headerVars

-----------------------------------------------------------------------------
(* ReadWindow, readTile.                                                   *)

\* How many rows a tile has: a last strip only those that remain.
Rows(d, ty) ==
    IF d.layout = "tiles" THEN TileHeight(d)
    ELSE Smaller(TileHeight(d), d.height - ty * TileHeight(d))

\* The samples of a tile, padded; of a strip, those of its rows.
Contents(d, tile) ==
    LET tw == TileWidth(d)
        pixel(x, y, b) == LevelPixel(d, x, y, b)
    IN  ExtractTile(pixel, d.width, d.height, d.spp, tile, tw, TileHeight(d), Rows(d, tile[2]))

\* What the file holds of them.
Stored(d, samples) ==
    IF d.predictor = 2 THEN ApplyPredictor(samples, TileWidth(d) * d.spp, d.spp, d.bits)
    ELSE samples

Index(d, tile) == tile[2] * Across(d) + tile[1]

\* What readTile makes of it: zeros for a tile that takes no bytes.
Decoded(d, tile, stored) ==
    IF Index(d, tile) \in d.sparse THEN [p \in DOMAIN stored |-> 0]
    ELSE IF d.predictor = 2
         THEN UndoPredictor(stored, TileWidth(d) * d.spp, d.spp, d.bits)
         ELSE stored

Blit(copies, data) ==
    [i \in DOMAIN raster |->
        IF \E c \in copies : c.dst = i
        THEN data[(CHOOSE c \in copies : c.dst = i).src]
        ELSE raster[i]]

ReadTile(tile) ==
    /\ phase = "read" /\ request.kind # "tiles"
    /\ tile \in todoTiles
    /\ \E d \in {Level} :
       \E samples \in {Contents(d, tile)} :
       \E stored \in {Stored(d, samples)} :
       \E data \in {Decoded(d, tile, stored)},
          copies \in {Copies(win, tile, TileWidth(d), Rows(d, tile[2]), TileHeight(d), d.spp)} :
           IF /\ Index(d, tile) < d.offsets /\ Index(d, tile) < d.counts
              /\ \A c \in copies : c.src \in DOMAIN data /\ c.dst \in DOMAIN raster
           THEN /\ raster' = Blit(copies, data)
                /\ todoTiles' = todoTiles \ {tile}
                /\ UNCHANGED <<request, phase, why, red, bands, level, win, blank>>
           ELSE End("panic", "index")
    /\ UNCHANGED headerVars

\* A request fails, or a tile is short or does not inflate.
ReadTileFails ==
    /\ phase = "read" /\ todoTiles # {}
    /\ End("error", "tile")
    /\ UNCHANGED headerVars

-----------------------------------------------------------------------------
(* tiles.Fetch.                                                            *)

Zoom == PickZoom(request.size, request.world, request.maxZoom, request.maxPx, Nominal)

\* The pixels along a side of the map, and its part that is asked for.
Side == 2^Zoom * request.ts

Mosaic == MosaicWindow(request.box, request.world, Side)

\* AOIDegrees refuses a box that leaves the map on the left or right, validate
\* one that leaves it above or below, an empty one and a zoom beyond 24.
CutMosaic ==
    /\ phase = "mosaic"
    /\ LET box == request.box
       IN  IF box.minX < 0 \/ box.maxX > request.world THEN End("error", "antimeridian")
           ELSE IF box.minY <= 0 \/ box.maxY >= request.world THEN End("error", "latitude")
           ELSE IF box.minX >= box.maxX \/ box.minY >= box.maxY THEN End("error", "empty")
           ELSE IF Zoom > 24 THEN End("error", "zoom")
           ELSE IF ~Mosaic.ok THEN End("error", "outside")
           ELSE /\ StartRead(0, Mosaic, Mosaic.w * Mosaic.h,
                            CoveringTiles(Mosaic, request.ts, request.ts))
                /\ UNCHANGED bands
    /\ UNCHANGED headerVars

\* A tile of the map, as the server sends it.
MapTile(tile, ts) ==
    [p \in Positions(ts * ts) |-> Pixel(0, tile[1] * ts + (p % ts), tile[2] * ts + (p \div ts), 0, 8)]

\* draw.Draw of a tile, clipped to the mosaic.
DrawTile(tile) ==
    /\ phase = "read" /\ request.kind = "tiles"
    /\ tile \in todoTiles
    /\ LET ts == request.ts
       IN  \E data \in {MapTile(tile, ts)}, copies \in {Copies(win, tile, ts, ts, ts, 1)} :
               raster' = Blit(copies, data)
    /\ todoTiles' = todoTiles \ {tile}
    /\ UNCHANGED <<request, phase, why, red, bands, level, win, blank, headerVars>>

\* 404 or 204: outside the coverage, the mosaic stays black there.
SkipTile(tile) ==
    /\ phase = "read" /\ request.kind = "tiles"
    /\ tile \in todoTiles
    /\ todoTiles' = todoTiles \ {tile}
    /\ blank' = blank \cup {tile}
    /\ UNCHANGED <<request, phase, why, red, bands, level, win, raster, headerVars>>

-----------------------------------------------------------------------------
(* The product.                                                            *)

Samples == IF request.kind = "tiles" THEN 1 ELSE Level.spp

\* tiffGeo: the origin of the window on the level's grid.
ProductGrid ==
    LET g == LevelGrid(Placing, level)
    IN  [g EXCEPT !.originX = @ + win.x0 * g.scaleX, !.originY = @ - win.y0 * g.scaleY]

\* render.NDVI of a pixel: the quotient of the two numbers.
Ndvi(r, n) == IF r + n = 0 THEN <<"NaN">> ELSE <<n - r, n + r>>

\* The samples of the product.
Values == IF TwoBands THEN [i \in DOMAIN raster |-> Ndvi(bands[1][i], raster[i])] ELSE raster

\* What WriteRGB8 and WriteFloat32 write of a sample.
Looks ==
    IF TwoBands THEN [spp |-> 1, bits |-> 32, format |-> "float"]
    ELSE [spp |-> 3, bits |-> 8, format |-> "uint"]

RowSamples == Looks.spp * win.w

Rps == RowsPerStrip(RowSamples * (Looks.bits \div 8), win.h, StripBytes)

\* The strips of the samples.
ProductStrips ==
    LET values == Values
        strip(i) == LET r == StripRows(i, Rps, win.h)
                    IN  [p \in 1 .. (r[2] - r[1]) * RowSamples |-> values[r[1] * RowSamples + p - 1]]
    IN  [i \in 1 .. StripCount(win.h, Rps) |-> strip(i)]

\* And the file around them.  A strip takes a byte less than its samples when
\* it is deflated.
GeoTiff(strips) ==
    LET geo == [scale |-> ProductGrid.scaleX, keys |-> request.tags.keys,
                ascii |-> request.tags.ascii,
                noData |-> IF TwoBands THEN Len("nan") ELSE request.tags.noData]
    IN  WriteFile(<<[tags |-> StripTags(Looks.spp, geo), places |-> {273, 279},
                     segs |-> [i \in DOMAIN strips |-> Len(strips[i]) * (Looks.bits \div 8) - 1]]>>)

\* What WriteRGB8, render.TrueColor and render.NDVI take.  A product of map
\* tiles is their mosaic.
Writable ==
    CASE request.kind = "tiles" -> TRUE
      [] TwoBands ->
            \A f \in {red, Opened} : f.levels[level].bits = 16 /\ f.levels[level].spp = 1
      [] OTHER ->
            Level.bits = 8 /\ Level.spp \in (IF request.format = "gtiff" THEN {3} ELSE {3, 4})

\* The raster becomes the product: its strips, and the file around them.
Write ==
    /\ phase = "read" /\ todoTiles = {}
    /\ TwoBands => bands # <<>>
    /\ IF Writable
       THEN phase' = "done" /\ UNCHANGED <<request, why, red, bands, readVars>>
       ELSE End("error", "format")
    /\ UNCHANGED headerVars

-----------------------------------------------------------------------------
Next ==
    \/ OpenStep \/ OpenFails \/ OpenNir \/ PickWindow \/ NextBand
    \/ CutMosaic
    \/ \E tile \in todoTiles : ReadTile(tile) \/ DrawTile(tile) \/ SkipTile(tile)
    \/ ReadTileFails
    \/ Write

Spec == Init /\ [][Next]_vars

\* The build's goroutine runs and its requests end by their timeouts.
FairSpec == Spec /\ WF_vars(Next)

-----------------------------------------------------------------------------
(* Properties.                                                             *)

\* The raster is complete.
Built == phase \in {"read", "done"} /\ todoTiles = {}

\* No worker panics, and a raster that is complete holds, pixel by pixel, the
\* window of the level: through the choice of the tiles, the offsets in a tile
\* and in the raster, padding, last strips, absent tiles and the predictor.
\* The second band is read where the first was, and both are of one size.  A
\* mosaic holds its part of the map, black where the server has no tile.
RasterIsWindow ==
    LET d == Level
        spp == Samples
        stored(x, y, b) ==
            IF Index(d, <<x \div TileWidth(d), y \div TileHeight(d)>>) \in d.sparse THEN 0
            ELSE LevelPixel(d, x, y, b)
        drawn(x, y, b) ==
            IF <<x \div request.ts, y \div request.ts>> \in blank THEN 0
            ELSE Pixel(0, x, y, b, 8)
    IN  /\ phase # "panic"
        /\ Built =>
            /\ \A x \in 0 .. win.w - 1, y \in 0 .. win.h - 1, b \in 0 .. spp - 1 :
                raster[(y * win.w + x) * spp + b] =
                    IF request.kind = "tiles" THEN drawn(win.x0 + x, win.y0 + y, b)
                    ELSE stored(win.x0 + x, win.y0 + y, b)
            /\ phase = "done" /\ TwoBands =>
                SameSize(red, Opened, level) /\ DOMAIN bands[1] = DOMAIN raster

\* The overviews have the sizes their factors say, and Open finds the full
\* resolution, whose grid it takes, first.
Regular(f) ==
    /\ f.first = 8
    /\ \A i \in DOMAIN f.levels :
        LET d == f.levels[i]
        IN  /\ Decimation(f, i) = d.factor
            /\ d.width = CeilDiv(f.levels[1].width, d.factor)
            /\ d.height = CeilDiv(f.levels[1].height, d.factor)

\* What the box and the full raster have in common, columns or rows.
Common(origin, scale, n, lo, hi) ==
    <<Larger(lo, origin), Smaller(hi, origin + n * scale)>>

\* A window of n of the level's `size` pixels covers a range with less than a
\* pixel to spare on either side.  (The last pixel of an overview may reach
\* beyond the full raster.)
Hugs(origin, scale, size, from, n, range) ==
    /\ origin + from * scale <= range[1] /\ range[1] < origin + (from + 1) * scale
    /\ origin + (from + n - 1) * scale < range[2] /\ range[2] <= origin + (from + n) * scale
    /\ from + n <= size

\* The output is the part of the box that the file or the map has, no less and
\* less than a pixel more on each side, clamped to the raster.  No finer level
\* would have done: its own window exceeds the size asked for on one side.  A
\* level that fits keeps to that size wherever the window begins at the edge of
\* one of its pixels; and so does the width of a mosaic of 256 pixel tiles.
\* (Elsewhere it takes a pixel more, and a mosaic is higher than it is asked to
\* be.)  A point is outside the scene only if the box misses it.
OutputHugsBox ==
    LET box == request.box
        px == request.maxPx
        f == Placing
        full == f.levels[1]
        g == f.grid
        d == f.levels[level]
        lg == LevelGrid(f, level)
        columns == Common(g.originX, g.scaleX, full.width, box.minX, box.maxX)
        rows == Common(-g.originY, g.scaleY, full.height, -box.maxY, -box.minY)
        whole == Window(g, full.width, full.height, box)
        asked == \E i \in DOMAIN f.levels : FitsLevel(f, i, px, whole.w, whole.h)
    IN  /\ Built /\ request.kind = "tiles" =>
            /\ Hugs(0, request.world, Side, win.x0, win.w, <<box.minX * Side, box.maxX * Side>>)
            /\ Hugs(0, request.world, Side, win.y0, win.h, <<box.minY * Side, box.maxY * Side>>)
            /\ Zoom > 0 /\ request.ts = Nominal /\ (box.minX * Side) % request.world = 0 =>
                win.w <= px
        /\ Built /\ request.kind # "tiles" /\ Regular(f) =>
            /\ Hugs(g.originX, lg.scaleX, d.width, win.x0, win.w, columns)
            /\ Hugs(-g.originY, lg.scaleY, d.height, win.y0, win.h, rows)
            /\ px > 0 => \A i \in 1 .. level - 1 :
                LET finer == LevelWindow(f, i, box) IN finer.w > px \/ finer.h > px
            /\ px > 0 /\ asked =>
                /\ whole.x0 % Decimation(f, level) = 0 => win.w <= px
                /\ whole.y0 % Decimation(f, level) = 0 => win.h <= px
        /\ phase = "error" /\ request.kind # "tiles" =>
            /\ why # "bounds"
            /\ why = "outside" /\ Regular(f) =>
                g.scaleX <= 0 \/ columns[1] >= columns[2] \/ rows[1] >= rows[2]

\* The image of a product, as its tags tell it.
ProductImage(strips) ==
    [width |-> Uint32(win.w), height |-> Uint32(win.h),
     layout |-> "strips", tw |-> 0, th |-> Uint32(Rps),
     compression |-> "deflate", planar |-> 1, bits |-> Looks.bits, format |-> Looks.format,
     predictor |-> 1, spp |-> Looks.spp,
     offsets |-> Uint32(Len(strips)), counts |-> Uint32(Len(strips))]

\* What the tags of a product can tell: a file of less than 4 GiB, and its sides.
ProductFits(written) == written.size < Longs /\ win.w < Longs /\ win.h < Longs

\* The window that is all of a product.
AllOfIt == [ok |-> TRUE, x0 |-> 0, y0 |-> 0, w |-> win.w, h |-> win.h]

\* The strips of a product, read as ReadWindow would, give its samples back,
\* every one of them.
StripsReadBack(strips) ==
    LET d == ProductImage(strips)
        values == Values
        copies(i) == Copies(AllOfIt, <<0, i - 1>>, win.w, Rows(d, i - 1), TileHeight(d), d.spp)
    IN  /\ \A i \in DOMAIN strips : \A c \in copies(i) :
            c.src < Len(strips[i]) /\ strips[i][c.src + 1] = values[c.dst]
        /\ {c.dst : c \in UNION {copies(i) : i \in DOMAIN strips}} = DOMAIN values

\* The box that was asked for is all of the product.
BoxIsWhole == Window(ProductGrid, win.w, win.h, request.box) = AllOfIt

\* A file within the limits of Open: the size of a header, the number of the
\* directories, the sides of a tile or strip.
InReach(written, images) ==
    /\ written.dirs[Len(images)].end <= HdrMax /\ Len(images) <= MaxIFDs
    /\ \A i \in DOMAIN images : TileWidth(images[i]) <= 2^14 /\ TileHeight(images[i]) <= 2^14

\* A GeoTIFF that the service writes is one that it reads: its parts lie apart,
\* and the box that was asked for is all of it; and if its size fits a classic
\* TIFF, its tables tell where the parts are, Open takes it unless its header is
\* too large, and reading its strips gives the samples back.  WriteCOG's files
\* lie apart and are opened too.
ProductReadable ==
    /\ phase = "done" => \A spec \in request.cog :
        Apart(CogWritten(spec)) /\ TellsTrue(CogWritten(spec))
    /\ why = "header" /\ request.cog # {} /\ ~trouble =>
        \E spec \in request.cog : ~InReach(CogWritten(spec), CogImages(spec))
    /\ phase = "done" /\ request.kind # "tiles" /\ request.format = "gtiff" =>
        LET strips == ProductStrips
            images == <<ProductImage(strips)>>
            written == GeoTiff(strips)
        IN  /\ Apart(written) /\ BoxIsWhole
            /\ ProductFits(written) =>
                /\ TellsTrue(written)
                /\ InReach(written, images) => WellFormed(AsRead(written, images), <<8>>)
                /\ StripsReadBack(strips)

\* Every build ends, on a circular chain of directories too.
BuildEnds == <>(phase \in {"done", "error", "panic"})

=============================================================================
