------------------------------- MODULE TiffFile -------------------------------
(***************************************************************************)
(* The files of internal/tiffw: the strips and the layout of a product     *)
(* (writer.go), the tiles of a COG (builder.go), and the horizontal        *)
(* predictor that the one applies and internal/cog undoes.                 *)
(*                                                                         *)
(* A file is given as what CogHeader.tla reads of it, with the place of    *)
(* every segment.  Compression keeps the content and changes the length.   *)
(***************************************************************************)
EXTENDS Integers, SequencesExt, Rounding

CONSTANTS
    Shorts,     \* how many numbers a SHORT of a classic TIFF can tell: 2^16
    Longs       \* and a LONG, as its offsets are: 2^32

ASSUME WidthsAssumption == Shorts \in Nat \ {0} /\ Longs \in Nat \ {0}

\* What is left of a number in a SHORT or a LONG.
Uint16(n) == n % Shorts

Uint32(n) == n % Longs

\* Segments hold samples; a position in a segment is counted from 0.
Positions(n) == 0 .. n - 1

-----------------------------------------------------------------------------
(* Predictor 2.  The samples of a row of `row` samples are differenced with *)
(* the ones spp before them, in the width of a sample.                     *)

ApplyPredictor(data, row, spp, bits) ==
    [p \in DOMAIN data |->
        IF p % row < spp THEN data[p] ELSE (data[p] - data[p - spp]) % 2^bits]

\* Faulty variant: the first pixel of a row is summed with the row before.
UndoPredictorAcross(data, row, spp, bits) ==
    LET sum[p \in DOMAIN data] ==
            IF p < spp THEN data[p] ELSE (data[p] + sum[p - spp]) % 2^bits
    IN  sum

UndoPredictor(data, row, spp, bits) ==
    LET sum[p \in DOMAIN data] ==
            IF p % row < spp THEN data[p] ELSE (data[p] + sum[p - spp]) % 2^bits
    IN  sum

-----------------------------------------------------------------------------
(* Tiles: extractTile pads them with zeros past the right and lower edges. *)

\* `pixel` gives the samples of a level of w x h pixels.  Of a tile th pixels
\* high it is the first rows that are wanted.
ExtractTile(pixel(_, _, _), w, h, spp, tile, tw, th, rows) ==
    [p \in Positions(tw * rows * spp) |->
        LET x == tile[1] * tw + ((p \div spp) % tw)
            y == tile[2] * th + (p \div (spp * tw))
        IN  IF x < w /\ y < h THEN pixel(x, y, p % spp) ELSE 0]

-----------------------------------------------------------------------------
(* The writer: stripSpec and writeFile.                                    *)

\* Faulty variant: a last strip that is not full is left out.
StripCountDown(h, rps) == h \div rps

StripCount(h, rps) == CeilDiv(h, rps)

\* As many rows as fit stripBytes, one at least and all at most.
RowsPerStrip(rowBytes, h, stripBytes) ==
    LET rps == stripBytes \div rowBytes
    IN  Smaller(IF rps < 1 THEN 1 ELSE rps, h)

\* The rows of the i-th strip: from the first up to the second.
StripRows(i, rps, h) == <<(i - 1) * rps, Smaller(i * rps, h)>>

\* The tags that stripSpec and WriteCOG both give, and those of geoTags.
ImageTags == {256, 257, 258, 259, 262, 277, 284, 339}

GeoTags(geo) ==
    {t \in {33550, 33922} : geo.scale > 0} \cup {t \in {34735} : geo.keys > 0}
        \cup {t \in {34737} : geo.ascii > 0} \cup {t \in {42113} : geo.noData > 0}

\* The bytes of one of a tag's values, and of all of them.
UnitBytes(t) ==
    CASE t \in {254, 256, 257, 273, 278, 279, 324, 325} -> 4
      [] t \in {33550, 33922} -> 8
      [] t \in {34737, 42113} -> 1
      [] OTHER -> 2

TagBytes(t, spp, geo) ==
    CASE t \in {258, 339} -> 2 * spp
      [] t = 33550 -> 24
      [] t = 33922 -> 48
      [] t = 34735 -> 2 * geo.keys
      [] t = 34737 -> geo.ascii + 1
      [] t = 42113 -> geo.noData + 1
      [] t \in {254, 256, 257, 278} -> 4
      [] OTHER -> 2

StripTags(spp, geo) ==
    [t \in ImageTags \cup {278} \cup GeoTags(geo) |-> TagBytes(t, spp, geo)]

TileTags(spp, base, geo) ==
    [t \in ImageTags \cup {317, 322, 323} \cup (IF base THEN GeoTags(geo) ELSE {254}) |->
        TagBytes(t, spp, geo)]

Even(n) == n + (n % 2)

\* Things of the given sizes one after the other, each at an even offset.
Place(sizes, start) ==
    LET at[i \in 0 .. Len(sizes)] ==    \* the end of the i-th
            IF i = 0 THEN start ELSE Even(at[i - 1]) + sizes[i]
    IN  [i \in DOMAIN sizes |-> Even(at[i - 1])]

\* The numbers of a set in ascending order.
Ascending(S) ==
    [i \in 1 .. Cardinality(S) |->
        CHOOSE x \in S : Cardinality({y \in S : y < x}) = i - 1]

EndOf(offs, sizes, start) ==
    IF sizes = <<>> THEN start ELSE offs[Len(sizes)] + sizes[Len(sizes)]

\* A directory: its table, and its values of more than four bytes behind it in
\* the order of their tags.  Two tags are for the places of its segments.
Directory(spec, start) ==
    LET tags == [t \in DOMAIN spec.tags \cup spec.places |->
                    IF t \in spec.places THEN 4 * Len(spec.segs) ELSE spec.tags[t]]
        outline == Ascending({t \in DOMAIN tags : tags[t] > 4})
        sizes == [i \in DOMAIN outline |-> tags[outline[i]]]
        len == 2 + 12 * Cardinality(DOMAIN tags) + 4
        offs == Place(sizes, start + len)
        at(t) == CHOOSE i \in DOMAIN outline : outline[i] = t
    IN  [off |-> start, len |-> len,
         vals |-> [t \in ToSet(outline) |-> <<offs[at(t)], offs[at(t)] + tags[t]>>],
         end |-> EndOf(offs, sizes, start + len)]

\* The directories one after the other, and the segments of all of them.  The
\* places are ints, as the buffer's are; what the tables tell of them is LONGs:
\* the offset of the directory that follows, and the offset and the length of
\* each segment.  (A directory has no more tags than a SHORT can count.)
WriteFile(specs) ==
    LET dirs[i \in DOMAIN specs] ==
            Directory(specs[i], IF i = 1 THEN 8 ELSE dirs[i - 1].end)
        sizes == FlattenSeq([i \in DOMAIN specs |-> specs[i].segs])
        base == dirs[Len(specs)].end
        segs == Place(sizes, base)
    IN  [dirs |-> dirs, segs |-> [j \in DOMAIN segs |-> <<segs[j], segs[j] + sizes[j]>>],
         size |-> EndOf(segs, sizes, base),
         next |-> [i \in DOMAIN specs |-> IF i < Len(specs) THEN Uint32(dirs[i + 1].off) ELSE 0],
         told |-> [j \in DOMAIN segs |-> <<Uint32(segs[j]), Uint32(sizes[j])>>]]

\* The tables tell of every part where it is.
TellsTrue(written) ==
    /\ \A i \in DOMAIN written.dirs :
        written.next[i] = IF i < Len(written.dirs) THEN written.dirs[i + 1].off ELSE 0
    /\ \A j \in DOMAIN written.segs :
        LET at == written.told[j] IN <<at[1], at[1] + at[2]>> = written.segs[j]
    /\ \A i \in DOMAIN written.dirs : \A t \in DOMAIN written.dirs[i].vals :
        Uint32(written.dirs[i].vals[t][1]) = written.dirs[i].vals[t][1]

\* The parts of a file, each with its first byte and the one behind its last:
\* segment j is <<0, j>>; of directory i, the table is <<i, 0>> and the values of
\* tag t are <<i, t>>.
Parts(written) ==
    LET dirs == written.dirs
    IN  {<<<<0, j>>, written.segs[j]>> : j \in DOMAIN written.segs}
            \cup {<<<<i, 0>>, <<dirs[i].off, dirs[i].off + dirs[i].len>>>> : i \in DOMAIN dirs}
            \cup UNION {{<<<<i, t>>, dirs[i].vals[t]>> : t \in DOMAIN dirs[i].vals} : i \in DOMAIN dirs}

\* No two parts of a file overlap, and all lie within it, behind its header.
Apart(written) ==
    \A p, q \in Parts(written) :
        /\ p[2][1] >= 8 /\ p[2][2] <= written.size
        /\ p[1] = q[1] \/ p[2][2] <= q[2][1] \/ q[2][2] <= p[2][1]

\* The fields of f, and those of g that f has not.
Over(f, g) == [x \in DOMAIN f \cup DOMAIN g |-> IF x \in DOMAIN f THEN f[x] ELSE g[x]]

\* The tags with values in the order of buildIFD, and those of parseGeo.
BuildOrder == <<258, 339, 324, 325, 273, 279>>

GeoOrder == <<33550, 33922, 34735, 34737, 42113>>

\* Where the values of tag t end by its offset and its count, both LONGs.
TellsEnd(t, place) ==
    Uint32(place[1]) + UnitBytes(t) * Uint32((place[2] - place[1]) \div UnitBytes(t))

\* What CogHeader.tla reads of a file whose directories have these images.
AsRead(written, images) ==
    LET dirs == written.dirs
        at(o) == CHOOSE i \in DOMAIN dirs : dirs[i].off = o
        ends(i, order) ==
            LET there == Ascending({j \in DOMAIN order : order[j] \in DOMAIN dirs[i].vals})
            IN  [j \in DOMAIN there |-> TellsEnd(order[there[j]], dirs[i].vals[order[there[j]]])]
        read(i) ==
            [len |-> dirs[i].len,
             next |-> written.next[i],
             values |-> ends(i, BuildOrder),
             geo |-> IF i = 1 THEN ends(i, GeoOrder) ELSE <<>>]
    IN  [size |-> written.size, magic |-> TRUE, first |-> 8,
         dirs |-> [o \in {dirs[i].off : i \in DOMAIN dirs} |-> Over(read(at(o)), images[at(o)])]]

-----------------------------------------------------------------------------
(* WriteCOG: a base image and its overviews, in tiles with predictor 2.    *)

\* What WriteCOG takes: `factors` are the decimations of the levels.
CogSpec(spec) ==
    /\ spec.w \in Nat \ {0} /\ spec.h \in Nat \ {0} /\ spec.ts \in Nat \ {0}
    /\ spec.spp \in {1, 3, 4} /\ spec.bits \in {8, 16}
    /\ spec.factors \in Seq(Nat \ {0}) /\ spec.factors # <<>>
    /\ spec.geo.scale \in Int /\ spec.geo.keys \in Nat
    /\ spec.geo.ascii \in Nat /\ spec.geo.noData \in Nat

\* The number of tiles of a level of w x h pixels.
TileCount(w, h, ts) == CeilDiv(w, ts) * CeilDiv(h, ts)

\* The size of a level, and how many tiles it has.
LevelSize(spec, i) == [w |-> CeilDiv(spec.w, spec.factors[i]), h |-> CeilDiv(spec.h, spec.factors[i])]

LevelTiles(spec, i) == TileCount(LevelSize(spec, i).w, LevelSize(spec, i).h, spec.ts)

\* One image of the file, as its tags tell it; `spec` gives what all levels share.
CogImage(spec, i) ==
    [width |-> Uint32(LevelSize(spec, i).w), height |-> Uint32(LevelSize(spec, i).h),
     factor |-> spec.factors[i],
     layout |-> "tiles", tw |-> Uint16(spec.ts), th |-> Uint16(spec.ts),
     compression |-> "deflate", planar |-> 1, bits |-> spec.bits, format |-> "uint",
     predictor |-> 2, spp |-> spec.spp, salt |-> spec.salt, grid |-> spec.grid,
     offsets |-> Uint32(LevelTiles(spec, i)), counts |-> Uint32(LevelTiles(spec, i)),
     sparse |-> IF i = 1 THEN spec.sparse ELSE {}]

CogImages(spec) == [i \in DOMAIN spec.factors |-> CogImage(spec, i)]

\* A deflated tile takes a byte less than its samples, an absent one none.
CogWritten(spec) ==
    LET tile == (spec.ts * spec.ts * spec.spp * spec.bits) \div 8 - 1
        absent(i) == IF i = 1 THEN spec.sparse ELSE {}
    IN  WriteFile([i \in DOMAIN spec.factors |->
            [tags |-> TileTags(spec.spp, i = 1, spec.geo), places |-> {324, 325},
             segs |-> [j \in 1 .. LevelTiles(spec, i) |-> IF j - 1 \in absent(i) THEN 0 ELSE tile]]])

\* What the tags of a COG can tell: its file, its images and its tiles are not
\* larger than a LONG or a SHORT.
CogFits(spec) ==
    /\ CogWritten(spec).size < Longs
    /\ spec.w < Longs /\ spec.h < Longs /\ spec.ts < Shorts
    /\ \A i \in DOMAIN spec.factors : LevelTiles(spec, i) < Longs

WriteCog(spec) == AsRead(CogWritten(spec), CogImages(spec))

=============================================================================
