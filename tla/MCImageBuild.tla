----------------------------- MODULE MCImageBuild -----------------------------
(* ImageBuild.tla for TLC: the files and what is asked of them.            *)
EXTENDS ImageBuild, TLC

Grid == [originX |-> 100, originY |-> 200, scaleX |-> 4, scaleY |-> 4]

\* The image of a directory; `over` replaces fields.
Image(w, h, over) ==
    over @@
    [len |-> 162, next |-> 0, values |-> <<>>, geo |-> <<>>,
     width |-> w, height |-> h, factor |-> 1, salt |-> 0,
     layout |-> "tiles", tw |-> 4, th |-> 4, compression |-> "deflate", planar |-> 1,
     bits |-> 8, format |-> "uint", predictor |-> 1, spp |-> 1, sparse |-> {},
     grid |-> Grid]

\* As many offsets and byte counts as the image has tiles.
Counted(d) == [offsets |-> Segments(d), counts |-> Segments(d)] @@ d

Box(x, w, y, h) == [minX |-> x, maxX |-> x + w, minY |-> y - h, maxY |-> y]

\* A file of WriteCOG.
Made(w, h, factors, bits, spp, over) ==
    over @@ [w |-> w, h |-> h, ts |-> 4, factors |-> factors, bits |-> bits, spp |-> spp,
             salt |-> 0, sparse |-> {}, grid |-> Grid,
             geo |-> [scale |-> 4, keys |-> 5, ascii |-> 3, noData |-> 1]]

Ask(f, box, maxPx, format) ==
    [kind |-> "cog", cog |-> {}, file |-> f, box |-> box, maxPx |-> maxPx, format |-> format,
     tags |-> [keys |-> 5, ascii |-> 3, noData |-> 0]]

\* The same of a file that WriteCOG makes.
AskMade(spec, box, maxPx, format) ==
    [Ask(WriteCog(spec), box, maxPx, format) EXCEPT !.cog = {spec}]

MCOffsets == {8, 600, 1800}

-----------------------------------------------------------------------------
(* Headers: three directories that may lead anywhere, values anywhere, of a *)
(* small image.                                                             *)

HeaderDir(over) == Counted(Image(2, 2, over))

HeaderFile(size, first, n1, n2, n3, v1, v2, g, spp) ==
    [size |-> size, magic |-> TRUE, first |-> first,
     dirs |-> 8 :> HeaderDir([next |-> n1, values |-> v1, geo |-> g])
           @@ 600 :> HeaderDir([next |-> n2, values |-> v2, spp |-> spp])
           @@ 1800 :> HeaderDir([next |-> n3])]

HeaderFiles ==
    {HeaderFile(size, 8, n1, n2, n3, v1, v2, g, spp) :
        size \in {700, 1400, 3000}, n1 \in {0, 600, 1800}, n2 \in {0, 8, 1800}, n3 \in {0, 600},
        v1 \in {<<>>, <<900, 300>>}, v2 \in {<<>>, <<2100>>}, g \in {<<>>, <<1500>>},
        spp \in {1, 2}}
    \cup {HeaderFile(size, first, 0, 0, 0, <<>>, <<>>, <<>>, 1) : size \in {4, 700}, first \in {0, 8}}
    \cup {[HeaderFile(700, 8, 0, 0, 0, <<>>, <<>>, <<>>, 1) EXCEPT !.magic = FALSE]}

HeaderCases == {Ask(f, Box(100, 8, 200, 8), 0, "png") : f \in HeaderFiles}

-----------------------------------------------------------------------------
(* Geometry: files of up to three levels, and boxes in and around them.    *)

\* Levels of an image of w x h pixels at the given factors.
Pyramid(w, h, factors, over) ==
    LET image(i) == Counted(Image(CeilDiv(w, factors[i]), CeilDiv(h, factors[i]),
                                  [factor |-> factors[i]] @@ over))
        offs == <<8, 600, 1800>>
        at(o) == CHOOSE i \in 1 .. 3 : offs[i] = o
        dir(o) == IF at(o) <= Len(factors)
                  THEN [image(at(o)) EXCEPT !.next =
                           IF at(o) < Len(factors) THEN offs[at(o) + 1] ELSE 0]
                  ELSE image(1)
    IN  [size |-> 3000, magic |-> TRUE, first |-> 8, dirs |-> [o \in MCOffsets |-> dir(o)]]

Strips == [layout |-> "strips", th |-> 2, spp |-> 3]

Makes ==
    {Made(8, 6, <<1, 2>>, 8, 3, <<>>), Made(7, 5, <<1, 2, 4>>, 8, 3, [sparse |-> {1}])}

Odd ==  \* a fourth band, single bands, a georeference that is none, an overview
        \* first, a factor its small width does not tell, a tile uncounted
    {Pyramid(5, 4, <<1>>, [spp |-> 4]),
     Pyramid(5, 4, <<1>>, [bits |-> 16, predictor |-> 2]),
     Pyramid(5, 4, <<1>>, [grid |-> [originX |-> 0, originY |-> 0, scaleX |-> 0, scaleY |-> 0]]),
     Pyramid(4, 4, <<2, 1>>, [spp |-> 3]),
     Pyramid(10, 4, <<1, 4>>, [spp |-> 3]),
     [Pyramid(7, 5, <<1>>, [spp |-> 3]) EXCEPT !.dirs[8].counts = 1]}

Around == {Box(x, w, y, h) : x \in {90, 102, 115}, w \in {5, 9, 16, 40}, y \in {201, 195}, h \in {6, 21}}

GeometryCases ==
    {Ask(Pyramid(7, 5, <<1, 2>>, Strips), box, px, "gtiff") : box \in Around, px \in {0, 2, 3}}
    \cup {AskMade(spec, box, px, "gtiff") : spec \in Makes, box \in Around, px \in {0, 2, 3}}
    \cup {Ask(f, Box(x, w, 197, 11), px, format) :
        f \in Odd, x \in {95, 107}, w \in {6, 14, 30}, px \in {0, 3}, format \in {"gtiff", "png"}}

-----------------------------------------------------------------------------
(* Vegetation indexes of two bands: alike, in other tiles, or of other      *)
(* sizes.                                                                  *)

Band(salt, w, ts) == Made(w, 4, <<1, 2>>, 16, 1, [salt |-> salt, ts |-> ts])

NdviCases ==
    {[nir |-> WriteCog(Band(70, w, ts))] @@
     [AskMade(Band(30, 7, 4), Box(x, 14, 197, h), px, format) EXCEPT
        !.kind = "ndvi", !.cog = @ \cup {Band(70, w, ts)}] :
        w \in {6, 7, 8}, ts \in {3, 4}, x \in {97, 107}, h \in {6, 11}, px \in {0, 3},
        format \in {"gtiff", "png"}}

-----------------------------------------------------------------------------
(* Mosaics of a map 6400 units wide, one and two times the nominal tile     *)
(* size.  A box is 7 thousandths higher than it is wide; it may cross the   *)
(* antimeridian or the upper edge, or be asked for too deep.                *)

NoTiff == [size |-> 0, magic |-> FALSE, first |-> 0, dirs |-> <<>>]

MosaicOf(x, y, w, px, z, ts) ==
    [kind |-> "tiles", cog |-> {}, file |-> NoTiff, box |-> Box(x, w, y + w + w \div 150, w + w \div 150),
     size |-> w, maxPx |-> px, world |-> 6400, maxZoom |-> z, ts |-> ts]

MosaicCases ==
    {MosaicOf(x, y, w, px, z, ts) :
        x \in {-300, 500, 2400, 6000}, y \in {-100, 700, 1600}, w \in {300, 800}, px \in {2, 4},
        z \in {1, 3}, ts \in {2, 4}}
    \cup {MosaicOf(2200, 1500, 300, px, 3, 3) : px \in {2, 3}}
    \cup {MosaicOf(500, 600, 1, 2^17, z, 2) : z \in {25, 26}}

MCCases == HeaderCases \cup GeometryCases \cup NdviCases \cup MosaicCases

MCFiles == {c.file : c \in MCCases} \cup {c.nir : c \in NdviCases}

=============================================================================
