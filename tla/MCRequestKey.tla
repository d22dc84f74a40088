---------------------------- MODULE MCRequestKey ----------------------------
(* RequestKey.tla for TLC: pairs of requests that are alike but for a thing *)
(* or two, and requests that are to be refused.                             *)
EXTENDS RequestKey, TLC

MCSources ==
    "w" :> [kind |-> "wms", maxPx |-> 2048] @@ "v" :> [kind |-> "wms", maxPx |-> 4096] @@
    "t" :> [kind |-> "tiles", maxPx |-> 0] @@ "a" :> [kind |-> "arcgis", maxPx |-> 2048] @@
    "s" :> [kind |-> "stac", maxPx |-> 2048]

Katowice == [lat |-> 502648999, lon |-> 190238001]

Query(path, source, over) ==
    over @@ Katowice @@
    [path |-> path, source |-> source, sceneID |-> "", format |-> "",
     size |-> Absent, cloud |-> Absent, days |-> Absent, maxPx |-> Absent, px |-> Absent]

\* Requests that differ from one without parameters, in ways that matter to the
\* product and in ways that do not.
SceneVariants ==
    {<<>>, [lat |-> 502649001], [lon |-> 190239001], [size |-> 50004], [size |-> 50006],
     [cloud |-> 0], [days |-> 365], [maxPx |-> 512], [maxPx |-> 5000], [format |-> "gtiff"],
     [sceneID |-> "s1"]}

OrthoVariants ==
    {[px |-> 2048], [px |-> 4096], [lat |-> 502649004], [size |-> 9999], [format |-> "png"]}

Refused ==
    {Query("image", "", over) :
        over \in {[lat |-> Absent], [lon |-> 1810000000], [size |-> 4999], [cloud |-> Garbage],
                  [days |-> 366], [lat |-> NaN], [format |-> "webp"]}}
    \cup {Query("ndvi", "", [format |-> "jpeg"]), Query("ortho", "", <<>>), Query("ortho", "x", <<>>),
          Query("ortho", "w", [format |-> "gtiff"]), Query("ortho", "w", [px |-> 63])}

Plain(path) == Query(path, "", <<>>)

Pairs ==
    {<<Plain("image"), Query("image", "", over)>> : over \in SceneVariants \cup {[format |-> "jpeg"]}}
    \cup {<<Plain("ndvi"), Query("ndvi", "", over)>> : over \in {[size |-> NaN], [size |-> 500000]}}
    \cup {<<Query("image", "", [size |-> NaN, cloud |-> NaN]), Query("image", "", [size |-> NaN])>>,
          <<Plain("image"), Plain("ndvi")>>}
    \cup {<<Query("ortho", source, [px |-> 3000]), Query("ortho", source, over)>> :
            source \in DOMAIN MCSources, over \in OrthoVariants}
    \cup {<<Query("ortho", "w", [px |-> 3000]), Query("ortho", "v", [px |-> 3000])>>}
    \cup {<<Query("ortho", "t", <<>>), q>> : q \in Refused}

MCBursts ==
    LET first == CHOOSE r \in Requests : TRUE
    IN  {[r \in Requests |-> IF r = first THEN p[1] ELSE p[2]] : p \in Pairs}

=============================================================================
