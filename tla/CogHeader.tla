------------------------------ MODULE CogHeader ------------------------------
(***************************************************************************)
(* cog.Open: the header buffer that ensure grows by range requests, the    *)
(* chain of directories (IFDs) that parseIFD follows through it, the       *)
(* out-of-line values of tagData, and the checks of buildIFD.              *)
(*                                                                         *)
(* A file is what its bytes mean to Open: where its first directory is,    *)
(* and for every offset a directory may be read at, how long its table is, *)
(* where the next one is, where the values end that are read from          *)
(* elsewhere in the file, and the fields that buildIFD judges.  Nothing    *)
(* keeps a file from pointing beyond its end, past the limit of the        *)
(* header, or back at a directory already read.                            *)
(***************************************************************************)
EXTENDS Integers, Sequences, Rounding

CONSTANTS
    Files,      \* the files that may be opened
    Chunk,      \* hdrChunk: the buffer grows by multiples of it
    HdrChunks,  \* how many of them it may have: hdrMax / hdrChunk
    MaxIFDs,    \* how many directories a file may have: 32
    Cuts        \* how many bytes a broken connection may still deliver

\* What Open makes of the bytes at an offset.  `values` are the ends of the
\* out-of-line values buildIFD reads up to its verdict, `geo` those that
\* parseGeo reads of the first directory; both in the order of the code.
FileAssumption(f) ==
    /\ f.size \in Nat
    /\ f.magic \in BOOLEAN
    /\ DOMAIN f.dirs \subseteq Nat \ {0}
    /\ f.first \in DOMAIN f.dirs \cup {0}
    /\ \A o \in DOMAIN f.dirs :
        /\ f.dirs[o].len \in Nat
        /\ f.dirs[o].next \in DOMAIN f.dirs \cup {0}
        /\ f.dirs[o].values \in Seq(Nat)
        /\ f.dirs[o].geo \in Seq(Nat)

ASSUME FilesAssumption == \A f \in Files : FileAssumption(f)
ASSUME ChunkAssumption == Chunk \in Nat \ {0}
ASSUME HdrChunksAssumption == HdrChunks \in Nat \ {0}
ASSUME MaxIFDsAssumption == MaxIFDs \in Nat \ {0}
ASSUME CutsAssumption == Cuts \subseteq Nat

VARIABLES
    file,       \* the file behind the source; never changes
    hdr,        \* len(f.hdr)
    eof,        \* f.eof: a request was answered short
    stage,      \* what Open does next
    off,        \* the offset of the present directory
    todo,       \* the ends of its values that are still to be read
    ifds,       \* f.IFDs: the offsets of the directories taken
    requests,   \* range requests made (history)
    trouble     \* a request failed, or was cut before the file's end (history)

headerVars == <<file, hdr, eof, stage, off, todo, ifds, requests, trouble>>

Parsing == {"magic", "count", "table", "values", "geo", "chain"}

HdrMax == HdrChunks * Chunk

Dir == file.dirs[off]

HeaderInit ==
    /\ file \in Files
    /\ hdr = 0
    /\ eof = FALSE
    /\ stage = "magic"
    /\ off = 0
    /\ todo = <<>>
    /\ ifds = <<>>
    /\ requests = 0
    /\ trouble = FALSE

\* Another file is opened.
Reopen(f) ==
    /\ file' = f
    /\ hdr' = 0 /\ eof' = FALSE
    /\ stage' = "magic" /\ off' = 0 /\ todo' = <<>> /\ ifds' = <<>>
    /\ requests' = 0 /\ trouble' = FALSE

-----------------------------------------------------------------------------
(* ensure.                                                                 *)

\* How much of the file the present step must have in the buffer.
Need ==
    CASE stage = "magic" -> 8
      [] stage = "count" -> off + 2
      [] stage = "table" -> off + Dir.len
      [] stage \in {"values", "geo"} /\ todo # <<>> -> Head(todo)
      [] OTHER -> 0

Have == stage \in Parsing /\ Need <= hdr

Lack == stage \in Parsing /\ Need > hdr

Fail == stage' = "failed" /\ UNCHANGED <<file, off, todo, ifds>>

\* The file has ended before, or the header would grow too large.
Refuse ==
    /\ Lack
    /\ eof \/ Need > HdrMax
    /\ Fail
    /\ UNCHANGED <<hdr, eof, requests, trouble>>

\* The buffer's size once it has been grown for n bytes.
Want(n) == ((n + Chunk - 1) \div Chunk) * Chunk

\* How much of the request the file can answer.  Beyond its end the server
\* answers 416, which ReadRange turns into io.EOF and no bytes.
Available == IF hdr < file.size THEN Smaller(Want(Need), file.size) - hdr ELSE 0

\* Faulty variant: a short answer is not taken for the end of the file.
TakeForgets(got) ==
    /\ hdr' = hdr + got
    /\ eof' = eof
    /\ IF Need <= hdr'
       THEN UNCHANGED <<file, stage, off, todo, ifds>>
       ELSE Fail

\* The buffer takes what came; fewer bytes than asked for are the end of the
\* file, and a truncated header if the step's bytes are not among them.
Take(got) ==
    /\ hdr' = hdr + got
    /\ eof' = (got < Want(Need) - hdr)
    /\ IF Need <= hdr'
       THEN UNCHANGED <<file, stage, off, todo, ifds>>
       ELSE Fail

Asking ==
    /\ Lack
    /\ ~eof
    /\ Need <= HdrMax
    /\ requests' = requests + 1

ReadRange == Asking /\ Take(Available) /\ UNCHANGED trouble

\* The connection breaks: tryRange returns what came, without an error.
ReadCut ==
    /\ Asking
    /\ \E got \in Cuts : got < Available /\ Take(got)
    /\ trouble' = TRUE

\* All attempts failed, or the context is done.
ReadFails ==
    /\ Asking
    /\ Fail
    /\ trouble' = TRUE
    /\ UNCHANGED <<hdr, eof>>

-----------------------------------------------------------------------------
(* Open and parseIFD, with the bytes of the step in the buffer.            *)

bufferVars == <<file, hdr, eof, requests, trouble>>

\* The head of the loop: no directory left, or the next one.
Follow(next) ==
    /\ off' = next
    /\ stage' = IF next # 0 THEN "count"
                ELSE IF ifds' = <<>> THEN "failed" ELSE "opened"

ReadMagic ==
    /\ stage = "magic" /\ Have
    /\ IF file.magic
       THEN UNCHANGED ifds /\ Follow(file.first)
       ELSE stage' = "failed" /\ UNCHANGED <<off, ifds>>
    /\ UNCHANGED <<bufferVars, todo>>

ReadCount ==
    /\ stage = "count" /\ Have
    /\ stage' = "table"
    /\ UNCHANGED <<bufferVars, off, todo, ifds>>

ReadTable ==
    /\ stage = "table" /\ Have
    /\ stage' = "values"
    /\ todo' = Dir.values
    /\ UNCHANGED <<bufferVars, off, ifds>>

\* tagData of a value that is not inline.
ReadValue ==
    /\ stage \in {"values", "geo"} /\ todo # <<>> /\ Have
    /\ todo' = Tail(todo)
    /\ UNCHANGED <<bufferVars, stage, off, ifds>>

\* The size of a tile or strip.  A strip is as wide as the image, and all of
\* it when RowsPerStrip says nothing of use.
TileWidth(d) == IF d.layout = "tiles" THEN d.tw ELSE d.width

TileHeight(d) ==
    IF d.layout = "tiles" \/ d.th \in 1 .. d.height THEN d.th ELSE d.height

Across(d) == CeilDiv(d.width, TileWidth(d))

Segments(d) == Across(d) * CeilDiv(d.height, TileHeight(d))

Readable(d) ==
    /\ d.width > 0 /\ d.height > 0
    /\ d.layout \in {"tiles", "strips"}
    /\ d.compression \in {"none", "deflate"}
    /\ d.planar = 1
    /\ <<d.bits, d.format>> \in {<<8, "uint">>, <<16, "uint">>, <<32, "float">>}
    /\ d.predictor = 1 \/ (d.predictor = 2 /\ d.bits # 32)
    /\ d.spp \in {1, 3, 4}
    /\ TileWidth(d) \in 1 .. 2^14 /\ TileHeight(d) \in 1 .. 2^14

\* The verdict of buildIFD on the fields it has read.
Accepts(d) ==
    /\ Readable(d)
    /\ d.offsets = Segments(d) /\ d.counts = Segments(d)

\* buildIFD is done: the directory is taken, and the first one's georeference
\* is read before the chain goes on.
Judge ==
    /\ stage = "values" /\ todo = <<>>
    /\ IF Accepts(Dir)
       THEN /\ ifds' = Append(ifds, off)
            /\ stage' = IF ifds = <<>> THEN "geo" ELSE "chain"
            /\ todo' = IF ifds = <<>> THEN Dir.geo ELSE <<>>
       ELSE stage' = "failed" /\ UNCHANGED <<ifds, todo>>
    /\ UNCHANGED <<bufferVars, off>>

GeoDone ==
    /\ stage = "geo" /\ todo = <<>>
    /\ stage' = "chain"
    /\ UNCHANGED <<bufferVars, off, todo, ifds>>

\* Faulty variant: a chain of as many directories as are allowed is refused.
NextIFDEarly ==
    /\ stage = "chain"
    /\ IF Len(ifds) >= MaxIFDs
       THEN stage' = "failed" /\ UNCHANGED <<off, ifds>>
       ELSE UNCHANGED ifds /\ Follow(Dir.next)
    /\ UNCHANGED <<bufferVars, todo>>

\* Faulty variant: the directories beyond the limit are dropped.
NextIFDDrops ==
    /\ stage = "chain"
    /\ ifds' = SubSeq(ifds, 1, Smaller(Len(ifds), MaxIFDs))
    /\ Follow(Dir.next)
    /\ UNCHANGED <<bufferVars, todo>>

\* The limit is looked at after the directory was taken.
NextIFD ==
    /\ stage = "chain"
    /\ IF Len(ifds) > MaxIFDs
       THEN stage' = "failed" /\ UNCHANGED <<off, ifds>>
       ELSE UNCHANGED ifds /\ Follow(Dir.next)
    /\ UNCHANGED <<bufferVars, todo>>

Buffering == Refuse \/ ReadRange \/ ReadCut \/ ReadFails

HeaderNext ==
    \/ Buffering
    \/ ReadMagic \/ ReadCount \/ ReadTable \/ ReadValue
    \/ Judge \/ GeoDone \/ NextIFD

HeaderSpec == HeaderInit /\ [][HeaderNext]_headerVars

-----------------------------------------------------------------------------
(* Properties.                                                             *)

\* The buffer is a prefix of the file within the limit, and the requests that
\* filled it are bounded by its size: every one that was answered in full has
\* brought a chunk, and the first that was not is the last.
HeaderBounded ==
    /\ hdr <= file.size /\ hdr <= HdrMax
    /\ eof /\ ~trouble => hdr = file.size
    /\ requests <= hdr \div Chunk + (IF eof \/ trouble THEN 1 ELSE 0)

\* A chain of directories that Open should read: it ends within the limit, is
\* sound and lies, with all its values, inside the file and the header limit.
Fits(f, n) == n <= f.size /\ n <= HdrMax

SoundDir(f, o) ==
    /\ Fits(f, o + 2) /\ Fits(f, o + f.dirs[o].len)
    /\ \A i \in DOMAIN f.dirs[o].values : Fits(f, f.dirs[o].values[i])
    /\ Accepts(f.dirs[o])

Chain(f, s) ==
    /\ s # <<>> /\ f.first = s[1] /\ f.dirs[s[Len(s)]].next = 0
    /\ \A i \in 1 .. Len(s) - 1 : f.dirs[s[i]].next = s[i + 1]

WellFormed(f, s) ==
    /\ f.magic /\ Fits(f, 8)
    /\ Chain(f, s) /\ Len(s) <= MaxIFDs
    /\ \A i \in 1 .. Len(s) : SoundDir(f, s[i])
    /\ \A i \in DOMAIN f.dirs[s[1]].geo : Fits(f, f.dirs[s[1]].geo[i])

Chains(f) == UNION {[1 .. n -> DOMAIN f.dirs] : n \in 1 .. MaxIFDs}

\* Open's verdict is about the file: what it returns is the file's whole chain,
\* and it refuses a well-formed file only if a request failed or was cut.
OpensWhatItShould ==
    /\ stage = "opened" => Chain(file, ifds) /\ \A i \in DOMAIN ifds : SoundDir(file, ifds[i])
    /\ stage = "failed" /\ ~trouble => \A s \in Chains(file) : ~WellFormed(file, s)

=============================================================================
