-------------------------- MODULE ImageBuildProofs --------------------------
(***************************************************************************)
(* Proofs about the build of a product (ImageBuild.tla): about Open        *)
(* (CogHeader.tla), how much it reads and that its verdict is about the    *)
(* file; about the geometry (ImageWindow.tla), for images, boxes, levels   *)
(* and tiles of every size; about the build that is made of them; and      *)
(* about the files that are written (TiffFile.tla) and read again.         *)
(***************************************************************************)
EXTENDS ImageBuild, FiniteSetTheorems, TLAPS

-----------------------------------------------------------------------------
(* Arithmetic.                                                             *)

\* Products with a positive factor compare as the other factors do.
LEMMA Products ==
    ASSUME NEW a \in Int, NEW b \in Int, NEW c \in Nat \ {0}
    PROVE  /\ a * c \in Int
           /\ a <= b <=> a * c <= b * c
           /\ a < b <=> a * c < b * c
           /\ a < b => a * c + c <= b * c
<1>1. a * c \in Int /\ b * c \in Int
    OBVIOUS
<1>2. ASSUME a <= b PROVE a * c <= b * c
    BY <1>2
<1>3. ASSUME a < b PROVE a * c < b * c /\ a * c + c <= b * c
    <2>1. (a + 1) * c <= b * c /\ (a + 1) * c = a * c + c
        BY <1>3
    <2>. QED BY <1>1, <2>1
<1>4. ASSUME b < a PROVE b * c < a * c
    <2>1. (b + 1) * c <= a * c /\ (b + 1) * c = b * c + c
        BY <1>4
    <2>. QED BY <1>1, <2>1
<1>. QED BY <1>1, <1>2, <1>3, <1>4

\* The floor and the ceiling of a quotient.
LEMMA FloorIs ==
    ASSUME NEW a \in Int, NEW b \in Nat \ {0}
    PROVE  /\ FloorDiv(a, b) \in Int
           /\ FloorDiv(a, b) * b <= a /\ a < FloorDiv(a, b) * b + b
BY DEF FloorDiv

LEMMA CeilIs ==
    ASSUME NEW a \in Int, NEW b \in Nat \ {0}
    PROVE  /\ CeilDiv(a, b) \in Int
           /\ a <= CeilDiv(a, b) * b /\ CeilDiv(a, b) * b < a + b
<1>. DEFINE q == (-a) \div b
<1>1. q \in Int /\ q * b <= -a /\ -a < q * b + b
    OBVIOUS
<1>2. CeilDiv(a, b) = -q /\ (-q) * b = -(q * b)
    BY <1>1 DEF CeilDiv
<1>. QED BY <1>1, <1>2

\* A whole number is below the floor, or not above the ceiling, if and only if
\* its product is.
LEMMA FloorBelow ==
    ASSUME NEW a \in Int, NEW b \in Nat \ {0}, NEW x \in Int
    PROVE  FloorDiv(a, b) <= x <=> a < (x + 1) * b
<1>. DEFINE q == FloorDiv(a, b)
<1>1. q \in Int /\ q * b <= a /\ a < q * b + b
    BY FloorIs
<1>2. (q + 1) * b = q * b + b
    BY <1>1
<1>3. CASE q <= x
    <2>1. (q + 1) * b <= (x + 1) * b
        BY <1>1, <1>3, Products
    <2>. QED BY <1>1, <1>2, <1>3, <2>1
<1>4. CASE ~(q <= x)
    <2>1. (x + 1) * b <= q * b
        BY <1>1, <1>4, Products
    <2>. QED BY <1>1, <1>4, <2>1
<1>. QED BY <1>3, <1>4

LEMMA CeilAbove ==
    ASSUME NEW a \in Int, NEW b \in Nat \ {0}, NEW x \in Int
    PROVE  x < CeilDiv(a, b) <=> x * b < a
<1>. DEFINE q == CeilDiv(a, b)
<1>1. q \in Int /\ a <= q * b /\ q * b < a + b
    BY CeilIs
<1>2. (x + 1) * b = x * b + b
    OBVIOUS
<1>3. CASE x < q
    <2>1. (x + 1) * b <= q * b
        BY <1>1, <1>3, Products
    <2>. QED BY <1>1, <1>2, <1>3, <2>1
<1>4. CASE ~(x < q)
    <2>1. q * b <= x * b
        BY <1>1, <1>4, Products
    <2>. QED BY <1>1, <1>4, <2>1
<1>. QED BY <1>3, <1>4

-----------------------------------------------------------------------------
(* Open: types.                                                            *)

Stages == Parsing \cup {"opened", "failed"}

InDirectory == {"count", "table", "values", "geo", "chain"}

TypeInv ==
    /\ file \in Files
    /\ hdr \in Nat
    /\ eof \in BOOLEAN
    /\ stage \in Stages
    /\ stage \in InDirectory => off \in DOMAIN file.dirs
    /\ todo \in Seq(Nat)
    /\ ifds \in Seq(DOMAIN file.dirs)
    /\ requests \in Nat
    /\ trouble \in BOOLEAN

-----------------------------------------------------------------------------
(* Arithmetic of the buffer.                                               *)

\* The size the buffer is grown to is enough, less than a chunk too much, and
\* a multiple of the chunk.
LEMMA WantRounds ==
    ASSUME NEW n \in Nat
    PROVE  \E q \in Nat : Want(n) = q * Chunk /\ n <= q * Chunk /\ q * Chunk < n + Chunk
<1>. DEFINE q == (n + Chunk - 1) \div Chunk
<1>1. Chunk \in Nat /\ Chunk > 0
    BY ChunkAssumption
<1>2. q \in Nat /\ q * Chunk <= n + Chunk - 1 /\ n + Chunk - 1 < q * Chunk + Chunk
    BY <1>1
<1>3. n <= q * Chunk /\ q * Chunk < n + Chunk
    BY <1>1, <1>2
<1>. QED BY <1>2, <1>3 DEF Want

-----------------------------------------------------------------------------
(* Types.                                                                  *)

LEMMA EmptyTypes ==
    ASSUME NEW S
    PROVE  <<>> \in Seq(S)
OBVIOUS

LEMMA AppendTypes ==
    ASSUME NEW S, NEW s \in Seq(S), NEW e \in S
    PROVE  Append(s, e) \in Seq(S)
OBVIOUS

LEMMA FileTypes ==
    ASSUME NEW f \in Files
    PROVE  FileAssumption(f)
BY FilesAssumption

\* The bytes a step needs end at a natural number.
LEMMA NeedTypes ==
    ASSUME TypeInv
    PROVE  Need \in Nat
<1>1. FileAssumption(file)
    BY FileTypes DEF TypeInv
<1>2. CASE stage = "magic"
    BY <1>2 DEF Need
<1>3. CASE stage = "count"
    BY <1>1, <1>3 DEF Need, TypeInv, InDirectory, FileAssumption
<1>4. CASE stage = "table"
    BY <1>1, <1>4 DEF Need, TypeInv, InDirectory, FileAssumption, Dir
<1>5. CASE stage \in {"values", "geo"} /\ todo # <<>>
    BY <1>5 DEF Need, TypeInv
<1>6. CASE stage \notin {"magic", "count", "table"} /\ ~(stage \in {"values", "geo"} /\ todo # <<>>)
    BY <1>6 DEF Need
<1>. QED BY <1>2, <1>3, <1>4, <1>5, <1>6

\* What a request brings is at most what was asked for, and lies in the file.
LEMMA AvailableBounds ==
    ASSUME TypeInv, Lack
    PROVE  /\ Want(Need) \in Nat /\ hdr < Want(Need)
           /\ Available \in Nat /\ Available <= Want(Need) - hdr
           /\ hdr <= file.size => hdr + Available <= file.size
           /\ Available < Want(Need) - hdr /\ hdr <= file.size => hdr + Available = file.size
           /\ Need <= file.size => Need <= hdr + Available
<1>1. Need \in Nat /\ Need > hdr /\ hdr \in Nat
    BY NeedTypes DEF Lack, TypeInv
<1>2. Want(Need) \in Nat /\ Need <= Want(Need)
    BY <1>1, WantRounds, ChunkAssumption
<1>3. file.size \in Nat
    BY FileTypes DEF TypeInv, FileAssumption
<1>. QED BY <1>1, <1>2, <1>3 DEF Available, Smaller

\* The directory that follows, if any.
LEMMA FollowTypes ==
    ASSUME TypeInv, NEW next \in DOMAIN file.dirs \cup {0}, Follow(next),
           UNCHANGED <<file, hdr, eof, requests, trouble, todo>>, ifds' \in Seq(DOMAIN file.dirs)
    PROVE  TypeInv'
<1>1. CASE next = 0
    BY <1>1 DEF TypeInv, Follow, Stages, Parsing, InDirectory
<1>2. CASE next # 0
    BY <1>2 DEF TypeInv, Follow, Stages, Parsing, InDirectory
<1>. QED BY <1>1, <1>2

LEMMA FailTypes ==
    ASSUME TypeInv, Fail, hdr' \in Nat, eof' \in BOOLEAN, requests' \in Nat, trouble' \in BOOLEAN
    PROVE  TypeInv'
BY DEF TypeInv, Fail, Stages, Parsing, InDirectory

LEMMA TakeTypes ==
    ASSUME TypeInv, Lack, NEW got \in Nat, got <= Available, Take(got),
           requests' \in Nat, trouble' \in BOOLEAN
    PROVE  TypeInv'
<1>1. hdr' \in Nat /\ eof' \in BOOLEAN
    BY AvailableBounds DEF Take, TypeInv
<1>2. CASE Need <= hdr'
    BY <1>1, <1>2 DEF Take, TypeInv
<1>3. CASE ~(Need <= hdr')
    BY <1>1, <1>3, FailTypes DEF Take
<1>. QED BY <1>2, <1>3

\* Every variable keeps its type: the offset is a directory of the file while
\* one is read, and the buffer a number of bytes.
LEMMA TypesStep ==
    ASSUME TypeInv, [HeaderNext]_headerVars
    PROVE  TypeInv'
<1>1. FileAssumption(file)
    BY FileTypes DEF TypeInv
<1>2. CASE Refuse
    BY <1>2, FailTypes DEF Refuse, TypeInv
<1>3. CASE ReadRange
    <2>1. Lack /\ Take(Available) /\ requests' = requests + 1 /\ trouble' = trouble
        BY <1>3 DEF ReadRange, Asking
    <2>. QED BY <2>1, AvailableBounds, TakeTypes DEF TypeInv
<1>4. CASE ReadCut
    <2>1. PICK got \in Cuts : got < Available /\ Take(got)
        BY <1>4 DEF ReadCut
    <2>2. Lack /\ requests' = requests + 1 /\ trouble' = TRUE
        BY <1>4 DEF ReadCut, Asking
    <2>3. got \in Nat
        BY CutsAssumption
    <2>. QED BY <2>1, <2>2, <2>3, AvailableBounds, TakeTypes DEF TypeInv
<1>5. CASE ReadFails
    BY <1>5, FailTypes DEF ReadFails, Asking, TypeInv
<1>6. CASE ReadMagic
    <2>1. UNCHANGED <<file, hdr, eof, requests, trouble, todo, ifds>>
        BY <1>6 DEF ReadMagic, bufferVars
    <2>2. CASE file.magic
        <3>1. Follow(file.first) /\ file.first \in DOMAIN file.dirs \cup {0}
            BY <1>1, <1>6, <2>2 DEF ReadMagic, FileAssumption
        <3>. QED BY <2>1, <3>1, FollowTypes DEF TypeInv
    <2>3. CASE ~file.magic
        BY <1>6, <2>1, <2>3 DEF ReadMagic, TypeInv, Stages, InDirectory
    <2>. QED BY <2>2, <2>3
<1>7. CASE ReadCount
    BY <1>7 DEF ReadCount, bufferVars, TypeInv, Stages, Parsing, InDirectory
<1>8. CASE ReadTable
    BY <1>1, <1>8 DEF ReadTable, bufferVars, TypeInv, Stages, Parsing, InDirectory,
        FileAssumption, Dir
<1>9. CASE ReadValue
    BY <1>9 DEF ReadValue, bufferVars, TypeInv
<1>10. CASE Judge
    <2>1. UNCHANGED <<file, hdr, eof, requests, trouble, off>>
        BY <1>10 DEF Judge, bufferVars
    <2>2. off \in DOMAIN file.dirs /\ Dir.geo \in Seq(Nat) /\ <<>> \in Seq(Nat)
        BY <1>1, <1>10 DEF Judge, TypeInv, InDirectory, FileAssumption, Dir
    <2>3. CASE Accepts(Dir)
        <3>1. ifds' = Append(ifds, off) /\ todo' \in {Dir.geo, <<>>}
            BY <1>10, <2>3 DEF Judge
        <3>2. ifds' \in Seq(DOMAIN file.dirs) /\ todo' \in Seq(Nat)
            BY <2>2, <3>1, AppendTypes DEF TypeInv
        <3>3. stage' \in {"geo", "chain"}
            BY <1>10, <2>3 DEF Judge
        <3>. QED BY <2>1, <2>2, <3>2, <3>3 DEF TypeInv, Stages, Parsing, InDirectory
    <2>4. CASE ~Accepts(Dir)
        <3>1. stage' = "failed" /\ UNCHANGED <<ifds, todo>>
            BY <1>10, <2>4 DEF Judge
        <3>. QED BY <2>1, <3>1 DEF TypeInv, Stages, InDirectory
    <2>. QED BY <2>3, <2>4
<1>11. CASE GeoDone
    BY <1>11 DEF GeoDone, bufferVars, TypeInv, Stages, Parsing, InDirectory
<1>12. CASE NextIFD
    <2>1. UNCHANGED <<file, hdr, eof, requests, trouble, todo, ifds>>
        BY <1>12 DEF NextIFD, bufferVars
    <2>2. CASE Len(ifds) > MaxIFDs
        BY <1>12, <2>1, <2>2 DEF NextIFD, TypeInv, Stages, InDirectory
    <2>3. CASE ~(Len(ifds) > MaxIFDs)
        <3>1. Follow(Dir.next) /\ Dir.next \in DOMAIN file.dirs \cup {0}
            BY <1>1, <1>12, <2>3 DEF NextIFD, FileAssumption, Dir, TypeInv, InDirectory
        <3>. QED BY <2>1, <3>1, FollowTypes DEF TypeInv
    <2>. QED BY <2>2, <2>3
<1>13. CASE UNCHANGED headerVars
    BY <1>13 DEF headerVars, TypeInv
<1>. QED
    BY <1>2, <1>3, <1>4, <1>5, <1>6, <1>7, <1>8, <1>9, <1>10, <1>11, <1>12, <1>13
       DEF HeaderNext, Buffering

-----------------------------------------------------------------------------
(* The buffer.                                                             *)

\* As long as no answer was short, the buffer is a number of whole chunks, no
\* fewer than there were requests.
Chunks ==
    eof \/ trouble \/ \E k \in Nat : hdr = k * Chunk /\ requests <= k

\* Trouble ends the reading: Open fails at once, or has taken a short answer.
TroubleEnds == trouble => eof \/ stage = "failed"

BufferInv == HeaderBounded /\ Chunks /\ TroubleEnds

\* A chunk more is a quotient one larger.
LEMMA Quotients ==
    ASSUME NEW k \in Nat, NEW n \in Nat, k * Chunk <= n
    PROVE  k <= n \div Chunk
<1>. DEFINE q == n \div Chunk
<1>1. Chunk \in Nat \ {0}
    BY ChunkAssumption
<1>2. q \in Nat /\ n < q * Chunk + Chunk
    BY <1>1
<1>3. ASSUME q < k PROVE FALSE
    <2>1. q * Chunk + Chunk <= k * Chunk
        BY <1>1, <1>2, <1>3, Products
    <2>. QED BY <1>1, <1>2, <2>1
<1>. QED BY <1>2, <1>3

\* The size asked for stays within the limit.
LEMMA WantWithinLimit ==
    ASSUME NEW n \in Nat, n <= HdrMax
    PROVE  Want(n) <= HdrMax
<1>1. Chunk \in Nat \ {0} /\ HdrChunks \in Nat
    BY ChunkAssumption, HdrChunksAssumption
<1>2. PICK q \in Nat : Want(n) = q * Chunk /\ q * Chunk < n + Chunk
    BY WantRounds
<1>3. ASSUME HdrChunks < q PROVE FALSE
    <2>1. HdrChunks * Chunk + Chunk <= q * Chunk
        BY <1>1, <1>2, <1>3, Products
    <2>. QED BY <1>1, <1>2, <2>1 DEF HdrMax
<1>4. q <= HdrChunks
    BY <1>1, <1>2, <1>3
<1>. QED BY <1>1, <1>2, <1>4, Products DEF HdrMax

\* An answer, full or short, to one more request.
LEMMA TakeBounded ==
    ASSUME TypeInv, BufferInv, Asking, NEW got \in Nat, got <= Available, Take(got),
           got < Available => trouble', trouble => trouble', trouble' \in BOOLEAN,
           trouble' => trouble \/ got < Available
    PROVE  BufferInv'
<1>. DEFINE want == Want(Need)
<1>1. /\ want \in Nat /\ hdr < want /\ Available \in Nat /\ Available <= want - hdr
      /\ hdr + Available <= file.size
      /\ Available < want - hdr => hdr + Available = file.size
    BY AvailableBounds DEF BufferInv, HeaderBounded, Asking
<1>2. hdr \in Nat /\ requests \in Nat /\ file.size \in Nat
    BY FileTypes DEF TypeInv, FileAssumption
<1>3. ~eof /\ ~trouble /\ requests' = requests + 1 /\ file' = file
    BY DEF Asking, Lack, Take, Fail, BufferInv, TroubleEnds, Parsing
<1>4. hdr' = hdr + got /\ eof' = (got < want - hdr)
    BY DEF Take
<1>5. hdr' <= file'.size /\ hdr' <= HdrMax
    <2>1. want <= HdrMax
        BY NeedTypes, WantWithinLimit DEF Asking
    <2>2. HdrMax \in Nat
        BY ChunkAssumption, HdrChunksAssumption DEF HdrMax
    <2>. QED BY <1>1, <1>2, <1>3, <1>4, <2>1, <2>2
<1>6. eof' /\ ~trouble' => hdr' = file'.size
    BY <1>1, <1>2, <1>3, <1>4
<1>7. PICK k \in Nat : hdr = k * Chunk /\ requests <= k
    BY <1>3 DEF BufferInv, Chunks
<1>8. CASE eof'
    <2>1. k <= hdr' \div Chunk
        BY <1>2, <1>4, <1>7, Quotients, ChunkAssumption
    <2>2. hdr' \div Chunk \in Nat
        BY <1>2, <1>4, ChunkAssumption
    <2>3. requests' <= hdr' \div Chunk + 1
        BY <1>2, <1>3, <1>7, <2>1, <2>2
    <2>. QED BY <1>5, <1>6, <1>8, <2>3
            DEF BufferInv, HeaderBounded, Chunks, TroubleEnds
<1>9. CASE ~eof'
    <2>1. hdr' = want /\ ~trouble'
        <3>1. ~(got < want - hdr)
            BY <1>4, <1>9
        <3>2. got = want - hdr /\ ~(got < Available)
            BY <1>1, <1>2, <3>1
        <3>3. hdr' = want
            BY <1>1, <1>2, <1>4, <3>2
        <3>. QED BY <1>3, <3>2, <3>3
    <2>2. PICK q \in Nat : want = q * Chunk
        BY NeedTypes, WantRounds
    <2>3. k < q
        <3>1. ASSUME q <= k PROVE FALSE
            <4>1. q * Chunk <= k * Chunk
                BY <2>2, <3>1, Products, ChunkAssumption
            <4>. QED BY <1>1, <1>7, <2>2, <4>1
        <3>. QED BY <1>7, <2>2, <3>1
    <2>4. requests' <= q
        BY <1>2, <1>3, <1>7, <2>2, <2>3
    <2>5. q <= hdr' \div Chunk
        BY <2>1, <2>2, <1>1, Quotients, ChunkAssumption
    <2>6. hdr' \div Chunk \in Nat
        BY <1>2, <1>4, ChunkAssumption
    <2>7. requests' <= hdr' \div Chunk + 0
        BY <1>2, <1>3, <2>2, <2>4, <2>5, <2>6
    <2>8. Chunks'
        BY <2>1, <2>2, <2>4 DEF Chunks
    <2>. QED BY <1>5, <1>6, <1>9, <2>1, <2>7, <2>8 DEF BufferInv, HeaderBounded, TroubleEnds
<1>. QED BY <1>4, <1>8, <1>9

LEMMA BufferStep ==
    ASSUME TypeInv, BufferInv, [HeaderNext]_headerVars
    PROVE  BufferInv'
<1>1. CASE Refuse
    BY <1>1 DEF Refuse, Fail, BufferInv, HeaderBounded, Chunks, TroubleEnds
<1>2. CASE ReadRange
    BY <1>2, AvailableBounds, TakeBounded DEF ReadRange, Asking, TypeInv
<1>3. CASE ReadCut
    <2>1. PICK got \in Cuts : got < Available /\ Take(got)
        BY <1>3 DEF ReadCut
    <2>2. Asking /\ trouble' = TRUE /\ got \in Nat
        BY <1>3, CutsAssumption DEF ReadCut
    <2>3. got <= Available
        BY <2>1, <2>2, AvailableBounds DEF Asking
    <2>. QED BY <2>1, <2>2, <2>3, TakeBounded
<1>4. CASE ReadFails
    <2>1. stage' = "failed" /\ trouble' /\ UNCHANGED <<file, hdr, eof>> /\ requests' = requests + 1
        BY <1>4 DEF ReadFails, Asking, Fail
    <2>2. ~eof /\ ~trouble
        BY <1>4 DEF ReadFails, Asking, Lack, BufferInv, TroubleEnds, Parsing
    <2>3. hdr \div Chunk \in Nat /\ requests \in Nat
        BY ChunkAssumption DEF TypeInv
    <2>. QED BY <2>1, <2>2, <2>3 DEF BufferInv, HeaderBounded, Chunks, TroubleEnds
<1>5. CASE ReadMagic \/ ReadCount \/ ReadTable \/ ReadValue \/ Judge \/ GeoDone \/ NextIFD
    <2>1. UNCHANGED bufferVars /\ stage # "failed"
        BY <1>5 DEF ReadMagic, ReadCount, ReadTable, ReadValue, Judge, GeoDone, NextIFD
    <2>. QED BY <2>1 DEF bufferVars, BufferInv, HeaderBounded, Chunks, TroubleEnds
<1>6. CASE UNCHANGED headerVars
    BY <1>6 DEF headerVars, BufferInv, HeaderBounded, Chunks, TroubleEnds
<1>. QED BY <1>1, <1>2, <1>3, <1>4, <1>5, <1>6 DEF HeaderNext, Buffering

-----------------------------------------------------------------------------
(* The verdict.                                                            *)

\* A directory all of which is in the buffer, and which buildIFD accepts.
Taken(f, h, o) ==
    /\ o + 2 <= h /\ o + f.dirs[o].len <= h
    /\ \A i \in DOMAIN f.dirs[o].values : f.dirs[o].values[i] <= h
    /\ Accepts(f.dirs[o])

\* The directories taken so far are the beginning of the file's chain, the
\* present one is the next or the last of them, and what was needed of it so
\* far is in the buffer.
Upcoming == IF ifds = <<>> THEN file.first ELSE file.dirs[ifds[Len(ifds)]].next

ChainInv ==
    /\ stage = "magic" => ifds = <<>>
    /\ \A i \in DOMAIN ifds : Taken(file, hdr, ifds[i])
    /\ ifds # <<>> => file.first = ifds[1]
    /\ \A i \in 1 .. Len(ifds) - 1 : file.dirs[ifds[i]].next = ifds[i + 1]
    /\ stage \in {"count", "table", "values"} => off = Upcoming
    /\ stage \in {"table", "values"} => off + 2 <= hdr
    /\ stage = "values" =>
        /\ off + Dir.len <= hdr
        /\ \A i \in DOMAIN Dir.values :
            Dir.values[i] <= hdr \/ \E k \in DOMAIN todo : todo[k] = Dir.values[i]
    /\ stage \in {"geo", "chain"} => ifds # <<>> /\ ifds[Len(ifds)] = off
    /\ stage = "opened" => ifds # <<>> /\ Upcoming = 0

\* What is needed at each stage.
LEMMA NeedIs ==
    /\ stage = "magic" => Need = 8
    /\ stage = "count" => Need = off + 2
    /\ stage = "table" => Need = off + Dir.len
    /\ stage \in {"values", "geo"} /\ todo # <<>> => Need = Head(todo)
    /\ stage \in {"values", "geo"} /\ todo = <<>> => Need = 0
    /\ stage = "chain" => Need = 0
<1>1. ASSUME stage = "magic" PROVE Need = 8
    BY <1>1 DEF Need
<1>2. ASSUME stage = "count" PROVE Need = off + 2
    BY <1>2 DEF Need
<1>3. ASSUME stage = "table" PROVE Need = off + Dir.len
    BY <1>3 DEF Need
<1>4. ASSUME stage \in {"values", "geo"}, todo # <<>> PROVE Need = Head(todo)
    BY <1>4 DEF Need
<1>5. ASSUME stage \in {"values", "geo"}, todo = <<>> PROVE Need = 0
    BY <1>5 DEF Need
<1>6. ASSUME stage = "chain" PROVE Need = 0
    BY <1>6 DEF Need
<1>. QED BY <1>1, <1>2, <1>3, <1>4, <1>5, <1>6

\* Filling the buffer changes nothing else, unless Open fails.
LEMMA BufferGrows ==
    ASSUME TypeInv, Buffering
    PROVE  /\ hdr' \in Nat /\ hdr <= hdr'
           /\ UNCHANGED <<file, off, todo, ifds>>
           /\ stage' \in {stage, "failed"}
<1>1. CASE Refuse
    BY <1>1 DEF Refuse, Fail, TypeInv
<1>2. CASE ReadRange
    BY <1>2, AvailableBounds DEF ReadRange, Asking, Take, Fail, TypeInv
<1>3. CASE ReadCut
    BY <1>3, CutsAssumption DEF ReadCut, Asking, Take, Fail, TypeInv
<1>4. CASE ReadFails
    BY <1>4 DEF ReadFails, Fail, TypeInv
<1>. QED BY <1>1, <1>2, <1>3, <1>4 DEF Buffering

\* A directory of the file has natural numbers in it.
LEMMA DirTypes ==
    ASSUME TypeInv, NEW o \in DOMAIN file.dirs
    PROVE  /\ o \in Nat /\ o # 0 /\ file.dirs[o].len \in Nat
           /\ file.dirs[o].next \in DOMAIN file.dirs \cup {0}
           /\ file.dirs[o].values \in Seq(Nat) /\ file.dirs[o].geo \in Seq(Nat)
           /\ \A i \in DOMAIN file.dirs[o].values : file.dirs[o].values[i] \in Nat
           /\ \A i \in DOMAIN file.dirs[o].geo : file.dirs[o].geo[i] \in Nat
<1>1. FileAssumption(file)
    BY FileTypes DEF TypeInv
<1>2. /\ o \in Nat /\ o # 0 /\ file.dirs[o].len \in Nat
      /\ file.dirs[o].next \in DOMAIN file.dirs \cup {0}
      /\ file.dirs[o].values \in Seq(Nat) /\ file.dirs[o].geo \in Seq(Nat)
    BY <1>1 DEF FileAssumption
<1>. QED BY <1>2

LEMMA TakenGrows ==
    ASSUME TypeInv, NEW o \in DOMAIN file.dirs, NEW h \in Nat, Taken(file, hdr, o), hdr <= h
    PROVE  Taken(file, h, o)
BY DirTypes DEF Taken, TypeInv

LEMMA ChainInvStep ==
    ASSUME TypeInv, ChainInv, [HeaderNext]_headerVars
    PROVE  ChainInv'
<1>0. /\ \A i \in DOMAIN ifds : ifds[i] \in DOMAIN file.dirs
      /\ Len(ifds) \in Nat /\ DOMAIN ifds = 1 .. Len(ifds) /\ hdr \in Nat
    BY DEF TypeInv
<1>1. CASE Buffering
    <2>1. /\ hdr' \in Nat /\ hdr <= hdr' /\ UNCHANGED <<file, off, todo, ifds>>
          /\ stage' \in {stage, "failed"}
        BY <1>1, BufferGrows
    <2>2. \A i \in DOMAIN ifds' : Taken(file', hdr', ifds'[i])
        BY <1>0, <2>1, TakenGrows DEF ChainInv
    <2>3. stage' = stage /\ stage \in {"count", "table", "values"} => off' = Upcoming'
        BY <2>1 DEF ChainInv, Upcoming
    <2>4. ASSUME stage' \in {"table", "values"} PROVE off' + 2 <= hdr'
        <3>1. off \in DOMAIN file.dirs /\ off + 2 <= hdr
            BY <2>1, <2>4 DEF ChainInv, TypeInv, InDirectory
        <3>2. off \in Nat
            BY <3>1, DirTypes
        <3>. QED BY <1>0, <2>1, <3>1, <3>2
    <2>5. ASSUME stage' = "values"
          PROVE  /\ off' + Dir'.len <= hdr'
                 /\ \A i \in DOMAIN Dir'.values :
                     Dir'.values[i] <= hdr' \/ \E k \in DOMAIN todo' : todo'[k] = Dir'.values[i]
        <3>1. /\ off \in DOMAIN file.dirs /\ off + Dir.len <= hdr
              /\ \A i \in DOMAIN Dir.values :
                  Dir.values[i] <= hdr \/ \E k \in DOMAIN todo : todo[k] = Dir.values[i]
            BY <2>1, <2>5 DEF ChainInv, TypeInv, InDirectory
        <3>2. /\ off \in Nat /\ Dir.len \in Nat
              /\ \A i \in DOMAIN Dir.values : Dir.values[i] \in Nat
            BY <3>1, DirTypes DEF Dir
        <3>3. Dir' = Dir
            BY <2>1 DEF Dir
        <3>4. \A n \in Nat : n <= hdr => n <= hdr'
            BY <1>0, <2>1
        <3>. QED BY <1>0, <2>1, <3>1, <3>2, <3>3, <3>4
    <2>. QED BY <2>1, <2>2, <2>3, <2>4, <2>5 DEF ChainInv, Upcoming
<1>2. CASE ReadMagic
    <2>1. ifds' = <<>> /\ stage' \in {"count", "failed"} /\ file' = file
        BY <1>2 DEF ReadMagic, Follow, bufferVars, ChainInv
    <2>2. stage' = "count" => off' = file.first
        BY <1>2 DEF ReadMagic, Follow
    <2>. QED BY <2>1, <2>2 DEF ChainInv, Upcoming
<1>3. CASE ReadCount
    <2>1. UNCHANGED <<file, hdr, off, todo, ifds>> /\ stage = "count" /\ stage' = "table"
        BY <1>3 DEF ReadCount, bufferVars
    <2>2. off + 2 <= hdr
        BY <1>3, NeedIs DEF ReadCount, Have
    <2>. QED BY <2>1, <2>2 DEF ChainInv, Upcoming, Taken
<1>4. CASE ReadTable
    <2>1. UNCHANGED <<file, hdr, off, ifds>> /\ stage = "table" /\ stage' = "values" /\ todo' = Dir.values
        BY <1>4 DEF ReadTable, bufferVars
    <2>2. off + Dir.len <= hdr
        BY <1>4, NeedIs DEF ReadTable, Have
    <2>. QED BY <2>1, <2>2 DEF ChainInv, Upcoming, Taken, Dir
<1>5. CASE ReadValue
    <2>1. UNCHANGED <<file, hdr, off, ifds, stage>> /\ todo' = Tail(todo) /\ todo # <<>>
          /\ stage \in {"values", "geo"}
        BY <1>5 DEF ReadValue, bufferVars
    <2>2. Head(todo) <= hdr
        BY <1>5, <2>1, NeedIs DEF ReadValue, Have
    <2>3. \A k \in DOMAIN todo : todo[k] <= hdr \/ \E j \in DOMAIN todo' : todo'[j] = todo[k]
        <3>1. TAKE k \in DOMAIN todo
        <3>2. CASE k = 1
            BY <2>1, <2>2, <3>2 DEF TypeInv
        <3>3. CASE k # 1
            <4>1. k - 1 \in DOMAIN todo' /\ todo'[k - 1] = todo[k]
                BY <2>1, <3>1, <3>3 DEF TypeInv
            <4>. QED BY <4>1
        <3>. QED BY <3>2, <3>3
    <2>4. stage = "values" => \A i \in DOMAIN Dir.values :
            Dir.values[i] <= hdr \/ \E k \in DOMAIN todo' : todo'[k] = Dir.values[i]
        BY <2>3 DEF ChainInv
    <2>. QED BY <2>1, <2>4 DEF ChainInv, Upcoming, Taken, Dir
<1>6. CASE Judge
    <2>1. UNCHANGED <<file, hdr, off>> /\ stage = "values" /\ todo = <<>>
        BY <1>6 DEF Judge, bufferVars
    <2>2. CASE Accepts(Dir)
        <3>1. ifds' = Append(ifds, off) /\ stage' \in {"geo", "chain"}
            BY <1>6, <2>2 DEF Judge
        <3>2. off \in DOMAIN file.dirs
            BY <2>1 DEF TypeInv, InDirectory
        <3>3. Taken(file, hdr, off)
            BY <2>1, <2>2 DEF ChainInv, Taken, Dir
        <3>4. /\ Len(ifds') = Len(ifds) + 1 /\ ifds'[Len(ifds) + 1] = off
              /\ \A i \in 1 .. Len(ifds) : ifds'[i] = ifds[i]
              /\ DOMAIN ifds' = 1 .. Len(ifds) + 1
            BY <3>1, <3>2 DEF TypeInv
        <3>5. ASSUME NEW i \in DOMAIN ifds' PROVE Taken(file', hdr', ifds'[i])
            <4>1. CASE i = Len(ifds) + 1
                BY <2>1, <3>3, <3>4, <4>1
            <4>2. CASE i \in DOMAIN ifds
                BY <1>0, <2>1, <3>4, <4>2 DEF ChainInv
            <4>. QED BY <1>0, <3>4, <4>1, <4>2
        <3>6. off = Upcoming
            BY <2>1 DEF ChainInv
        <3>7. file.first = ifds'[1]
            BY <1>0, <3>4, <3>6 DEF ChainInv, Upcoming
        <3>8. \A i \in 1 .. Len(ifds') - 1 : file.dirs[ifds'[i]].next = ifds'[i + 1]
            <4>1. TAKE i \in 1 .. Len(ifds') - 1
            <4>2. i \in 1 .. Len(ifds)
                BY <1>0, <3>4
            <4>3. CASE i = Len(ifds)
                BY <1>0, <3>4, <3>6, <4>2, <4>3 DEF Upcoming
            <4>4. CASE i \in 1 .. Len(ifds) - 1
                <5>1. i + 1 \in 1 .. Len(ifds)
                    BY <1>0, <4>4
                <5>2. file.dirs[ifds[i]].next = ifds[i + 1]
                    BY <4>4 DEF ChainInv
                <5>. QED BY <3>4, <4>2, <5>1, <5>2
            <4>5. Len(ifds) \in Nat
                BY <1>0
            <4>6. i = Len(ifds) \/ i \in 1 .. Len(ifds) - 1
                BY <4>2, <4>5
            <4>. QED BY <4>3, <4>4, <4>6
        <3>9. ifds' # <<>> /\ ifds'[Len(ifds')] = off'
            BY <2>1, <3>4, <1>0
        <3>. QED BY <2>1, <3>1, <3>5, <3>7, <3>8, <3>9 DEF ChainInv
    <2>3. CASE ~Accepts(Dir)
        <3>1. stage' = "failed" /\ UNCHANGED ifds
            BY <1>6, <2>3 DEF Judge
        <3>. QED BY <2>1, <3>1 DEF ChainInv, Taken
    <2>. QED BY <2>2, <2>3
<1>7. CASE GeoDone
    <2>1. UNCHANGED <<file, hdr, off, ifds>> /\ stage = "geo" /\ stage' = "chain"
        BY <1>7 DEF GeoDone, bufferVars
    <2>. QED BY <2>1 DEF ChainInv, Taken, Upcoming
<1>8. CASE NextIFD
    <2>1. UNCHANGED <<file, hdr, ifds>> /\ stage = "chain"
        BY <1>8 DEF NextIFD, bufferVars
    <2>2. ifds # <<>> /\ ifds[Len(ifds)] = off
        BY <2>1 DEF ChainInv
    <2>3. stage' = "failed" \/ Follow(Dir.next)
        BY <1>8 DEF NextIFD
    <2>4. Upcoming = Dir.next
        BY <2>2 DEF Upcoming, Dir
    <2>5. /\ stage' \in {"failed", "count", "opened"}
          /\ stage' = "count" => off' = Upcoming
          /\ stage' = "opened" => Upcoming = 0
        BY <2>1, <2>2, <2>3, <2>4 DEF Follow
    <2>. QED BY <2>1, <2>2, <2>5 DEF ChainInv, Taken, Upcoming
<1>9. CASE UNCHANGED headerVars
    BY <1>9 DEF headerVars, ChainInv, Taken, Upcoming, Dir
<1>. QED BY <1>1, <1>2, <1>3, <1>4, <1>5, <1>6, <1>7, <1>8, <1>9 DEF HeaderNext

-----------------------------------------------------------------------------
(* A well-formed file is not refused.                                      *)

\* Open is on its way along the chain s, and what it still has to read of the
\* present directory is in reach.
Along(s) ==
    /\ stage # "failed"
    /\ Len(ifds) <= Len(s)
    /\ stage = "magic" => ifds = <<>>
    /\ stage \in {"count", "table", "values"} => Len(ifds) < Len(s) /\ off = s[Len(ifds) + 1]
    /\ stage \in {"geo", "chain"} => ifds # <<>> /\ off = s[Len(ifds)]
    /\ stage \in {"values", "geo"} => \A k \in DOMAIN todo : Fits(file, todo[k])

AlongInv == ~trouble => \A s \in Chains(file) : WellFormed(file, s) => Along(s)

LEMMA ChainTypes ==
    ASSUME NEW s \in Chains(file)
    PROVE  s \in Seq(DOMAIN file.dirs) /\ Len(s) \in Nat /\ DOMAIN s = 1 .. Len(s)
<1>1. PICK n \in 1 .. MaxIFDs : s \in [1 .. n -> DOMAIN file.dirs]
    BY DEF Chains
<1>2. n \in Nat
    BY <1>1, MaxIFDsAssumption
<1>3. s \in Seq(DOMAIN file.dirs)
    BY <1>1, <1>2
<1>. QED BY <1>3

\* The present directory is a sound one while Open is along a sound chain.
LEMMA DirSound ==
    ASSUME TypeInv, NEW s \in Chains(file), WellFormed(file, s), Along(s),
           stage \in {"count", "table", "values"}
    PROVE  off \in DOMAIN file.dirs /\ SoundDir(file, off)
<1>1. Len(ifds) \in Nat /\ Len(ifds) < Len(s) /\ off = s[Len(ifds) + 1] /\ Len(s) \in Nat
    BY ChainTypes DEF TypeInv, Along
<1>2. Len(ifds) + 1 \in 1 .. Len(s)
    BY <1>1
<1>. QED BY <1>1, <1>2 DEF WellFormed, TypeInv, InDirectory

\* All that a well-formed file makes Open read is there, within the limit.
LEMMA NeedFits ==
    ASSUME TypeInv, NEW s \in Chains(file), WellFormed(file, s), Along(s), stage \in Parsing
    PROVE  Fits(file, Need)
<1>1. CASE stage = "magic"
    BY <1>1, NeedIs DEF WellFormed
<1>2. CASE stage = "count"
    BY <1>2, NeedIs, DirSound DEF SoundDir
<1>3. CASE stage = "table"
    BY <1>3, NeedIs, DirSound DEF SoundDir, Dir
<1>4. CASE stage \in {"values", "geo"} /\ todo # <<>>
    <2>1. 1 \in DOMAIN todo /\ Head(todo) = todo[1]
        BY <1>4 DEF TypeInv
    <2>. QED BY <1>4, <2>1, NeedIs DEF Along
<1>5. CASE stage = "chain" \/ (stage \in {"values", "geo"} /\ todo = <<>>)
    <2>1. file.size \in Nat /\ HdrMax \in Nat
        BY FileTypes, ChunkAssumption, HdrChunksAssumption DEF TypeInv, FileAssumption, HdrMax
    <2>. QED BY <1>5, <2>1, NeedIs DEF Fits
<1>. QED BY <1>1, <1>2, <1>3, <1>4, <1>5 DEF Parsing

LEMMA AlongStep ==
    ASSUME TypeInv, BufferInv, ~trouble', [HeaderNext]_headerVars,
           NEW s \in Chains(file), WellFormed(file, s), ~trouble => Along(s)
    PROVE  Along(s)'
<1>0. /\ file' = file /\ Len(s) \in Nat /\ Len(ifds) \in Nat /\ hdr \in Nat
      /\ DOMAIN s = 1 .. Len(s)
    <2>1. file' = file
        BY BufferGrows
        DEF HeaderNext, ReadMagic, ReadCount, ReadTable, ReadValue, Judge, GeoDone, NextIFD,
            bufferVars, headerVars
    <2>. QED BY <2>1, ChainTypes DEF TypeInv
<1>1. CASE Buffering
    <2>1. ~trouble /\ Along(s)
        BY <1>1 DEF Buffering, Refuse, ReadRange, ReadCut, ReadFails
    <2>2. Lack /\ Fits(file, Need) /\ Need \in Nat
        BY <1>1, <2>1, NeedFits, NeedTypes
        DEF Buffering, Refuse, ReadRange, ReadCut, ReadFails, Asking, Lack
    <2>3. CASE Refuse
        <3>1. file.size \in Nat /\ HdrMax \in Nat
            BY FileTypes, ChunkAssumption, HdrChunksAssumption DEF TypeInv, FileAssumption, HdrMax
        <3>2. Need > hdr /\ Need <= file.size /\ Need <= HdrMax
            BY <2>2 DEF Lack, Fits
        <3>3. eof
            BY <2>2, <2>3, <3>1, <3>2 DEF Refuse
        <3>4. hdr = file.size
            BY <2>1, <3>3 DEF BufferInv, HeaderBounded
        <3>. QED BY <1>0, <2>2, <3>1, <3>2, <3>4
    <2>4. CASE ReadRange
        <3>1. Need <= hdr'
            BY <2>2, <2>4, AvailableBounds DEF ReadRange, Take, Fits
        <3>2. UNCHANGED <<file, stage, off, todo, ifds>>
            BY <2>4, <3>1 DEF ReadRange, Take
        <3>. QED BY <2>1, <3>2 DEF Along, Fits
    <2>. QED BY <1>1, <2>3, <2>4 DEF Buffering, ReadCut, ReadFails
<1>2. CASE ReadMagic \/ ReadCount \/ ReadTable \/ ReadValue \/ Judge \/ GeoDone \/ NextIFD
    <2>0. ~trouble /\ Along(s)
        BY <1>2 DEF ReadMagic, ReadCount, ReadTable, ReadValue, Judge, GeoDone, NextIFD, bufferVars
    <2>1. CASE ReadMagic
        <3>1. 1 \in 1 .. Len(s) /\ file.first = s[1] /\ file.magic
            BY <1>0, ChainTypes DEF WellFormed, Chain
        <3>2. s[1] \in DOMAIN file.dirs
            BY <3>1, ChainTypes
        <3>3. s[1] # 0
            BY <3>2, DirTypes
        <3>4. stage' = "count" /\ off' = s[1] /\ ifds' = <<>>
            BY <2>0, <2>1, <3>1, <3>3 DEF ReadMagic, Follow, Along
        <3>. QED BY <1>0, <3>1, <3>4 DEF Along
    <2>2. CASE ReadCount
        BY <2>0, <2>2 DEF ReadCount, bufferVars, Along
    <2>3. CASE ReadTable
        <3>1. SoundDir(file, off) /\ stage = "table" /\ stage' = "values"
              /\ todo' = Dir.values /\ UNCHANGED <<file, off, ifds>>
            BY <2>0, <2>3, DirSound DEF ReadTable, bufferVars
        <3>2. \A k \in DOMAIN todo' : Fits(file', todo'[k])
            BY <3>1 DEF SoundDir, Dir, Fits
        <3>. QED BY <2>0, <3>1, <3>2 DEF Along
    <2>4. CASE ReadValue
        <3>1. todo' = Tail(todo) /\ todo # <<>> /\ UNCHANGED <<file, stage, off, ifds>>
              /\ stage \in {"values", "geo"}
            BY <2>4 DEF ReadValue, bufferVars
        <3>2. \A k \in DOMAIN todo' : k + 1 \in DOMAIN todo /\ todo'[k] = todo[k + 1]
            BY <3>1 DEF TypeInv
        <3>3. \A k \in DOMAIN todo' : Fits(file', todo'[k])
            BY <2>0, <3>1, <3>2 DEF Along, Fits
        <3>. QED BY <2>0, <3>1, <3>3 DEF Along
    <2>5. CASE Judge
        <3>1. SoundDir(file, off) /\ off \in DOMAIN file.dirs /\ stage = "values"
              /\ Len(ifds) < Len(s) /\ off = s[Len(ifds) + 1]
            BY <2>0, <2>5, DirSound DEF Judge, Along
        <3>2. Accepts(Dir)
            BY <3>1 DEF SoundDir, Dir
        <3>3. /\ ifds' = Append(ifds, off) /\ UNCHANGED <<file, off>>
              /\ stage' \in {"geo", "chain"}
              /\ stage' = "geo" => ifds = <<>> /\ todo' = Dir.geo
            BY <2>5, <3>2 DEF Judge, bufferVars
        <3>4. Len(ifds') = Len(ifds) + 1 /\ ifds' # <<>>
            BY <3>1, <3>3 DEF TypeInv
        <3>5. stage' = "geo" => \A k \in DOMAIN todo' : Fits(file', todo'[k])
            <4>1. SUFFICES ASSUME stage' = "geo" PROVE \A k \in DOMAIN todo' : Fits(file', todo'[k])
                OBVIOUS
            <4>2. off = s[1] /\ todo' = file.dirs[s[1]].geo
                BY <3>1, <3>3, <4>1 DEF Dir
            <4>. QED BY <1>0, <4>2 DEF WellFormed, Fits
        <3>. QED BY <1>0, <3>1, <3>3, <3>4, <3>5 DEF Along
    <2>6. CASE GeoDone
        BY <2>0, <2>6 DEF GeoDone, bufferVars, Along
    <2>7. CASE NextIFD
        <3>1. stage = "chain" /\ ifds # <<>> /\ off = s[Len(ifds)] /\ Len(ifds) <= Len(s)
            BY <2>0, <2>7 DEF NextIFD, Along
        <3>2. Len(ifds) > 0 /\ Len(ifds) \in 1 .. Len(s)
            BY <1>0, <3>1 DEF TypeInv
        <3>3. Len(s) <= MaxIFDs /\ Chain(file, s)
            BY DEF WellFormed
        <3>4. UNCHANGED <<file, ifds>> /\ Follow(Dir.next)
            BY <1>0, <2>7, <3>1, <3>3, MaxIFDsAssumption DEF NextIFD, bufferVars
        <3>5. CASE Len(ifds) = Len(s)
            <4>1. Dir.next = 0
                BY <3>1, <3>3, <3>5 DEF Chain, Dir
            <4>2. stage' = "opened"
                BY <3>1, <3>4, <4>1 DEF Follow
            <4>. QED BY <3>1, <3>4, <4>2 DEF Along
        <3>6. CASE Len(ifds) # Len(s)
            <4>1. Len(ifds) \in 1 .. Len(s) - 1 /\ Len(ifds) + 1 \in 1 .. Len(s)
                BY <1>0, <3>2, <3>6
            <4>2. Dir.next = s[Len(ifds) + 1]
                BY <3>1, <3>3, <4>1 DEF Chain, Dir
            <4>3. s[Len(ifds) + 1] \in DOMAIN file.dirs
                BY <4>1, ChainTypes
            <4>4. Dir.next # 0
                BY <4>2, <4>3, DirTypes
            <4>5. stage' = "count" /\ off' = s[Len(ifds) + 1]
                BY <3>4, <4>2, <4>4 DEF Follow
            <4>. QED BY <1>0, <3>4, <4>1, <4>5 DEF Along
        <3>. QED BY <3>5, <3>6
    <2>. QED BY <1>2, <2>1, <2>2, <2>3, <2>4, <2>5, <2>6, <2>7
<1>3. CASE UNCHANGED headerVars
    BY <1>3 DEF headerVars, Along, Fits
<1>. QED BY <1>1, <1>2, <1>3 DEF HeaderNext

LEMMA AlongInvStep ==
    ASSUME TypeInv, BufferInv, ChainInv, AlongInv, [HeaderNext]_headerVars
    PROVE  ChainInv' /\ AlongInv'
<1>1. file' = file /\ (~trouble' => ~trouble)
    <2>1. CASE Buffering
        <3>1. file' = file
            BY <2>1, BufferGrows
        <3>2. ~trouble' => ~trouble
            BY <2>1 DEF Buffering, Refuse, ReadRange, ReadCut, ReadFails
        <3>. QED BY <3>1, <3>2
    <2>2. CASE ReadMagic \/ ReadCount \/ ReadTable \/ ReadValue \/ Judge \/ GeoDone \/ NextIFD
        BY <2>2 DEF ReadMagic, ReadCount, ReadTable, ReadValue, Judge, GeoDone, NextIFD, bufferVars
    <2>3. CASE UNCHANGED headerVars
        BY <2>3 DEF headerVars
    <2>. QED BY <2>1, <2>2, <2>3 DEF HeaderNext
<1>2. ASSUME ~trouble', NEW s \in Chains(file'), WellFormed(file', s) PROVE Along(s)'
    BY <1>1, <1>2, AlongStep DEF AlongInv
<1>. QED BY <1>2, ChainInvStep DEF AlongInv

HeaderInv == TypeInv /\ BufferInv /\ ChainInv /\ AlongInv

\* The invariant holds when a file is opened, the first or another one.
LEMMA HeaderStarts ==
    ASSUME HeaderInit
    PROVE  HeaderInv
<1>1. TypeInv
    <2>1. todo \in Seq(Nat) /\ ifds \in Seq(DOMAIN file.dirs)
        BY EmptyTypes DEF HeaderInit
    <2>. QED BY <2>1 DEF HeaderInit, TypeInv, Stages, Parsing, InDirectory
<1>2. BufferInv
    <2>1. Chunk \in Nat \ {0} /\ HdrChunks \in Nat /\ file.size \in Nat
        BY ChunkAssumption, HdrChunksAssumption, FileTypes DEF HeaderInit, FileAssumption
    <2>2. HdrMax \in Nat /\ 0 \div Chunk = 0 /\ 0 = 0 * Chunk
        BY <2>1 DEF HdrMax
    <2>. QED BY <2>1, <2>2 DEF HeaderInit, BufferInv, HeaderBounded, Chunks, TroubleEnds
<1>3. ChainInv /\ AlongInv
    BY ChainTypes DEF HeaderInit, ChainInv, AlongInv, Along
<1>. QED BY <1>1, <1>2, <1>3 DEF HeaderInv

LEMMA ReopenStarts ==
    ASSUME NEW f \in Files, Reopen(f)
    PROVE  HeaderInv'
<1>1. TypeInv'
    <2>1. todo' \in Seq(Nat) /\ ifds' \in Seq(DOMAIN file'.dirs)
        BY EmptyTypes DEF Reopen
    <2>. QED BY <2>1 DEF Reopen, TypeInv, Stages, Parsing, InDirectory
<1>2. BufferInv'
    <2>1. Chunk \in Nat \ {0} /\ HdrChunks \in Nat /\ file'.size \in Nat
        BY ChunkAssumption, HdrChunksAssumption, FileTypes DEF Reopen, FileAssumption
    <2>2. HdrMax \in Nat /\ 0 \div Chunk = 0 /\ 0 = 0 * Chunk
        BY <2>1 DEF HdrMax
    <2>. QED BY <2>1, <2>2 DEF Reopen, BufferInv, HeaderBounded, Chunks, TroubleEnds
<1>3. ChainInv' /\ AlongInv'
    <2>1. \A s \in Chains(f) : Len(s) \in Nat
        <3>1. TAKE s \in Chains(f)
        <3>2. PICK n \in 1 .. MaxIFDs : s \in [1 .. n -> DOMAIN f.dirs]
            BY <3>1 DEF Chains
        <3>3. n \in Nat
            BY <3>2, MaxIFDsAssumption
        <3>4. s \in Seq(DOMAIN f.dirs)
            BY <3>2, <3>3
        <3>. QED BY <3>4
    <2>. QED BY <2>1 DEF Reopen, ChainInv, AlongInv, Along
<1>. QED BY <1>1, <1>2, <1>3 DEF HeaderInv

LEMMA HeaderStep ==
    ASSUME HeaderInv, [HeaderNext]_headerVars
    PROVE  HeaderInv'
BY TypesStep, BufferStep, AlongInvStep DEF HeaderInv

LEMMA HeaderVerdict ==
    ASSUME HeaderInv
    PROVE  TypeInv /\ HeaderBounded /\ OpensWhatItShould
<1>. USE DEF HeaderInv
<1>1. ASSUME stage = "opened"
      PROVE  Chain(file, ifds) /\ \A i \in DOMAIN ifds : SoundDir(file, ifds[i])
    <2>1. Chain(file, ifds)
        BY <1>1 DEF ChainInv, Chain, Upcoming
    <2>2. ASSUME NEW i \in DOMAIN ifds PROVE SoundDir(file, ifds[i])
        <3>1. ifds[i] \in DOMAIN file.dirs
            BY DEF TypeInv
        <3>2. Taken(file, hdr, ifds[i])
            BY DEF ChainInv
        <3>3. \A n \in Nat : n <= hdr => Fits(file, n)
            <4>1. hdr <= file.size /\ hdr <= HdrMax /\ hdr \in Nat
                BY DEF BufferInv, HeaderBounded, TypeInv
            <4>2. file.size \in Nat /\ HdrMax \in Nat
                BY FileTypes, ChunkAssumption, HdrChunksAssumption
                DEF TypeInv, FileAssumption, HdrMax
            <4>. QED BY <4>1, <4>2 DEF Fits
        <3>. QED BY <3>1, <3>2, <3>3, DirTypes DEF Taken, SoundDir
    <2>. QED BY <2>1, <2>2
<1>2. ASSUME stage = "failed", ~trouble PROVE \A s \in Chains(file) : ~WellFormed(file, s)
    BY <1>2 DEF AlongInv, Along
<1>. QED BY <1>1, <1>2 DEF BufferInv, OpensWhatItShould

LEMMA HeaderInvHolds == HeaderSpec => []HeaderInv
BY HeaderStarts, HeaderStep, PTL DEF HeaderSpec

\* Every variable of Open keeps its type.
THEOREM HeaderTypes == HeaderSpec => []TypeInv
BY HeaderInvHolds, HeaderVerdict, PTL

\* The header buffer is a prefix of the file within hdrMax, and the requests
\* that filled it are bounded by its size, whatever the directories point at.
THEOREM HeaderStaysBounded == HeaderSpec => []HeaderBounded
BY HeaderInvHolds, HeaderVerdict, PTL

\* What Open returns is the file's whole chain of sound directories, and it
\* refuses no well-formed file unless a request failed or was cut.
THEOREM OpenHolds == HeaderSpec => []OpensWhatItShould
BY HeaderInvHolds, HeaderVerdict, PTL

-----------------------------------------------------------------------------
(* The window of a box.                                                    *)

\* A pixel of the row is in the span if and only if the range touches it: the
\* window loses nothing of the box and has no pixel too many.
LEMMA SpanTouches ==
    ASSUME NEW origin \in Int, NEW scale \in Nat \ {0}, NEW n \in Nat,
           NEW lo \in Int, NEW hi \in Int
    PROVE  LET s == Span(origin, scale, n, lo, hi)
           IN  /\ s.from \in Nat /\ s.to \in Int /\ s.to <= n
               /\ \A x \in 0 .. n - 1 :
                    s.from <= x /\ x < s.to
                        <=> origin + x * scale < hi /\ lo < origin + (x + 1) * scale
<1>. DEFINE f == FloorDiv(lo - origin, scale)
            c == CeilDiv(hi - origin, scale)
            s == Span(origin, scale, n, lo, hi)
<1>1. f \in Int /\ c \in Int
    BY FloorIs, CeilIs
<1>2. s.from = Larger(f, 0) /\ s.to = Smaller(c, n)
    BY DEF Span
<1>3. ASSUME NEW x \in 0 .. n - 1
      PROVE  s.from <= x /\ x < s.to
                <=> origin + x * scale < hi /\ lo < origin + (x + 1) * scale
    <2>1. f <= x <=> lo - origin < (x + 1) * scale
        BY FloorBelow
    <2>2. x < c <=> x * scale < hi - origin
        BY CeilAbove
    <2>3. x * scale \in Int /\ (x + 1) * scale \in Int
        OBVIOUS
    <2>. HIDE DEF f, c, s
    <2>4. s.from <= x <=> f <= x
        BY <1>1, <1>2 DEF Larger
    <2>5. x < s.to <=> x < c
        BY <1>1, <1>2 DEF Smaller
    <2>. QED BY <2>1, <2>2, <2>3, <2>4, <2>5
<1>4. s.from \in Nat /\ s.to \in Int /\ s.to <= n
    <2>. HIDE DEF f, c, s
    <2>. QED BY <1>1, <1>2 DEF Larger, Smaller
<1>. QED BY <1>3, <1>4

\* The window of a box lies in the raster, is not empty, and has the pixels
\* that the box touches and no others: what ReadWindow insists on never fails.
THEOREM WindowIsBox ==
    ASSUME NEW g \in Grids, NEW w \in Nat, NEW h \in Nat, NEW box \in Boxes,
           NEW area, area = Window(g, w, h, box), area.ok
    PROVE  /\ area.x0 \in Nat /\ area.w \in Nat \ {0} /\ area.x0 + area.w <= w
           /\ area.y0 \in Nat /\ area.h \in Nat \ {0} /\ area.y0 + area.h <= h
           /\ \A x \in 0 .. w - 1 :
                area.x0 <= x /\ x < area.x0 + area.w
                    <=> /\ g.originX + x * g.scaleX < box.maxX
                        /\ box.minX < g.originX + (x + 1) * g.scaleX
           /\ \A y \in 0 .. h - 1 :
                area.y0 <= y /\ y < area.y0 + area.h
                    <=> /\ g.originY - y * g.scaleY > box.minY
                        /\ box.maxY > g.originY - (y + 1) * g.scaleY
<1>. DEFINE cols == Span(g.originX, g.scaleX, w, box.minX, box.maxX)
            rows == Span(-g.originY, g.scaleY, h, -box.maxY, -box.minY)
<1>1. /\ g.originX \in Int /\ g.originY \in Int /\ g.scaleX \in Int /\ g.scaleY \in Int
      /\ box.minX \in Int /\ box.maxX \in Int /\ box.minY \in Int /\ box.maxY \in Int
    BY DEF Grids, Boxes
<1>2. /\ g.scaleX \in Nat \ {0} /\ g.scaleY \in Nat \ {0} /\ ~Empty(cols) /\ ~Empty(rows)
      /\ area = [ok |-> TRUE, x0 |-> cols.from, y0 |-> rows.from,
                w |-> cols.to - cols.from, h |-> rows.to - rows.from]
    BY <1>1 DEF Window, NoWindow
<1>3. /\ cols.from \in Nat /\ cols.to \in Int /\ cols.to <= w
      /\ \A x \in 0 .. w - 1 :
            cols.from <= x /\ x < cols.to
                <=> /\ g.originX + x * g.scaleX < box.maxX
                    /\ box.minX < g.originX + (x + 1) * g.scaleX
    BY <1>1, <1>2, SpanTouches
<1>4. /\ rows.from \in Nat /\ rows.to \in Int /\ rows.to <= h
      /\ \A y \in 0 .. h - 1 :
            rows.from <= y /\ y < rows.to
                <=> /\ -g.originY + y * g.scaleY < -box.minY
                    /\ -box.maxY < -g.originY + (y + 1) * g.scaleY
    <2>1. -g.originY \in Int /\ -box.maxY \in Int /\ -box.minY \in Int
        BY <1>1
    <2>. QED BY <1>2, <2>1, SpanTouches
<1>5. cols.from < cols.to /\ rows.from < rows.to
    BY <1>2, <1>3, <1>4 DEF Empty
<1>. HIDE DEF cols, rows
<1>6. /\ area.x0 = cols.from /\ area.x0 + area.w = cols.to /\ area.w \in Nat \ {0}
      /\ area.y0 = rows.from /\ area.y0 + area.h = rows.to /\ area.h \in Nat \ {0}
    BY <1>2, <1>3, <1>4, <1>5
<1>7. ASSUME NEW y \in 0 .. h - 1
      PROVE  area.y0 <= y /\ y < area.y0 + area.h
                <=> /\ g.originY - y * g.scaleY > box.minY
                    /\ box.maxY > g.originY - (y + 1) * g.scaleY
    <2>1. y * g.scaleY \in Int /\ (y + 1) * g.scaleY \in Int
        BY <1>1
    <2>. QED BY <1>1, <1>4, <1>6, <2>1
<1>. QED BY <1>3, <1>4, <1>6, <1>7

-----------------------------------------------------------------------------
(* The tiles of a window.                                                  *)

\* The tile a pixel lies in is the only one of those that hold it.
LEMMA TileOf ==
    ASSUME NEW x \in Nat, NEW size \in Nat \ {0}
    PROVE  /\ x \div size \in Nat
           /\ \A t \in Int : t = x \div size <=> t * size <= x /\ x < t * size + size
<1>. DEFINE q == x \div size
<1>1. q \in Int /\ q * size <= x /\ x < q * size + size
    OBVIOUS
<1>2. ASSUME NEW t \in Int, t * size <= x, x < t * size + size PROVE t = q
    <2>1. (t + 1) * size = t * size + size /\ (q + 1) * size = q * size + size
        BY <1>1
    <2>2. t < q + 1
        BY <1>1, <1>2, <2>1, Products
    <2>3. q < t + 1
        BY <1>1, <1>2, <2>1, Products
    <2>. QED BY <1>1, <2>2, <2>3
<1>3. q \in Nat
    <2>1. (q + 1) * size = q * size + size /\ 0 * size = 0
        BY <1>1
    <2>2. 0 < q + 1
        BY <1>1, <2>1, Products
    <2>. QED BY <1>1, <2>2
<1>. QED BY <1>1, <1>2, <1>3

LEMMA TileOrder ==
    ASSUME NEW x \in Nat, NEW y \in Nat, x <= y, NEW size \in Nat \ {0}
    PROVE  x \div size <= y \div size
<1>. DEFINE p == x \div size
            q == y \div size
<1>1. p \in Int /\ q \in Int /\ p * size <= x /\ y < q * size + size
    OBVIOUS
<1>2. (q + 1) * size = q * size + size
    BY <1>1
<1>3. p < q + 1
    BY <1>1, <1>2, Products
<1>. QED BY <1>1, <1>3

\* The tiles of n pixels from `first` on are those the pixels lie in: none is
\* left out, and none is fetched for nothing.
THEOREM CoveringIsNeeded ==
    ASSUME NEW first \in Nat, NEW n \in Nat \ {0}, NEW size \in Nat \ {0}
    PROVE  /\ Covering(first, n, size) \subseteq Nat
           /\ \A x \in first .. first + n - 1 : x \div size \in Covering(first, n, size)
           /\ \A t \in Covering(first, n, size) :
                \E x \in first .. first + n - 1 : x \div size = t
<1>. DEFINE last == first + n - 1
<1>1. Covering(first, n, size) = first \div size .. last \div size
    BY DEF Covering, TruncDiv
<1>2. first \div size \in Nat /\ last \div size \in Nat
    BY TileOf
<1>3. ASSUME NEW x \in first .. last PROVE x \div size \in Covering(first, n, size)
    BY <1>1, <1>2, TileOf, TileOrder
<1>4. ASSUME NEW t \in Covering(first, n, size)
      PROVE  \E x \in first .. last : x \div size = t
    <2>1. t \in Nat /\ first \div size <= t /\ t <= last \div size
        BY <1>1, <1>2, <1>4
    <2>2. CASE t = first \div size
        BY <2>2
    <2>3. CASE t # first \div size
        <3>1. t * size \in Nat /\ t * size <= t * size /\ t * size < t * size + size
            BY <2>1
        <3>2. (t * size) \div size = t
            BY <2>1, <3>1, TileOf
        <3>3. first < t * size
            <4>1. first < (first \div size) * size + size
                BY TileOf, <1>2
            <4>2. (first \div size + 1) * size <= t * size
                BY <1>2, <2>1, <2>3, Products
            <4>3. (first \div size + 1) * size = (first \div size) * size + size
                BY <1>2
            <4>. QED BY <1>2, <3>1, <4>1, <4>2, <4>3
        <3>4. t * size <= last
            <4>1. t * size <= (last \div size) * size
                BY <1>2, <2>1, Products
            <4>2. (last \div size) * size <= last
                BY TileOf, <1>2
            <4>. QED BY <1>2, <3>1, <4>1, <4>2
        <3>. QED BY <3>1, <3>2, <3>3, <3>4
    <2>. QED BY <2>2, <2>3
<1>. QED BY <1>1, <1>2, <1>3, <1>4

\* None of a mosaic that begins at the left of the map, either: Go's division
\* rounds towards the map.
LEMMA CoveringOnMap ==
    ASSUME NEW first \in Int, NEW n \in Nat \ {0}, NEW size \in Nat \ {0},
           NEW x \in first .. first + n - 1, x \in Nat
    PROVE  x \div size \in Covering(first, n, size)
<1>. DEFINE last == first + n - 1
<1>1. x \div size \in Nat /\ last \in Nat
    BY TileOf
<1>2. x \div size <= last \div size /\ last \div size \in Nat
    BY <1>1, TileOf, TileOrder
<1>3. TruncDiv(last, size) = last \div size
    BY <1>1 DEF TruncDiv
<1>4. TruncDiv(first, size) \in Int /\ TruncDiv(first, size) <= x \div size
    <2>1. CASE first >= 0
        BY <2>1, TileOf, TileOrder DEF TruncDiv
    <2>2. CASE first < 0
        <3>1. TruncDiv(first, size) = -((-first) \div size) /\ -first \in Nat
            BY <2>2 DEF TruncDiv
        <3>2. (-first) \div size \in Nat
            BY <3>1, TileOf
        <3>. QED BY <1>1, <3>1, <3>2
    <2>. QED BY <2>1, <2>2
<1>. QED BY <1>1, <1>2, <1>3, <1>4 DEF Covering

-----------------------------------------------------------------------------
(* What readTile copies.                                                   *)

\* A column within a row, and a row within so many, make an index within the
\* product, and no other pair makes the same.
LEMMA IndexIn ==
    ASSUME NEW cols \in Nat \ {0}, NEW rows \in Nat, NEW c \in 0 .. cols - 1, NEW r \in 0 .. rows - 1
    PROVE  r * cols + c \in 0 .. rows * cols - 1
<1>1. (r + 1) * cols <= rows * cols /\ (r + 1) * cols = r * cols + cols
    BY Products
<1>2. r * cols \in Nat /\ rows * cols \in Nat
    OBVIOUS
<1>. QED BY <1>1, <1>2

LEMMA IndexOnce ==
    ASSUME NEW cols \in Nat \ {0}, NEW c \in 0 .. cols - 1, NEW r \in Nat,
           NEW d \in 0 .. cols - 1, NEW q \in Nat, r * cols + c = q * cols + d
    PROVE  r = q /\ c = d
<1>1. r * cols \in Nat /\ q * cols \in Nat
    OBVIOUS
<1>2. r = (r * cols + c) \div cols
    BY <1>1, TileOf
<1>3. q = (q * cols + d) \div cols
    BY <1>1, TileOf
<1>4. r = q
    BY <1>2, <1>3
<1>. QED BY <1>1, <1>4

Pixels(area) == area.x0 .. area.x0 + area.w - 1

Lines(area) == area.y0 .. area.y0 + area.h - 1

Windows == [ok : BOOLEAN, x0 : Int, y0 : Int, w : Nat \ {0}, h : Nat \ {0}]

\* Where a sample of the window is in the raster.
PlaceOf(area, spp, x, y, b) == ((y - area.y0) * area.w + (x - area.x0)) * spp + b

LEMMA PlaceIn ==
    ASSUME NEW area \in Windows, NEW spp \in Nat \ {0},
           NEW x \in Pixels(area), NEW y \in Lines(area), NEW b \in 0 .. spp - 1
    PROVE  PlaceOf(area, spp, x, y, b) \in 0 .. (area.h * area.w) * spp - 1
<1>1. area.w \in Nat \ {0} /\ area.h \in Nat \ {0} /\ area.x0 \in Int /\ area.y0 \in Int
    BY DEF Windows
<1>2. x - area.x0 \in 0 .. area.w - 1 /\ y - area.y0 \in 0 .. area.h - 1
    BY <1>1 DEF Pixels, Lines
<1>3. (y - area.y0) * area.w + (x - area.x0) \in 0 .. area.h * area.w - 1
    BY <1>1, <1>2, IndexIn
<1>4. area.h * area.w \in Nat
    BY <1>1
<1>. QED BY <1>3, <1>4, IndexIn DEF PlaceOf

LEMMA PlaceOnce ==
    ASSUME NEW area \in Windows, NEW spp \in Nat \ {0},
           NEW x \in Pixels(area), NEW y \in Lines(area), NEW b \in 0 .. spp - 1,
           NEW u \in Pixels(area), NEW v \in Lines(area), NEW a \in 0 .. spp - 1,
           PlaceOf(area, spp, x, y, b) = PlaceOf(area, spp, u, v, a)
    PROVE  x = u /\ y = v /\ b = a
<1>1. area.w \in Nat \ {0} /\ area.h \in Nat \ {0} /\ area.x0 \in Int /\ area.y0 \in Int
    BY DEF Windows
<1>2. /\ x - area.x0 \in 0 .. area.w - 1 /\ y - area.y0 \in 0 .. area.h - 1
      /\ u - area.x0 \in 0 .. area.w - 1 /\ v - area.y0 \in 0 .. area.h - 1
      /\ x \in Int /\ u \in Int /\ y \in Int /\ v \in Int
    BY <1>1 DEF Pixels, Lines
<1>. DEFINE i == (y - area.y0) * area.w + (x - area.x0)
            j == (v - area.y0) * area.w + (u - area.x0)
<1>3. i \in Nat /\ j \in Nat
    BY <1>1, <1>2, IndexIn
<1>4. i * spp + b = j * spp + a
    BY DEF PlaceOf
<1>5. i = j /\ b = a
    <2>. HIDE DEF i, j
    <2>. QED BY <1>3, <1>4, IndexOnce
<1>6. y - area.y0 \in Nat /\ v - area.y0 \in Nat
    BY <1>2
<1>. DEFINE p == y - area.y0
            q == v - area.y0
            d == x - area.x0
            e == u - area.x0
            cols == area.w
<1>7. /\ p \in Nat /\ q \in Nat /\ d \in 0 .. cols - 1 /\ e \in 0 .. cols - 1
      /\ cols \in Nat \ {0} /\ p * cols + d = q * cols + e
    BY <1>1, <1>2, <1>5, <1>6
<1>8. p = q /\ d = e
    <2>. HIDE DEF p, q, d, e, cols
    <2>. QED BY <1>7, IndexOnce
<1>. QED BY <1>1, <1>2, <1>5, <1>8

\* Every copy of a tile stays in the tile's rows and in the raster.
THEOREM CopiesInBounds ==
    ASSUME NEW area \in Windows, NEW spp \in Nat \ {0}, NEW tile \in Nat \X Nat,
           NEW tw \in Nat \ {0}, NEW th \in Nat \ {0}, NEW rows \in 0 .. th,
           NEW c \in Copies(area, tile, tw, rows, th, spp)
    PROVE  /\ c.src \in 0 .. (rows * tw) * spp - 1
           /\ c.dst \in 0 .. (area.h * area.w) * spp - 1
<1>. DEFINE tileX == tile[1] * tw
            tileY == tile[2] * th
<1>1. /\ area.w \in Nat \ {0} /\ area.h \in Nat \ {0} /\ area.x0 \in Int /\ area.y0 \in Int
      /\ tileX \in Nat /\ tileY \in Nat
    BY DEF Windows
<1>2. PICK x \in Larger(area.x0, tileX) .. Smaller(area.x0 + area.w, tileX + tw) - 1,
           y \in Larger(area.y0, tileY) .. Smaller(area.y0 + area.h, tileY + rows) - 1,
           b \in 0 .. spp - 1 :
        c = [src |-> ((y - tileY) * tw + (x - tileX)) * spp + b,
             dst |-> ((y - area.y0) * area.w + (x - area.x0)) * spp + b]
    BY DEF Copies
<1>. HIDE DEF tileX, tileY
<1>3. /\ x \in Pixels(area) /\ y \in Lines(area)
      /\ x - tileX \in 0 .. tw - 1 /\ y - tileY \in 0 .. rows - 1
    BY <1>1, <1>2 DEF Larger, Smaller, Pixels, Lines
<1>4. (y - tileY) * tw + (x - tileX) \in 0 .. rows * tw - 1
    BY <1>3, IndexIn
<1>5. rows * tw \in Nat
    OBVIOUS
<1>6. c.src \in 0 .. (rows * tw) * spp - 1
    BY <1>2, <1>4, <1>5, IndexIn
<1>7. c.dst = PlaceOf(area, spp, x, y, b)
    BY <1>2 DEF PlaceOf
<1>. QED BY <1>3, <1>6, <1>7, PlaceIn

\* Where a sample is in the data of a tile.
Within(tile, tw, th, spp, x, y, b) == ((y - tile[2] * th) * tw + (x - tile[1] * tw)) * spp + b

\* Every sample of the window is copied from the tile its pixel lies in, if that
\* has the pixel's row (a last strip has all the rows of the image).
THEOREM SampleIsCopied ==
    ASSUME NEW area \in Windows, NEW spp \in Nat \ {0}, NEW tw \in Nat \ {0}, NEW th \in Nat \ {0},
           NEW x \in Pixels(area), NEW y \in Lines(area), NEW b \in 0 .. spp - 1,
           x \in Nat, y \in Nat, NEW rows \in 0 .. th, y < (y \div th) * th + rows
    PROVE  LET tile == <<x \div tw, y \div th>>
           IN  /\ tile \in CoveringTiles(area, tw, th)
               /\ [src |-> Within(tile, tw, th, spp, x, y, b), dst |-> PlaceOf(area, spp, x, y, b)]
                    \in Copies(area, tile, tw, rows, th, spp)
<1>. DEFINE tile == <<x \div tw, y \div th>>
            tileX == tile[1] * tw
            tileY == tile[2] * th
<1>1. /\ area.w \in Nat \ {0} /\ area.h \in Nat \ {0} /\ area.x0 \in Int /\ area.y0 \in Int
      /\ x \in Nat /\ y \in Nat
    BY DEF Windows, Pixels, Lines
<1>2. x \div tw \in Covering(area.x0, area.w, tw) /\ y \div th \in Covering(area.y0, area.h, th)
    BY <1>1, CoveringOnMap DEF Pixels, Lines
<1>3. /\ tileX \in Nat /\ tileX <= x /\ x < tileX + tw
      /\ tileY \in Nat /\ tileY <= y /\ y < tileY + rows
    <2>1. x \div tw \in Nat /\ (x \div tw) * tw <= x /\ x < (x \div tw) * tw + tw
        BY <1>1, TileOf
    <2>2. y \div th \in Nat /\ (y \div th) * th <= y
        BY TileOf
    <2>. QED BY <1>1, <2>1, <2>2
<1>4. /\ x \in Larger(area.x0, tileX) .. Smaller(area.x0 + area.w, tileX + tw) - 1
      /\ y \in Larger(area.y0, tileY) .. Smaller(area.y0 + area.h, tileY + rows) - 1
    <2>. HIDE DEF tileX, tileY
    <2>. QED BY <1>1, <1>3 DEF Larger, Smaller, Pixels, Lines
<1>5. [src |-> Within(tile, tw, th, spp, x, y, b), dst |-> PlaceOf(area, spp, x, y, b)]
        \in Copies(area, tile, tw, rows, th, spp)
    <2>1. /\ x \in Larger(area.x0, tile[1] * tw) .. Smaller(area.x0 + area.w, tile[1] * tw + tw) - 1
          /\ y \in Larger(area.y0, tile[2] * th) .. Smaller(area.y0 + area.h, tile[2] * th + rows) - 1
        BY <1>4
    <2>. HIDE DEF tile, tileX, tileY
    <2>. QED BY <2>1 DEF Copies, Within, PlaceOf
<1>. QED BY <1>2, <1>5 DEF CoveringTiles

\* And from nowhere else: whatever the order of the tiles, the raster ends up
\* with every sample where it belongs.
THEOREM SampleIsCopiedOnce ==
    ASSUME NEW area \in Windows, NEW spp \in Nat \ {0}, NEW tw \in Nat \ {0}, NEW th \in Nat \ {0},
           NEW tile \in Nat \X Nat, NEW rows \in 0 .. th,
           NEW c \in Copies(area, tile, tw, rows, th, spp),
           NEW x \in Pixels(area), NEW y \in Lines(area), NEW b \in 0 .. spp - 1,
           c.dst = PlaceOf(area, spp, x, y, b)
    PROVE  tile = <<x \div tw, y \div th>> /\ c.src = Within(tile, tw, th, spp, x, y, b)
<1>. DEFINE tileX == tile[1] * tw
            tileY == tile[2] * th
<1>1. /\ area.w \in Nat \ {0} /\ area.h \in Nat \ {0} /\ area.x0 \in Int /\ area.y0 \in Int
      /\ tileX \in Nat /\ tileY \in Nat /\ tile[1] \in Int /\ tile[2] \in Int
    BY DEF Windows
<1>2. PICK u \in Larger(area.x0, tileX) .. Smaller(area.x0 + area.w, tileX + tw) - 1,
           v \in Larger(area.y0, tileY) .. Smaller(area.y0 + area.h, tileY + rows) - 1,
           a \in 0 .. spp - 1 :
        c = [src |-> ((v - tileY) * tw + (u - tileX)) * spp + a,
             dst |-> ((v - area.y0) * area.w + (u - area.x0)) * spp + a]
    BY DEF Copies
<1>3. /\ u \in Pixels(area) /\ v \in Lines(area) /\ u \in Nat /\ v \in Nat
      /\ tileX <= u /\ u < tileX + tw /\ tileY <= v /\ v < tileY + th
    <2>. HIDE DEF tileX, tileY
    <2>. QED BY <1>1, <1>2 DEF Larger, Smaller, Pixels, Lines
<1>4. c.dst = PlaceOf(area, spp, u, v, a) /\ c.src = Within(tile, tw, th, spp, u, v, a)
    BY <1>2 DEF PlaceOf, Within
<1>5. u = x /\ v = y /\ a = b
    BY <1>2, <1>3, <1>4, PlaceOnce
<1>6. tile[1] = u \div tw /\ tile[2] = v \div th
    BY <1>1, <1>3, TileOf
<1>7. tile = <<tile[1], tile[2]>>
    OBVIOUS
<1>. QED BY <1>4, <1>5, <1>6, <1>7

-----------------------------------------------------------------------------
(* The size of the output.                                                 *)

\* A range of pixels on the level's own grid, whose pixels are k times as large,
\* against the same range at full resolution.
LEMMA SpanCoarser ==
    ASSUME NEW origin \in Int, NEW scale \in Nat \ {0}, NEW lo \in Int, NEW hi \in Int,
           NEW n \in Nat, NEW m \in Nat, NEW k \in Nat \ {0}, m <= CeilDiv(n, k),
           NEW s, s = Span(origin, scale, n, lo, hi),
           NEW t, t = Span(origin, scale * k, m, lo, hi)
    PROVE  /\ s.from \in Nat /\ s.to \in Int /\ t.from \in Nat /\ t.to \in Int
           /\ (t.to - 1) * k < s.to
           /\ s.from < (t.from + 1) * k
           /\ t.from * k <= s.from
           /\ m = CeilDiv(n, k) => s.to <= t.to * k
<1>. DEFINE f == FloorDiv(lo - origin, scale)
            c == CeilDiv(hi - origin, scale)
            F == FloorDiv(lo - origin, scale * k)
            C == CeilDiv(hi - origin, scale * k)
<1>1. scale * k \in Nat \ {0}
    <2>1. 0 * k < scale * k
        BY Products
    <2>. QED BY <2>1
<1>2. /\ f \in Int /\ c \in Int /\ F \in Int /\ C \in Int /\ CeilDiv(n, k) \in Int
      /\ s.from = Larger(f, 0) /\ s.to = Smaller(c, n)
      /\ t.from = Larger(F, 0) /\ t.to = Smaller(C, m)
    BY <1>1, FloorIs, CeilIs DEF Span
<1>3. /\ s.from \in Nat /\ s.to \in Int /\ t.from \in Nat /\ t.to \in Int
      /\ F <= t.from /\ t.to <= C /\ t.to <= m
      /\ f <= s.from /\ s.to <= c /\ s.to <= n
    <2>. HIDE DEF f, c, F, C
    <2>. QED BY <1>2 DEF Larger, Smaller
<1>. DEFINE last == t.to - 1
            after == t.from + 1
<1>4. last * k < s.to
    <2>1. last * (scale * k) < hi - origin
        BY <1>1, <1>2, <1>3, CeilAbove
    <2>2. last * (scale * k) = (last * k) * scale /\ last * k \in Int
        BY <1>3
    <2>3. last * k < c
        BY <2>1, <2>2, CeilAbove
    <2>4. last < CeilDiv(n, k)
        BY <1>2, <1>3
    <2>5. last * k < n
        BY <1>3, <2>4, CeilAbove
    <2>. HIDE DEF c, last
    <2>. QED BY <1>2, <2>2, <2>3, <2>5 DEF Smaller
<1>5. s.from < after * k
    <2>1. lo - origin < after * (scale * k)
        BY <1>1, <1>2, <1>3, FloorBelow
    <2>2. /\ after * (scale * k) = (after * k) * scale /\ after * k \in Int
          /\ after * k - 1 \in Int /\ (after * k - 1) + 1 = after * k
        BY <1>3
    <2>3. f <= after * k - 1
        BY <2>1, <2>2, FloorBelow
    <2>4. 0 * k < after * k
        BY <1>3, Products
    <2>. HIDE DEF f, after
    <2>. QED BY <1>2, <2>2, <2>3, <2>4 DEF Larger
<1>6. t.from * k <= s.from
    <2>1. CASE t.from = F
        <3>1. F * (scale * k) <= lo - origin
            BY <1>1, FloorIs
        <3>2. /\ F * (scale * k) = (F * k) * scale /\ F * k \in Int
              /\ F * k - 1 \in Int /\ (F * k - 1) + 1 = F * k
            BY <1>2
        <3>3. ~(f <= F * k - 1)
            <4>1. f <= F * k - 1 <=> lo - origin < ((F * k - 1) + 1) * scale
                BY <3>2, FloorBelow
            <4>2. (F * k) * scale \in Int
                BY <3>2
            <4>. HIDE DEF f, F
            <4>. QED BY <3>1, <3>2, <4>1, <4>2
        <3>. HIDE DEF f, F
        <3>. QED BY <1>2, <1>3, <2>1, <3>2, <3>3
    <2>2. CASE t.from # F
        <3>1. t.from = 0
            <4>. HIDE DEF F
            <4>. QED BY <1>2, <2>2 DEF Larger
        <3>. QED BY <1>3, <3>1
    <2>. QED BY <2>1, <2>2
<1>7. ASSUME m = CeilDiv(n, k) PROVE s.to <= t.to * k
    <2>1. CASE t.to = C
        <3>1. hi - origin <= C * (scale * k)
            BY <1>1, CeilIs
        <3>2. C * (scale * k) = (C * k) * scale /\ C * k \in Int /\ (C * k) * scale \in Int
            BY <1>2
        <3>3. ~(C * k < c)
            <4>1. C * k < c <=> (C * k) * scale < hi - origin
                BY <3>2, CeilAbove
            <4>. HIDE DEF c, C
            <4>. QED BY <3>1, <3>2, <4>1
        <3>. HIDE DEF c, C
        <3>. QED BY <1>2, <1>3, <2>1, <3>2, <3>3
    <2>2. CASE t.to # C
        <3>1. t.to = m
            <4>. HIDE DEF C
            <4>. QED BY <1>2, <2>2 DEF Smaller
        <3>2. n <= CeilDiv(n, k) * k /\ CeilDiv(n, k) * k \in Int
            BY <1>2, CeilIs
        <3>. QED BY <1>3, <1>7, <3>1, <3>2
    <2>. QED BY <2>1, <2>2
<1>. QED BY <1>3, <1>4, <1>5, <1>6, <1>7

\* A range that is at most px pixels of a level when it is rounded at full
\* resolution is at most one more on the level's own grid, and no more if it
\* begins at the edge of a pixel.
LEMMA SpanShrinks ==
    ASSUME NEW origin \in Int, NEW scale \in Nat \ {0}, NEW lo \in Int, NEW hi \in Int,
           NEW n \in Nat, NEW m \in Nat, NEW k \in Nat \ {0}, m <= CeilDiv(n, k),
           NEW s, s = Span(origin, scale, n, lo, hi),
           NEW t, t = Span(origin, scale * k, m, lo, hi),
           NEW px \in Nat, CeilDiv(s.to - s.from, k) <= px
    PROVE  /\ t.to - t.from <= px + 1
           /\ s.from % k = 0 => t.to - t.from <= px
<1>. DEFINE last == t.to - 1
            after == t.from + 1
<1>1. /\ s.from \in Nat /\ s.to \in Int /\ t.from \in Nat /\ t.to \in Int
      /\ last * k < s.to /\ s.from < after * k /\ t.from * k <= s.from
    BY SpanCoarser
<1>2. s.to - s.from <= px * k
    <2>1. s.to - s.from \in Int
        BY <1>1
    <2>2. s.to - s.from <= CeilDiv(s.to - s.from, k) * k /\ CeilDiv(s.to - s.from, k) \in Int
        BY <2>1, CeilIs
    <2>3. CeilDiv(s.to - s.from, k) * k <= px * k
        BY <2>2, Products
    <2>. QED BY <2>1, <2>2, <2>3
<1>3. (last - after) * k < px * k
    <2>1. last \in Int /\ after \in Int
        BY <1>1
    <2>. HIDE DEF last, after
    <2>2. (last - after) * k = last * k - after * k /\ last * k \in Int /\ after * k \in Int
          /\ px * k \in Int
        BY <2>1
    <2>. QED BY <1>1, <1>2, <2>2
<1>4. last - after < px
    BY <1>1, <1>3, Products
<1>5. ASSUME s.from % k = 0 PROVE t.to - t.from <= px
    <2>. DEFINE q == s.from \div k
                from == t.from
    <2>1. q \in Nat /\ s.from = q * k
        BY <1>1, <1>5
    <2>2. from \in Nat /\ from * k <= q * k /\ q * k < (from + 1) * k
        BY <1>1, <2>1
    <2>3. q = from
        <3>. HIDE DEF q, from
        <3>1. q < from + 1 /\ from <= q
            BY <2>1, <2>2, Products
        <3>. QED BY <2>1, <2>2, <3>1
    <2>4. last * k < (px + from) * k
        <3>1. (px + from) * k = px * k + from * k /\ px * k \in Int /\ from * k \in Int
              /\ last * k \in Int
            BY <1>1
        <3>2. s.from = from * k
            BY <2>1, <2>3
        <3>. HIDE DEF last, from, q
        <3>. QED BY <1>1, <1>2, <3>1, <3>2
    <2>5. last < px + from
        BY <1>1, <2>2, <2>4, Products
    <2>. QED BY <1>1, <2>5
<1>. QED BY <1>1, <1>4, <1>5

\* A range of more than px pixels at full resolution is as many on the level's
\* own grid, if the level has the size its factor says.
LEMMA SpanExceeds ==
    ASSUME NEW origin \in Int, NEW scale \in Nat \ {0}, NEW lo \in Int, NEW hi \in Int,
           NEW n \in Nat, NEW m \in Nat, NEW k \in Nat \ {0}, m = CeilDiv(n, k),
           NEW s, s = Span(origin, scale, n, lo, hi),
           NEW t, t = Span(origin, scale * k, m, lo, hi), NEW px \in Nat
    PROVE  /\ s.from < s.to => t.from < t.to
           /\ CeilDiv(s.to - s.from, k) > px => t.to - t.from > px
<1>1. m <= CeilDiv(n, k)
    OBVIOUS
<1>2. /\ s.from \in Nat /\ s.to \in Int /\ t.from \in Nat /\ t.to \in Int
      /\ t.from * k <= s.from /\ s.to <= t.to * k
    BY <1>1, SpanCoarser
<1>. DEFINE a == t.from
            z == t.to
<1>3. a \in Int /\ z \in Int /\ a * k \in Int /\ z * k \in Int
    BY <1>2
<1>4. ASSUME s.from < s.to PROVE a < z
    <2>. HIDE DEF a, z
    <2>1. a * k < z * k
        BY <1>2, <1>3, <1>4 DEF a, z
    <2>. QED BY <1>3, <2>1, Products
<1>5. ASSUME CeilDiv(s.to - s.from, k) > px PROVE z - a > px
    <2>1. px * k < s.to - s.from
        <3>1. s.to - s.from \in Int
            BY <1>2
        <3>2. CeilDiv(s.to - s.from, k) \in Int
            BY <3>1, CeilIs
        <3>. QED BY <1>5, <3>1, <3>2, CeilAbove
    <2>2. (z - a) * k = z * k - a * k /\ px * k \in Int /\ z - a \in Int
        BY <1>3
    <2>. DEFINE d == z - a
    <2>3. px * k < d * k
        BY <1>2, <1>3, <2>1, <2>2
    <2>. HIDE DEF d
    <2>4. px < d
        BY <2>2, <2>3, Products DEF d
    <2>. QED BY <1>3, <2>4 DEF d
<1>. QED BY <1>4, <1>5

\* A product cut from an overview that fits the window at full resolution is at
\* most a pixel larger than asked for on each side, if the overview is no larger
\* than its factor says.
THEOREM OutputWithinPixel ==
    ASSUME NEW f, f.grid \in Grids, NEW i \in DOMAIN f.levels, 1 \in DOMAIN f.levels,
           \A j \in DOMAIN f.levels : f.levels[j].width \in Nat \ {0} /\ f.levels[j].height \in Nat \ {0},
           NEW box \in Boxes, NEW maxPx \in Nat,
           NEW full, full = Window(f.grid, f.levels[1].width, f.levels[1].height, box), full.ok,
           FitsLevel(f, i, maxPx, full.w, full.h),
           f.levels[i].width <= CeilDiv(f.levels[1].width, Decimation(f, i)),
           f.levels[i].height <= CeilDiv(f.levels[1].height, Decimation(f, i)),
           NEW area, area = LevelWindow(f, i, box), area.ok
    PROVE  area.w <= maxPx + 1 /\ area.h <= maxPx + 1
<1>. DEFINE g == f.grid
            k == Decimation(f, i)
            W == f.levels[1].width
            H == f.levels[1].height
            w == f.levels[i].width
            h == f.levels[i].height
<1>1. /\ W \in Nat \ {0} /\ H \in Nat \ {0} /\ w \in Nat \ {0} /\ h \in Nat \ {0}
      /\ g.originX \in Int /\ g.originY \in Int /\ g.scaleX \in Int /\ g.scaleY \in Int
      /\ box.minX \in Int /\ box.maxX \in Int /\ box.minY \in Int /\ box.maxY \in Int
    BY DEF Grids, Boxes
<1>2. k \in Nat \ {0}
    <2>1. (2 * W + w) \div (2 * w) \in Int
        BY <1>1
    <2>. QED BY <2>1 DEF Decimation, Reduction, Larger
<1>. DEFINE lg == LevelGrid(f, i)
<1>4. /\ lg.originX = g.originX /\ lg.originY = g.originY
      /\ lg.scaleX = g.scaleX * k /\ lg.scaleY = g.scaleY * k
    BY DEF LevelGrid, Grids
<1>. DEFINE sx == Span(g.originX, g.scaleX, W, box.minX, box.maxX)
            sy == Span(-g.originY, g.scaleY, H, -box.maxY, -box.minY)
            tx == Span(g.originX, g.scaleX * k, w, box.minX, box.maxX)
            ty == Span(-g.originY, g.scaleY * k, h, -box.maxY, -box.minY)
<1>5. /\ full.w = sx.to - sx.from /\ full.h = sy.to - sy.from
      /\ g.scaleX > 0 /\ g.scaleY > 0
    BY <1>1 DEF Window, NoWindow
<1>6. area.w = tx.to - tx.from /\ area.h = ty.to - ty.from
    BY <1>4 DEF LevelWindow, Window, NoWindow
<1>7. CeilDiv(sx.to - sx.from, k) <= maxPx /\ CeilDiv(sy.to - sy.from, k) <= maxPx
    BY <1>5 DEF FitsLevel
<1>8. g.scaleX \in Nat \ {0} /\ g.scaleY \in Nat \ {0} /\ -g.originY \in Int
      /\ -box.maxY \in Int /\ -box.minY \in Int
    BY <1>1, <1>5
<1>9. w <= CeilDiv(W, k) /\ h <= CeilDiv(H, k)
    OBVIOUS
<1>. HIDE DEF g, k, W, H, w, h
<1>10. tx.to - tx.from <= maxPx + 1
    BY <1>1, <1>2, <1>7, <1>8, <1>9, SpanShrinks
<1>11. ty.to - ty.from <= maxPx + 1
    BY <1>1, <1>2, <1>7, <1>8, <1>9, SpanShrinks
<1>. QED BY <1>6, <1>10, <1>11

\* Of a level that does not fit, the window exceeds the size asked for on one
\* side; of a level that fits, it keeps to that size where it begins at the edge
\* of a pixel.
SizeTells(f, i, maxPx, full, area) ==
    /\ ~FitsLevel(f, i, maxPx, full.w, full.h) => area.w > maxPx \/ area.h > maxPx
    /\ FitsLevel(f, i, maxPx, full.w, full.h) =>
        /\ full.x0 % Decimation(f, i) = 0 => area.w <= maxPx
        /\ full.y0 % Decimation(f, i) = 0 => area.h <= maxPx

LEMMA LevelSizes ==
    ASSUME NEW f, f.grid \in Grids, NEW i \in DOMAIN f.levels, 1 \in DOMAIN f.levels,
           \A j \in DOMAIN f.levels : f.levels[j].width \in Nat \ {0} /\ f.levels[j].height \in Nat \ {0},
           NEW box \in Boxes, NEW maxPx \in Nat,
           NEW full, full = Window(f.grid, f.levels[1].width, f.levels[1].height, box), full.ok,
           f.levels[i].width = CeilDiv(f.levels[1].width, Decimation(f, i)),
           f.levels[i].height = CeilDiv(f.levels[1].height, Decimation(f, i)),
           NEW area, area = LevelWindow(f, i, box)
    PROVE  SizeTells(f, i, maxPx, full, area)
<1>. DEFINE g == f.grid
            k == Decimation(f, i)
            W == f.levels[1].width
            H == f.levels[1].height
            w == f.levels[i].width
            h == f.levels[i].height
<1>1. /\ W \in Nat \ {0} /\ H \in Nat \ {0} /\ w \in Nat \ {0} /\ h \in Nat \ {0}
      /\ g.originX \in Int /\ g.originY \in Int /\ g.scaleX \in Int /\ g.scaleY \in Int
      /\ box.minX \in Int /\ box.maxX \in Int /\ box.minY \in Int /\ box.maxY \in Int
    BY DEF Grids, Boxes
<1>2. k \in Nat \ {0}
    <2>1. (2 * W + w) \div (2 * w) \in Int
        BY <1>1
    <2>. QED BY <2>1 DEF Decimation, Reduction, Larger
<1>. DEFINE lg == LevelGrid(f, i)
<1>3. /\ lg.originX = g.originX /\ lg.originY = g.originY
      /\ lg.scaleX = g.scaleX * k /\ lg.scaleY = g.scaleY * k
    BY DEF LevelGrid, Grids
<1>. DEFINE sx == Span(g.originX, g.scaleX, W, box.minX, box.maxX)
            sy == Span(-g.originY, g.scaleY, H, -box.maxY, -box.minY)
            tx == Span(g.originX, g.scaleX * k, w, box.minX, box.maxX)
            ty == Span(-g.originY, g.scaleY * k, h, -box.maxY, -box.minY)
<1>4. /\ full.w = sx.to - sx.from /\ full.h = sy.to - sy.from
      /\ full.x0 = sx.from /\ full.y0 = sy.from
      /\ g.scaleX > 0 /\ g.scaleY > 0 /\ ~Empty(sx) /\ ~Empty(sy)
    BY <1>1 DEF Window, NoWindow
<1>5. g.scaleX \in Nat \ {0} /\ g.scaleY \in Nat \ {0} /\ -g.originY \in Int
      /\ -box.maxY \in Int /\ -box.minY \in Int
    BY <1>1, <1>4
<1>6. w = CeilDiv(W, k) /\ h = CeilDiv(H, k) /\ w <= CeilDiv(W, k) /\ h <= CeilDiv(H, k)
    BY <1>1
<1>7. area = IF lg.scaleX <= 0 \/ lg.scaleY <= 0 THEN NoWindow
             ELSE IF Empty(tx) \/ Empty(ty) THEN NoWindow
             ELSE [ok |-> TRUE, x0 |-> tx.from, y0 |-> ty.from,
                   w |-> tx.to - tx.from, h |-> ty.to - ty.from]
    BY <1>3 DEF LevelWindow, Window
<1>8. FitsLevel(f, i, maxPx, full.w, full.h) <=>
        CeilDiv(full.w, k) <= maxPx /\ CeilDiv(full.h, k) <= maxPx
    BY DEF FitsLevel
<1>. HIDE DEF g, k, W, H, w, h, lg
<1>9. /\ sx.from \in Nat /\ sx.to \in Int /\ sy.from \in Nat /\ sy.to \in Int
      /\ tx.from \in Nat /\ tx.to \in Int /\ ty.from \in Nat /\ ty.to \in Int
    <2>1. sx.from \in Nat /\ sx.to \in Int /\ tx.from \in Nat /\ tx.to \in Int
        BY <1>1, <1>2, <1>5, <1>6, SpanCoarser
    <2>2. sy.from \in Nat /\ sy.to \in Int /\ ty.from \in Nat /\ ty.to \in Int
        BY <1>1, <1>2, <1>5, <1>6, SpanCoarser
    <2>. QED BY <2>1, <2>2
<1>10. /\ sx.from < sx.to => tx.from < tx.to
       /\ CeilDiv(sx.to - sx.from, k) > maxPx => tx.to - tx.from > maxPx
    <2>1. /\ g.originX \in Int /\ g.scaleX \in Nat \ {0} /\ W \in Nat /\ w \in Nat
          /\ box.minX \in Int /\ box.maxX \in Int /\ w = CeilDiv(W, k)
        BY <1>1, <1>5, <1>6
    <2>. QED BY <1>2, <2>1, SpanExceeds
<1>11. /\ sy.from < sy.to => ty.from < ty.to
       /\ CeilDiv(sy.to - sy.from, k) > maxPx => ty.to - ty.from > maxPx
    BY <1>1, <1>2, <1>5, <1>6, SpanExceeds
<1>12. CeilDiv(sx.to - sx.from, k) <= maxPx /\ sx.from % k = 0 => tx.to - tx.from <= maxPx
    BY <1>1, <1>2, <1>5, <1>6, SpanShrinks
<1>13. CeilDiv(sy.to - sy.from, k) <= maxPx /\ sy.from % k = 0 => ty.to - ty.from <= maxPx
    BY <1>1, <1>2, <1>5, <1>6, SpanShrinks
<1>. HIDE DEF sx, sy, tx, ty
<1>14. area.w = tx.to - tx.from /\ area.h = ty.to - ty.from
    <2>1. ~Empty(tx) /\ ~Empty(ty)
        BY <1>4, <1>9, <1>10, <1>11 DEF Empty
    <2>2. ~(lg.scaleX <= 0) /\ ~(lg.scaleY <= 0)
        <3>1. \A a \in Nat \ {0} : a * k > 0 /\ a * k \in Int
            <4>1. TAKE a \in Nat \ {0}
            <4>2. 0 * k < a * k
                BY <1>2, Products
            <4>. QED BY <1>2, <4>2
        <3>. QED BY <1>3, <1>5, <3>1
    <2>. QED BY <1>7, <2>1, <2>2
<1>15. CeilDiv(full.w, k) \in Int /\ CeilDiv(full.h, k) \in Int
    <2>1. full.w \in Int /\ full.h \in Int
        BY <1>4, <1>9
    <2>. QED BY <1>2, <2>1, CeilIs
<1>16. ASSUME ~FitsLevel(f, i, maxPx, full.w, full.h) PROVE area.w > maxPx \/ area.h > maxPx
    <2>1. CeilDiv(full.w, k) > maxPx \/ CeilDiv(full.h, k) > maxPx
        BY <1>8, <1>15, <1>16
    <2>. QED BY <1>4, <1>10, <1>11, <1>14, <2>1
<1>17. ASSUME FitsLevel(f, i, maxPx, full.w, full.h)
       PROVE  /\ full.x0 % k = 0 => area.w <= maxPx
              /\ full.y0 % k = 0 => area.h <= maxPx
    BY <1>4, <1>8, <1>12, <1>13, <1>14, <1>17
<1>. QED BY <1>16, <1>17 DEF k, SizeTells

-----------------------------------------------------------------------------
(* The levels of an opened file.                                           *)

\* A directory that Open has accepted: its sizes are positive numbers.
Picture(d) ==
    /\ Accepts(d)
    /\ d.width \in Nat \ {0} /\ d.height \in Nat \ {0}
    /\ TileWidth(d) \in Nat \ {0} /\ TileHeight(d) \in Nat \ {0}
    /\ d.spp \in Nat \ {0}
    /\ d.factor \in Int /\ d.salt \in Int
    /\ d.grid \in Grids

Directories == UNION {{f.dirs[o] : o \in DOMAIN f.dirs} : f \in Files}

\* A file that Open has returned.
Whole(f) ==
    /\ f.levels \in Seq(Directories) /\ f.levels # <<>>
    /\ \A i \in DOMAIN f.levels : Picture(f.levels[i])
    /\ f.grid \in Grids

LEMMA AcceptedPicture ==
    ASSUME NEW f \in Files, NEW o \in DOMAIN f.dirs, Accepts(f.dirs[o])
    PROVE  Picture(f.dirs[o])
<1>. DEFINE d == f.dirs[o]
<1>1. /\ d.width \in Int /\ d.height \in Int /\ d.tw \in Int /\ d.th \in Int
      /\ d.factor \in Int /\ d.salt \in Int /\ d.grid \in Grids
    BY PicturesAssumption
<1>2. /\ d.width > 0 /\ d.height > 0 /\ d.spp \in {1, 3, 4}
      /\ TileWidth(d) \in 1 .. 2^14 /\ TileHeight(d) \in 1 .. 2^14
    BY DEF Accepts, Readable
<1>3. TileWidth(d) \in Nat \ {0} /\ TileHeight(d) \in Nat \ {0}
    BY <1>2
<1>. QED BY <1>1, <1>2, <1>3 DEF Picture

\* Directory j comes before directory i, or is i.
Ahead(j, i) ==
    \/ file.dirs[ifds[j]].width > file.dirs[ifds[i]].width
    \/ file.dirs[ifds[j]].width = file.dirs[ifds[i]].width /\ j <= i

LEMMA RankOrders ==
    ASSUME HeaderInv
    PROVE  /\ DOMAIN ifds = 1 .. Len(ifds) /\ Len(ifds) \in Nat
           /\ \A i \in DOMAIN ifds : Rank(i) \in DOMAIN ifds
           /\ \A i, j \in DOMAIN ifds : i # j =>
                (Rank(j) < Rank(i) <=> Ahead(j, i)) /\ Rank(i) # Rank(j)
<1>. DEFINE n == Len(ifds)
            W(i) == file.dirs[ifds[i]].width
            S(i) == {j \in 1 .. n : Ahead(j, i)}
<1>1. n \in Nat /\ DOMAIN ifds = 1 .. n /\ \A i \in 1 .. n : ifds[i] \in DOMAIN file.dirs /\ file \in Files
    BY DEF HeaderInv, TypeInv
<1>2. \A i \in 1 .. n : W(i) \in Int
    BY <1>1, PicturesAssumption
<1>3. \A i \in 1 .. n : Rank(i) = Cardinality(S(i))
    BY <1>1 DEF Rank, Ahead
<1>4. IsFiniteSet(1 .. n) /\ Cardinality(1 .. n) = n
    BY <1>1, FS_Interval
<1>5. ASSUME NEW i \in 1 .. n
      PROVE  IsFiniteSet(S(i)) /\ Cardinality(S(i)) \in 1 .. n
    <2>1. S(i) \subseteq 1 .. n
        OBVIOUS
    <2>2. IsFiniteSet(S(i)) /\ Cardinality(S(i)) \in Nat /\ Cardinality(S(i)) <= n
        BY <1>4, <2>1, FS_Subset, FS_CardinalityType
    <2>3. i \in S(i)
        BY <1>2 DEF Ahead
    <2>4. Cardinality(S(i)) # 0
        BY <2>2, <2>3, FS_EmptySet
    <2>. QED BY <1>1, <2>2, <2>4
<1>6. ASSUME NEW i \in 1 .. n, NEW j \in 1 .. n, i # j, Ahead(j, i)
      PROVE  Cardinality(S(j)) < Cardinality(S(i))
    <2>1. S(j) \subseteq S(i)
        BY <1>2, <1>6 DEF Ahead
    <2>2. i \in S(i) /\ i \notin S(j)
        BY <1>2, <1>6 DEF Ahead
    <2>. HIDE DEF S
    <2>3. Cardinality(S(j)) <= Cardinality(S(i)) /\ (Cardinality(S(j)) = Cardinality(S(i)) => S(j) = S(i))
        BY <1>5, <2>1, FS_Subset
    <2>. QED BY <1>5, <2>2, <2>3
<1>7. \A i, j \in 1 .. n : i # j => Ahead(j, i) \/ Ahead(i, j)
    BY <1>2 DEF Ahead
<1>. HIDE DEF S, W
<1>8. \A i, j \in 1 .. n : i # j =>
        (Rank(j) < Rank(i) <=> Ahead(j, i)) /\ Rank(i) # Rank(j)
    <2>1. SUFFICES ASSUME NEW i \in 1 .. n, NEW j \in 1 .. n, i # j
                   PROVE  (Rank(j) < Rank(i) <=> Ahead(j, i)) /\ Rank(i) # Rank(j)
        OBVIOUS
    <2>2. Rank(i) \in Nat /\ Rank(j) \in Nat
        BY <1>1, <1>3, <1>5
    <2>3. CASE Ahead(j, i)
        BY <1>3, <1>6, <2>1, <2>2, <2>3
    <2>4. CASE ~Ahead(j, i)
        <3>1. Ahead(i, j)
            BY <1>7, <2>1, <2>4
        <3>2. Rank(i) < Rank(j)
            BY <1>3, <1>6, <2>1, <3>1
        <3>. QED BY <2>2, <2>4, <3>2
    <2>. QED BY <2>3, <2>4
<1>. QED BY <1>1, <1>3, <1>5, <1>8

\* Sorting loses no directory and invents none: the levels are the directories
\* in the order of their widths, and each of them is a sound picture.
LEMMA LevelsRanked ==
    ASSUME HeaderInv, ifds # <<>>
    PROVE  /\ \A r \in DOMAIN ifds : \E i \in DOMAIN ifds :
                Rank(i) = r /\ Opened.levels[r] = file.dirs[ifds[i]]
           /\ DOMAIN Opened.levels = DOMAIN ifds
<1>. DEFINE n == Len(ifds)
            f == [i \in 1 .. n |-> Rank(i)]
<1>1. /\ n \in Nat /\ DOMAIN ifds = 1 .. n /\ \A i \in 1 .. n : Rank(i) \in 1 .. n
      /\ \A i, j \in 1 .. n : i # j => Rank(i) # Rank(j)
    BY RankOrders
<1>2. IsFiniteSet(1 .. n) /\ Cardinality(1 .. n) = n
    BY <1>1, FS_Interval
<1>3. ASSUME NEW r \in 1 .. n, ~\E i \in 1 .. n : Rank(i) = r PROVE FALSE
    <2>1. f \in [1 .. n -> (1 .. n) \ {r}]
        BY <1>1, <1>3
    <2>2. IsFiniteSet((1 .. n) \ {r}) /\ Cardinality((1 .. n) \ {r}) = n - 1
        BY <1>2, FS_RemoveElement
    <2>3. \E i, j \in 1 .. n : i # j /\ f[i] = f[j]
        <3>. DEFINE T == (1 .. n) \ {r}
                    S == 1 .. n
        <3>1. IsFiniteSet(S) /\ IsFiniteSet(T) /\ Cardinality(T) < Cardinality(S) /\ f \in [S -> T]
            BY <1>1, <1>2, <2>1, <2>2
        <3>2. \E i, j \in S : i # j /\ f[i] = f[j]
            <4>. HIDE DEF f, S, T
            <4>. QED BY <3>1, FS_PigeonHole
        <3>. QED BY <3>2
    <2>. QED BY <1>1, <2>3
<1>4. ASSUME NEW r \in 1 .. n PROVE \E i \in 1 .. n : Rank(i) = r
    BY <1>3
<1>5. ASSUME NEW r \in 1 .. n
      PROVE  \E i \in 1 .. n : Rank(i) = r /\ Opened.levels[r] = file.dirs[ifds[i]]
    <2>. DEFINE i == CHOOSE i \in DOMAIN ifds : Rank(i) = r
    <2>1. i \in 1 .. n /\ Rank(i) = r
        BY <1>1, <1>4
    <2>2. Opened.levels[r] = file.dirs[ifds[i]]
        BY <1>1 DEF Opened
    <2>. QED BY <2>1, <2>2
<1>6. DOMAIN Opened.levels = DOMAIN ifds
    BY DEF Opened
<1>. QED BY <1>1, <1>5, <1>6

LEMMA OpenedWhole ==
    ASSUME HeaderInv, stage = "opened"
    PROVE  Whole(Opened)
<1>1. ifds # <<>> /\ \A i \in DOMAIN ifds : Accepts(file.dirs[ifds[i]])
    BY DEF HeaderInv, ChainInv, Taken
<1>2. /\ file \in Files /\ Len(ifds) \in Nat \ {0} /\ DOMAIN ifds = 1 .. Len(ifds)
      /\ \A i \in DOMAIN ifds : ifds[i] \in DOMAIN file.dirs
    BY <1>1 DEF HeaderInv, TypeInv
<1>3. \A i \in DOMAIN ifds : Picture(file.dirs[ifds[i]]) /\ file.dirs[ifds[i]] \in Directories
    BY <1>1, <1>2, AcceptedPicture DEF Directories
<1>4. ASSUME NEW r \in DOMAIN Opened.levels
      PROVE  Picture(Opened.levels[r]) /\ Opened.levels[r] \in Directories
    BY <1>1, <1>3, LevelsRanked
<1>5. Opened.levels \in Seq(Directories) /\ Opened.levels # <<>>
    <2>1. Opened.levels = [r \in 1 .. Len(ifds) |-> Opened.levels[r]]
        BY <1>2 DEF Opened
    <2>2. Opened.levels \in [1 .. Len(ifds) -> Directories]
        BY <1>2, <1>4, <2>1
    <2>. QED BY <1>2, <2>2
<1>6. Opened.grid \in Grids
    <2>1. Opened.grid = file.dirs[ifds[1]].grid
        BY DEF Opened
    <2>. QED BY <1>2, <1>3, <2>1 DEF Picture
<1>. QED BY <1>4, <1>5, <1>6 DEF Whole

-----------------------------------------------------------------------------
(* The predictor and the contents of a tile.                               *)

\* The quotient and the remainder of an index.
LEMMA IndexParts ==
    ASSUME NEW n \in Nat \ {0}, NEW q \in Int, NEW r \in 0 .. n - 1
    PROVE  /\ q * n + r \in Int
           /\ (q * n + r) \div n = q /\ (q * n + r) % n = r
<1>. DEFINE i == q * n + r
            d == i \div n
            e == i % n
<1>1. q * n \in Int /\ i \in Int
    OBVIOUS
<1>2. d \in Int /\ e \in 0 .. n - 1 /\ i = n * d + e
    BY <1>1
<1>3. n * d = d * n /\ d * n \in Int
    BY <1>2
<1>. HIDE DEF d, e
<1>4. ASSUME d < q PROVE FALSE
    <2>1. d * n + n <= q * n
        BY <1>2, <1>4, Products
    <2>. QED BY <1>1, <1>2, <1>3, <2>1
<1>5. ASSUME q < d PROVE FALSE
    <2>1. q * n + n <= d * n
        BY <1>2, <1>5, Products
    <2>. QED BY <1>1, <1>2, <1>3, <2>1
<1>6. d = q
    BY <1>2, <1>4, <1>5
<1>7. e = r
    BY <1>1, <1>2, <1>3, <1>6
<1>. QED BY <1>1, <1>6, <1>7 DEF d, e

\* A difference modulo m, and the sum that undoes it.
LEMMA Undo ==
    ASSUME NEW m \in Nat \ {0}, NEW a \in 0 .. m - 1, NEW b \in 0 .. m - 1
    PROVE  (((a - b) % m) + b) % m = a
<1>1. a % m = a
    <2>1. (0 * m + a) % m = a /\ 0 * m + a = a
        BY IndexParts
    <2>. QED BY <2>1
<1>2. CASE b <= a
    <2>1. (0 * m + (a - b)) % m = a - b /\ 0 * m + (a - b) = a - b
        BY <1>2, IndexParts
    <2>2. (a - b) + b = a
        OBVIOUS
    <2>. QED BY <1>1, <2>1, <2>2
<1>3. CASE a < b
    <2>1. ((-1) * m + (a - b + m)) % m = a - b + m /\ (-1) * m + (a - b + m) = a - b
        BY <1>3, IndexParts
    <2>2. (1 * m + a) % m = a /\ 1 * m + a = (a - b + m) + b
        BY IndexParts
    <2>. QED BY <2>1, <2>2
<1>. QED BY <1>2, <1>3

LEMMA LeastNumber ==
    ASSUME NEW S, S \subseteq Nat, S # {}
    PROVE  \E x \in S : \A y \in S : x <= y
<1>. DEFINE R == OpToRel(<, Nat)
<1>1. IsWellFoundedOn(R, Nat)
    BY NatLessThanWellFounded
<1>2. \A x, y \in Nat : y < x => <<y, x>> \in R
    BY DEF OpToRel
<1>. HIDE DEF R
<1>3. PICK x \in S : \A y \in S : ~(<<y, x>> \in R)
    BY <1>1, WFMin
<1>4. \A y \in S : x \in Nat /\ y \in Nat /\ ~(y < x)
    BY <1>2, <1>3
<1>5. \A y \in S : x <= y
    BY <1>4
<1>. QED BY <1>5

\* A position that is not in the first pixel of a row has one a pixel before it.
LEMMA PixelBefore ==
    ASSUME NEW p \in Nat, NEW row \in Nat \ {0}, NEW spp \in Nat, ~(p % row < spp)
    PROVE  p - spp \in Nat
<1>1. p % row <= p /\ p % row \in Nat
    <2>1. p % row \in Nat /\ p % row < row
        OBVIOUS
    <2>2. p \div row \in Nat /\ (p \div row) * row \in Nat
        BY TileOf
    <2>3. p % row = p - row * (p \div row) /\ row * (p \div row) = (p \div row) * row
        BY <2>2
    <2>. QED BY <2>1, <2>2, <2>3
<1>. QED BY <1>1

\* Sums modulo the width of a sample undo the differences: what cog reads with
\* predictor 2 is what tiffw took.
THEOREM PredictorUndone ==
    ASSUME NEW bits \in {8, 16}, NEW n \in Nat, NEW row \in Nat \ {0}, NEW spp \in Nat \ {0},
           NEW data \in [0 .. n - 1 -> 0 .. 2^bits - 1]
    PROVE  UndoPredictor(ApplyPredictor(data, row, spp, bits), row, spp, bits) = data
<1>. DEFINE m == 2^bits
            diff == ApplyPredictor(data, row, spp, bits)
            D == 0 .. n - 1
            Sums(s) == s = [p \in D |-> IF p % row < spp THEN diff[p] ELSE (diff[p] + s[p - spp]) % m]
<1>1. m \in Nat \ {0}
    <2>1. CASE bits = 8
        <3>1. m = 2^8 /\ 2^8 = 256
            BY <2>1
        <3>. QED BY <3>1
    <2>2. CASE bits = 16
        <3>1. 2^16 = 65536
            OBVIOUS
        <3>2. m = 2^16
            BY <2>2
        <3>. QED BY <3>1, <3>2
    <2>. QED BY <2>1, <2>2
<1>2. DOMAIN diff = D /\ \A p \in D :
        diff[p] = IF p % row < spp THEN data[p] ELSE (data[p] - data[p - spp]) % m
    BY DEF ApplyPredictor
<1>3. \A p \in D : p \in Nat /\ (~(p % row < spp) => p - spp \in D /\ p - spp < p)
    BY PixelBefore
<1>4. Sums(data)
    <2>1. ASSUME NEW p \in D, ~(p % row < spp)
          PROVE  data[p] = (diff[p] + data[p - spp]) % m
        <3>1. diff[p] = (data[p] - data[p - spp]) % m
            BY <1>2, <2>1
        <3>2. data[p] \in 0 .. m - 1 /\ data[p - spp] \in 0 .. m - 1
            BY <1>3, <2>1
        <3>3. (((data[p] - data[p - spp]) % m) + data[p - spp]) % m = data[p]
            <4>. HIDE DEF m, diff, D
            <4>. QED BY <1>1, <3>2, Undo
        <3>. HIDE DEF m, diff, D
        <3>. QED BY <3>1, <3>3
    <2>2. \A p \in D : data[p] = IF p % row < spp THEN diff[p] ELSE (diff[p] + data[p - spp]) % m
        BY <1>2, <2>1
    <2>3. data = [p \in D |-> data[p]]
        OBVIOUS
    <2>. HIDE DEF m, diff, D
    <2>. QED BY <2>2, <2>3
<1>5. ASSUME NEW s, Sums(s) PROVE s = data
    <2>1. DOMAIN s = D /\ DOMAIN data = D /\ \A p \in D :
            /\ s[p] = IF p % row < spp THEN diff[p] ELSE (diff[p] + s[p - spp]) % m
            /\ data[p] = IF p % row < spp THEN diff[p] ELSE (diff[p] + data[p - spp]) % m
        <3>. HIDE DEF m, diff
        <3>1. DOMAIN s = D /\ \A p \in D :
                s[p] = IF p % row < spp THEN diff[p] ELSE (diff[p] + s[p - spp]) % m
            BY <1>5
        <3>2. DOMAIN data = D /\ \A p \in D :
                data[p] = IF p % row < spp THEN diff[p] ELSE (diff[p] + data[p - spp]) % m
            BY <1>4
        <3>. QED BY <3>1, <3>2
    <2>. HIDE DEF m, diff
    <2>. DEFINE Bad == {p \in D : s[p] # data[p]}
    <2>2. CASE Bad = {}
        <3>1. \A p \in D : s[p] = data[p]
            BY <2>2
        <3>2. s = [p \in D |-> s[p]] /\ data = [p \in D |-> data[p]]
            BY <1>5
        <3>. HIDE DEF D
        <3>. QED BY <3>1, <3>2
    <2>3. CASE Bad # {}
        <3>1. PICK p \in Bad : \A q \in Bad : p <= q
            <4>1. Bad \subseteq Nat
                OBVIOUS
            <4>. HIDE DEF Bad
            <4>. QED BY <2>3, <4>1, LeastNumber
        <3>2. p \in D /\ s[p] # data[p]
            OBVIOUS
        <3>3. ~(p % row < spp)
            BY <2>1, <3>2
        <3>4. p - spp \in D /\ p - spp < p /\ p - spp \in Nat /\ p \in Nat
            BY <1>3, <3>2, <3>3
        <3>5. s[p - spp] = data[p - spp]
            BY <3>1, <3>4
        <3>. QED BY <2>1, <3>2, <3>3, <3>5
    <2>. QED BY <2>2, <2>3
<1>6. UndoPredictor(diff, row, spp, bits) = CHOOSE s : Sums(s)
    <2>. HIDE DEF diff
    <2>. QED BY <1>2 DEF UndoPredictor
<1>. HIDE DEF Sums
<1>. QED BY <1>4, <1>5, <1>6

-----------------------------------------------------------------------------
(* What readTile makes of a tile.                                          *)

\* A tile has as many rows as it can hold, a last strip those that remain.
LEMMA RowsIn ==
    ASSUME NEW d, Picture(d), NEW ty \in Nat, ty * TileHeight(d) < d.height
    PROVE  /\ Rows(d, ty) \in 1 .. TileHeight(d)
           /\ \A y \in Nat : y < d.height /\ y < ty * TileHeight(d) + TileHeight(d)
                => y < ty * TileHeight(d) + Rows(d, ty)
<1>. DEFINE th == TileHeight(d)
            o == ty * th
<1>1. th \in Nat \ {0} /\ o \in Nat /\ d.height \in Nat
    BY DEF Picture
<1>2. Rows(d, ty) = th \/ Rows(d, ty) = Smaller(th, d.height - o)
    BY DEF Rows
<1>. HIDE DEF th, o
<1>3. Rows(d, ty) \in 1 .. th
    BY <1>1, <1>2 DEF Smaller, o, th
<1>4. \A y \in Nat : y < d.height /\ y < o + th => y < o + Rows(d, ty)
    BY <1>1, <1>2 DEF Smaller
<1>. QED BY <1>3, <1>4 DEF o, th

\* The pixel of the level that a position in a tile stands for, and its sample.
ColumnAt(d, tile, p) == tile[1] * TileWidth(d) + ((p \div d.spp) % TileWidth(d))

LineAt(d, tile, p) == tile[2] * TileHeight(d) + (p \div (d.spp * TileWidth(d)))

SampleAt(d, tile, p) ==
    IF ColumnAt(d, tile, p) < d.width /\ LineAt(d, tile, p) < d.height
    THEN LevelPixel(d, ColumnAt(d, tile, p), LineAt(d, tile, p), p % d.spp)
    ELSE 0

LEMMA ContentsAre ==
    ASSUME NEW d, NEW tile
    PROVE  Contents(d, tile) =
            [p \in 0 .. TileWidth(d) * Rows(d, tile[2]) * d.spp - 1 |-> SampleAt(d, tile, p)]
BY DEF Contents, ExtractTile, Positions, SampleAt, ColumnAt, LineAt

\* Place p of a tile's data is where extractTile puts a sample.
StandsFor(p, tile, tw, th, spp, x, y, b) ==
    /\ tile[1] * tw + ((p \div spp) % tw) = x
    /\ tile[2] * th + (p \div (spp * tw)) = y
    /\ p % spp = b

\* The place of a sample in its tile tells the sample.
LEMMA WithinParts ==
    ASSUME NEW tw \in Nat \ {0}, NEW th \in Nat \ {0}, NEW spp \in Nat \ {0}, NEW rows \in 1 .. th,
           NEW x \in Nat, NEW y \in Nat, NEW b \in 0 .. spp - 1,
           NEW tile, tile[1] = x \div tw, tile[2] = y \div th, y < tile[2] * th + rows
    PROVE  LET p == Within(tile, tw, th, spp, x, y, b)
           IN  /\ p \in 0 .. (rows * tw) * spp - 1
               /\ StandsFor(p, tile, tw, th, spp, x, y, b)
<1>. DEFINE p == Within(tile, tw, th, spp, x, y, b)
            c == x - tile[1] * tw
            r == y - tile[2] * th
            q == r * tw + c
<1>1. /\ tile[1] \in Nat /\ tile[1] * tw <= x /\ x < tile[1] * tw + tw
      /\ tile[2] \in Nat /\ tile[2] * th <= y
    <2>1. x \div tw \in Nat /\ (x \div tw) * tw <= x /\ x < (x \div tw) * tw + tw
        BY TileOf
    <2>2. y \div th \in Nat /\ (y \div th) * th <= y
        BY TileOf
    <2>. QED BY <2>1, <2>2
<1>2. tile[1] * tw \in Nat /\ tile[2] * th \in Nat
    BY <1>1
<1>3. c \in 0 .. tw - 1 /\ r \in 0 .. rows - 1
    BY <1>1, <1>2
<1>4. tile[1] * tw + c = x /\ tile[2] * th + r = y
    BY <1>1, <1>2
<1>5. p = q * spp + b
    BY DEF Within
<1>. HIDE DEF c, r, p
<1>6. q \in 0 .. rows * tw - 1
    BY <1>3, IndexIn
<1>7. p \in 0 .. (rows * tw) * spp - 1
    <2>1. rows * tw \in Nat
        OBVIOUS
    <2>. HIDE DEF q
    <2>. QED BY <1>5, <1>6, <2>1, IndexIn
<1>8. p \div spp = q /\ p % spp = b
    <2>1. q \in Int
        BY <1>6
    <2>. HIDE DEF q
    <2>. QED BY <1>5, <2>1, IndexParts
<1>9. q % tw = c
    <2>1. r \in Int
        BY <1>3
    <2>. QED BY <1>3, <2>1, IndexParts
<1>10. p \div (spp * tw) = r
    <2>. DEFINE row == tw * spp
                a == c * spp + b
    <2>1. a \in 0 .. row - 1
        BY <1>3, IndexIn
    <2>2. row \in Nat \ {0}
        <3>1. 0 * spp < tw * spp
            BY Products
        <3>. QED BY <3>1
    <2>3. p = r * row + a /\ spp * tw = row /\ r \in Int
        BY <1>3, <1>5
    <2>. HIDE DEF a, row
    <2>. QED BY <2>1, <2>2, <2>3, IndexParts
<1>11. StandsFor(p, tile, tw, th, spp, x, y, b)
    BY <1>4, <1>8, <1>9, <1>10 DEF StandsFor
<1>. QED BY <1>7, <1>11 DEF p

\* Where extractTile puts a sample is where readTile looks for it.
LEMMA SampleInTile ==
    ASSUME NEW d, Picture(d), NEW x \in Nat, NEW y \in Nat, NEW b \in 0 .. d.spp - 1,
           x < d.width, y < d.height
    PROVE  LET tile == <<x \div TileWidth(d), y \div TileHeight(d)>>
           IN  Contents(d, tile)[Within(tile, TileWidth(d), TileHeight(d), d.spp, x, y, b)]
                = LevelPixel(d, x, y, b)
<1>. DEFINE tw == TileWidth(d)
            th == TileHeight(d)
            spp == d.spp
            tile == <<x \div tw, y \div th>>
            rows == Rows(d, tile[2])
            p == Within(tile, tw, th, spp, x, y, b)
<1>1. /\ tw \in Nat \ {0} /\ th \in Nat \ {0} /\ spp \in Nat \ {0}
      /\ d.width \in Nat /\ d.height \in Nat
    BY DEF Picture
<1>2. rows \in 1 .. th /\ y < tile[2] * th + rows
    <2>1. tile[2] \in Nat /\ tile[2] * th <= y /\ y < tile[2] * th + th /\ tile[2] * th \in Nat
        BY <1>1, TileOf
    <2>. HIDE DEF tile
    <2>2. tile[2] * th < d.height
        BY <1>1, <2>1
    <2>. QED BY <2>1, <2>2, RowsIn DEF th
<1>. HIDE DEF tw, th, spp, rows
<1>3. p \in 0 .. (rows * tw) * spp - 1 /\ StandsFor(p, tile, tw, th, spp, x, y, b)
    <2>1. b \in 0 .. spp - 1
        BY DEF spp
    <2>2. tile[1] = x \div tw /\ tile[2] = y \div th
        OBVIOUS
    <2>. HIDE DEF tile
    <2>. QED BY <1>1, <1>2, <2>1, <2>2, WithinParts
<1>. HIDE DEF tile, p
<1>4. tw * rows * spp = (rows * tw) * spp
    BY <1>1, <1>2
<1>5. Contents(d, tile)[p] = SampleAt(d, tile, p)
    BY <1>3, <1>4, ContentsAre DEF tw, spp, rows
<1>6. ColumnAt(d, tile, p) = x /\ LineAt(d, tile, p) = y
    BY <1>3 DEF StandsFor, ColumnAt, LineAt, tw, th, spp
<1>7. Contents(d, tile)[p] = LevelPixel(d, x, y, b)
    <2>1. p % d.spp = b
        BY <1>3 DEF StandsFor, spp
    <2>. QED BY <1>5, <1>6, <2>1 DEF SampleAt
<1>. QED BY <1>7 DEF tile, p, tw, th, spp

\* The samples of a tile fit in their width.
LEMMA ContentsTypes ==
    ASSUME NEW d, Picture(d), d.bits \in {8, 16}, NEW tile \in Nat \X Nat
    PROVE  \A p \in DOMAIN Contents(d, tile) : Contents(d, tile)[p] \in 0 .. 2^d.bits - 1
<1>1. 2^d.bits \in Nat \ {0}
    <2>1. CASE d.bits = 8
        <3>1. 2^8 = 256
            OBVIOUS
        <3>. QED BY <2>1, <3>1
    <2>2. CASE d.bits = 16
        <3>1. 2^16 = 65536
            OBVIOUS
        <3>. QED BY <2>2, <3>1
    <2>. QED BY <2>1, <2>2
<1>2. \A n \in Int : n % 2^d.bits \in 0 .. 2^d.bits - 1
    BY <1>1
<1>3. \A x, y, b \in Int : LevelPixel(d, x, y, b) \in 0 .. 2^d.bits - 1
    <2>1. TAKE x, y, b \in Int
    <2>2. d.factor * x \in Int /\ d.factor * y \in Int /\ d.salt \in Int
        BY DEF Picture
    <2>3. 101 * (d.factor * x) + 57 * (d.factor * y) + 31 * b + d.salt \in Int
        BY <2>2
    <2>. QED BY <1>2, <2>3 DEF LevelPixel, Pixel
<1>4. /\ TileWidth(d) \in Nat \ {0} /\ TileHeight(d) \in Nat \ {0} /\ d.spp \in Nat \ {0}
      /\ tile[1] \in Nat /\ tile[2] \in Nat
    BY DEF Picture
<1>5. d.spp * TileWidth(d) \in Nat \ {0}
    <2>1. 0 * TileWidth(d) < d.spp * TileWidth(d)
        BY <1>4, Products
    <2>. QED BY <1>4, <2>1
<1>6. ASSUME NEW p \in Int
      PROVE  ColumnAt(d, tile, p) \in Int /\ LineAt(d, tile, p) \in Int /\ p % d.spp \in Int
    <2>1. p \div d.spp \in Int /\ p \div (d.spp * TileWidth(d)) \in Int /\ p % d.spp \in Int
        BY <1>4, <1>5
    <2>2. (p \div d.spp) % TileWidth(d) \in Int
        BY <1>4, <2>1
    <2>. QED BY <1>4, <2>1, <2>2 DEF ColumnAt, LineAt
<1>7. ASSUME NEW p \in DOMAIN Contents(d, tile)
      PROVE  Contents(d, tile)[p] \in 0 .. 2^d.bits - 1
    <2>. DEFINE n == TileWidth(d) * Rows(d, tile[2]) * d.spp - 1
                m == 2^d.bits
                x == ColumnAt(d, tile, p)
                y == LineAt(d, tile, p)
                b == p % d.spp
    <2>1. n \in Int
        <3>1. Rows(d, tile[2]) \in Int
            BY <1>4 DEF Rows, Smaller, Picture
        <3>. QED BY <1>4, <3>1
    <2>2. Contents(d, tile) = [q \in 0 .. n |-> SampleAt(d, tile, q)]
        BY ContentsAre
    <2>. HIDE DEF n
    <2>3. p \in Int /\ Contents(d, tile)[p] = SampleAt(d, tile, p)
        <3>1. p \in 0 .. n
            BY <2>2
        <3>. QED BY <2>1, <2>2, <3>1
    <2>4. x \in Int /\ y \in Int /\ b \in Int
        BY <1>6, <2>3
    <2>5. SampleAt(d, tile, p) = LevelPixel(d, x, y, b) \/ SampleAt(d, tile, p) = 0
        BY DEF SampleAt
    <2>. HIDE DEF x, y, b
    <2>6. LevelPixel(d, x, y, b) \in 0 .. m - 1
        BY <1>3, <2>4
    <2>7. 0 \in 0 .. m - 1
        BY <1>1
    <2>. QED BY <2>3, <2>5, <2>6, <2>7
<1>. QED BY <1>7

\* readTile gives the samples back, and zeros for a tile that takes no bytes.
LEMMA DecodedIs ==
    ASSUME NEW d, Picture(d), NEW tile \in Nat \X Nat, tile[2] * TileHeight(d) < d.height
    PROVE  LET samples == Contents(d, tile)
               data == Decoded(d, tile, Stored(d, samples))
           IN  /\ DOMAIN data = DOMAIN samples
               /\ DOMAIN samples = 0 .. (Rows(d, tile[2]) * TileWidth(d)) * d.spp - 1
               /\ \A p \in DOMAIN data :
                    data[p] = IF Index(d, tile) \in d.sparse THEN 0 ELSE samples[p]
<1>. DEFINE samples == Contents(d, tile)
            stored == Stored(d, samples)
            data == Decoded(d, tile, stored)
            n == (Rows(d, tile[2]) * TileWidth(d)) * d.spp
<1>1. /\ TileWidth(d) \in Nat \ {0} /\ d.spp \in Nat \ {0} /\ Rows(d, tile[2]) \in Nat
      /\ tile[1] \in Nat /\ tile[2] \in Nat
    <2>1. tile[2] \in Nat /\ tile[1] \in Nat
        OBVIOUS
    <2>2. Rows(d, tile[2]) \in 1 .. TileHeight(d) /\ TileHeight(d) \in Nat
        BY <2>1, RowsIn DEF Picture
    <2>. QED BY <2>1, <2>2 DEF Picture
<1>2. n \in Nat /\ DOMAIN samples = 0 .. n - 1 /\ samples = [p \in DOMAIN samples |-> samples[p]]
    <2>1. n \in Nat /\ TileWidth(d) * Rows(d, tile[2]) * d.spp = n
        BY <1>1
    <2>. QED BY <2>1, ContentsAre
<1>3. CASE Index(d, tile) \in d.sparse
    <2>1. DOMAIN stored = DOMAIN samples
        BY <1>2 DEF Stored, ApplyPredictor
    <2>2. data = [p \in DOMAIN stored |-> 0]
        BY <1>3 DEF Decoded
    <2>. HIDE DEF samples, stored, data, n
    <2>3. DOMAIN data = DOMAIN samples /\ \A p \in DOMAIN data : data[p] = 0
        BY <2>1, <2>2
    <2>. QED BY <1>2, <1>3, <2>3 DEF samples, stored, data, n
<1>4. CASE Index(d, tile) \notin d.sparse
    <2>1. data = samples
        <3>1. CASE d.predictor = 2
            <4>1. d.bits \in {8, 16}
                BY <3>1 DEF Picture, Accepts, Readable
            <4>2. samples \in [0 .. n - 1 -> 0 .. 2^d.bits - 1]
                <5>1. \A p \in DOMAIN samples : samples[p] \in 0 .. 2^d.bits - 1
                    BY <4>1, ContentsTypes
                <5>. HIDE DEF samples, n
                <5>. QED BY <1>2, <5>1
            <4>. DEFINE row == TileWidth(d) * d.spp
            <4>3. row \in Nat \ {0}
                <5>1. 0 * d.spp < TileWidth(d) * d.spp
                    BY <1>1, Products
                <5>. QED BY <1>1, <5>1
            <4>4. data = UndoPredictor(ApplyPredictor(samples, row, d.spp, d.bits), row, d.spp, d.bits)
                BY <1>4, <3>1 DEF Decoded, Stored
            <4>. DEFINE bits == d.bits
                        spp == d.spp
            <4>5. spp \in Nat \ {0} /\ bits \in {8, 16} /\ n \in Nat
                BY <1>1, <1>2, <4>1
            <4>. HIDE DEF samples, data, n, row, bits, spp
            <4>6. samples \in [0 .. n - 1 -> 0 .. 2^bits - 1]
                BY <4>2 DEF bits
            <4>7. UndoPredictor(ApplyPredictor(samples, row, spp, bits), row, spp, bits) = samples
                BY <4>3, <4>5, <4>6, PredictorUndone
            <4>. QED BY <4>4, <4>7 DEF bits, spp
        <3>2. CASE d.predictor # 2
            BY <1>4, <3>2 DEF Decoded, Stored
        <3>. QED BY <3>1, <3>2
    <2>. HIDE DEF samples, data, n
    <2>. QED BY <1>2, <1>4, <2>1 DEF samples, data, n
<1>. QED BY <1>3, <1>4

-----------------------------------------------------------------------------
(* The level and its window.                                               *)

\* PickLevel finds a level: the finest that fits, or the last.
LEMMA LevelPicked ==
    ASSUME NEW f, Whole(f), NEW maxPx \in Int, NEW w, NEW h,
           NEW i, i = PickLevel(f, maxPx, w, h)
    PROVE  /\ i \in DOMAIN f.levels
           /\ maxPx > 0 => FitsLevel(f, i, maxPx, w, h) \/ i = Len(f.levels)
           /\ \A j \in 1 .. i - 1 : ~FitsLevel(f, j, maxPx, w, h)
<1>. DEFINE n == Len(f.levels)
            Fine(j) == FitsLevel(f, j, maxPx, w, h)
            S == {j \in 1 .. n : Fine(j) \/ j = n}
<1>1. n \in Nat \ {0} /\ DOMAIN f.levels = 1 .. n
    BY DEF Whole
<1>2. CASE maxPx <= 0
    <2>1. i = 1
        BY <1>2 DEF PickLevel
    <2>. QED BY <1>1, <1>2, <2>1
<1>3. CASE ~(maxPx <= 0)
    <2>1. i = CHOOSE j \in 1 .. n : (Fine(j) \/ j = n) /\ \A k \in 1 .. j - 1 : ~Fine(k)
        BY <1>1, <1>3 DEF PickLevel
    <2>. HIDE DEF n, Fine
    <2>2. \E j \in 1 .. n : (Fine(j) \/ j = n) /\ \A k \in 1 .. j - 1 : ~Fine(k)
        <3>1. S \subseteq Nat /\ n \in S
            BY <1>1
        <3>2. PICK j \in S : \A k \in S : j <= k
            <4>. HIDE DEF S
            <4>. QED BY <3>1, LeastNumber
        <3>3. \A k \in 1 .. j - 1 : ~Fine(k)
            BY <1>1, <3>2
        <3>. QED BY <3>2, <3>3
    <2>3. i \in 1 .. n /\ (Fine(i) \/ i = n) /\ \A k \in 1 .. i - 1 : ~Fine(k)
        BY <2>1, <2>2
    <2>. QED BY <1>1, <2>3 DEF n, Fine
<1>. QED BY <1>2, <1>3

\* The grid of a level has larger pixels, by a whole factor.
LEMMA LevelPlaced ==
    ASSUME NEW f, Whole(f), NEW i \in DOMAIN f.levels
    PROVE  /\ Decimation(f, i) \in Nat \ {0}
           /\ LevelGrid(f, i) = [originX |-> f.grid.originX, originY |-> f.grid.originY,
                                 scaleX |-> f.grid.scaleX * Decimation(f, i),
                                 scaleY |-> f.grid.scaleY * Decimation(f, i)]
           /\ LevelGrid(f, i) \in Grids
<1>. DEFINE full == f.levels[1].width
            this == f.levels[i].width
            k == Decimation(f, i)
<1>1. f.levels # <<>> /\ full \in Nat \ {0} /\ this \in Nat \ {0} /\ f.grid \in Grids
    BY DEF Whole, Picture
<1>2. k \in Nat \ {0}
    <2>1. k = Larger((2 * full + this) \div (2 * this), 1)
        BY DEF Decimation, Reduction
    <2>. HIDE DEF full, this, k
    <2>2. (2 * full + this) \div (2 * this) \in Int
        BY <1>1
    <2>. QED BY <2>1, <2>2 DEF Larger
<1>. HIDE DEF k
<1>3. LevelGrid(f, i) = [originX |-> f.grid.originX, originY |-> f.grid.originY,
                         scaleX |-> f.grid.scaleX * k, scaleY |-> f.grid.scaleY * k]
    <2>. DEFINE g == f.grid
    <2>1. LevelGrid(f, i) = [g EXCEPT !.scaleX = @ * k, !.scaleY = @ * k]
        BY DEF LevelGrid, k
    <2>2. g \in Grids
        BY <1>1
    <2>. HIDE DEF g
    <2>3. LevelGrid(f, i) = [originX |-> g.originX, originY |-> g.originY,
                             scaleX |-> g.scaleX * k, scaleY |-> g.scaleY * k]
        BY <2>1, <2>2 DEF Grids
    <2>. QED BY <2>3 DEF g
<1>4. f.grid.scaleX * k \in Int /\ f.grid.scaleY * k \in Int
    BY <1>1, <1>2 DEF Grids
<1>. QED BY <1>1, <1>2, <1>3, <1>4 DEF Grids, k

\* A window within the pixels of a directory.
Inside(w, d) ==
    /\ w \in Windows
    /\ w.x0 \in Nat /\ w.x0 + w.w <= d.width
    /\ w.y0 \in Nat /\ w.y0 + w.h <= d.height

LEMMA WindowInside ==
    ASSUME NEW d, Picture(d), NEW g \in Grids, NEW box \in Boxes,
           NEW w, w = Window(g, d.width, d.height, box), w.ok
    PROVE  Inside(w, d) /\ InRaster(w, d)
<1>1. d.width \in Nat /\ d.height \in Nat
    BY DEF Picture
<1>2. /\ w.x0 \in Nat /\ w.w \in Nat \ {0} /\ w.x0 + w.w <= d.width
      /\ w.y0 \in Nat /\ w.h \in Nat \ {0} /\ w.y0 + w.h <= d.height
    BY <1>1, WindowIsBox
<1>3. w = [ok |-> TRUE, x0 |-> w.x0, y0 |-> w.y0, w |-> w.w, h |-> w.h]
    BY DEF Window, NoWindow
<1>4. w \in Windows
    <2>. DEFINE x0 == w.x0
                y0 == w.y0
                cols == w.w
                rows == w.h
    <2>1. /\ x0 \in Nat /\ y0 \in Nat /\ cols \in Nat \ {0} /\ rows \in Nat \ {0}
          /\ w = [ok |-> TRUE, x0 |-> x0, y0 |-> y0, w |-> cols, h |-> rows]
        BY <1>2, <1>3
    <2>. HIDE DEF x0, y0, cols, rows
    <2>. QED BY <2>1 DEF Windows
<1>. QED BY <1>1, <1>2, <1>4 DEF Inside, InRaster

\* The window of a level lies in the level.
LEMMA LevelInside ==
    ASSUME NEW f, Whole(f), NEW i \in DOMAIN f.levels, NEW box \in Boxes,
           NEW w, w = LevelWindow(f, i, box), w.ok
    PROVE  Picture(f.levels[i]) /\ Inside(w, f.levels[i]) /\ InRaster(w, f.levels[i])
BY LevelPlaced, WindowInside DEF Whole, LevelWindow
-----------------------------------------------------------------------------
(* A tile is copied into the raster.                                       *)

\* What readTile makes of a sample of the level: zero in an absent tile.
StoredAt(d, x, y, b) ==
    IF Index(d, <<x \div TileWidth(d), y \div TileHeight(d)>>) \in d.sparse THEN 0
    ELSE LevelPixel(d, x, y, b)

\* The raster of a window holds the samples of the tiles that are done.
Filled(d, w, r, todoT) ==
    /\ todoT \subseteq CoveringTiles(w, TileWidth(d), TileHeight(d))
    /\ DOMAIN r = 0 .. (w.h * w.w) * d.spp - 1
    /\ \A x \in Pixels(w), y \in Lines(w), b \in 0 .. d.spp - 1 :
        <<x \div TileWidth(d), y \div TileHeight(d)>> \notin todoT
            => r[PlaceOf(w, d.spp, x, y, b)] = StoredAt(d, x, y, b)

\* Blit writes the samples that are copied and leaves the others alone.
LEMMA BlitWrites ==
    ASSUME NEW copies, NEW data, NEW r, r = Blit(copies, data),
           NEW i \in DOMAIN raster
    PROVE  /\ DOMAIN r = DOMAIN raster
           /\ (\A c \in copies : c.dst # i) => r[i] = raster[i]
           /\ (\E c \in copies : c.dst = i) =>
                \E c \in copies : c.dst = i /\ r[i] = data[c.src]
<1>1. CASE \A c \in copies : c.dst # i
    BY <1>1 DEF Blit
<1>2. CASE \E c \in copies : c.dst = i
    <2>. DEFINE c == CHOOSE c \in copies : c.dst = i
    <2>1. c \in copies /\ c.dst = i
        BY <1>2
    <2>2. DOMAIN r = DOMAIN raster /\ r[i] = data[c.src]
        BY <1>2 DEF Blit
    <2>. QED BY <1>2, <2>1, <2>2
<1>. QED BY <1>1, <1>2

\* A tile of a range of pixels begins before the range ends.
LEMMA CoveringEnds ==
    ASSUME NEW first \in Nat, NEW n \in Nat \ {0}, NEW size \in Nat \ {0},
           NEW t \in Covering(first, n, size)
    PROVE  t \in Nat /\ t * size \in Nat /\ t * size < first + n
<1>. DEFINE last == first + n - 1
<1>1. last \in Nat /\ last < first + n
    OBVIOUS
<1>2. first \div size \in Nat /\ last \div size \in Nat /\ (last \div size) * size <= last
    BY <1>1, TileOf
<1>3. t \in Nat /\ t <= last \div size
    BY <1>1, <1>2 DEF Covering, TruncDiv
<1>4. t * size <= (last \div size) * size /\ t * size \in Nat
    BY <1>2, <1>3, Products
<1>5. (last \div size) * size \in Int
    BY <1>2
<1>. QED BY <1>1, <1>2, <1>3, <1>4, <1>5

\* The tiles of a window are tiles of the level, and each has its offset.
LEMMA TilesAreThere ==
    ASSUME NEW d, Picture(d), NEW w, Inside(w, d),
           NEW tile \in CoveringTiles(w, TileWidth(d), TileHeight(d))
    PROVE  /\ tile \in Nat \X Nat /\ tile[2] * TileHeight(d) < d.height
           /\ Index(d, tile) < d.offsets /\ Index(d, tile) < d.counts
<1>. DEFINE tw == TileWidth(d)
            th == TileHeight(d)
            across == CeilDiv(d.width, tw)
            down == CeilDiv(d.height, th)
<1>1. /\ tw \in Nat \ {0} /\ th \in Nat \ {0} /\ d.width \in Nat /\ d.height \in Nat
      /\ w.x0 \in Nat /\ w.y0 \in Nat /\ w.w \in Nat \ {0} /\ w.h \in Nat \ {0}
      /\ w.x0 + w.w <= d.width /\ w.y0 + w.h <= d.height
    BY DEF Picture, Inside, Windows
<1>. HIDE DEF tw, th
<1>2. /\ tile = <<tile[1], tile[2]>>
      /\ tile[1] \in Covering(w.x0, w.w, tw) /\ tile[2] \in Covering(w.y0, w.h, th)
    BY DEF CoveringTiles, tw, th
<1>3. tile[1] \in Nat /\ tile[1] * tw \in Nat /\ tile[1] * tw < d.width
    <2>. DEFINE x0 == w.x0
                cols == w.w
                tx == tile[1]
    <2>1. x0 \in Nat /\ cols \in Nat \ {0} /\ tx \in Covering(x0, cols, tw) /\ x0 + cols <= d.width
        BY <1>1, <1>2
    <2>. HIDE DEF x0, cols, tx
    <2>2. tx \in Nat /\ tx * tw \in Nat /\ tx * tw < x0 + cols
        BY <1>1, <2>1, CoveringEnds
    <2>. QED BY <1>1, <2>1, <2>2 DEF tx
<1>4. tile[2] \in Nat /\ tile[2] * th \in Nat /\ tile[2] * th < d.height
    <2>. DEFINE y0 == w.y0
                lines == w.h
                ty == tile[2]
    <2>1. y0 \in Nat /\ lines \in Nat \ {0} /\ ty \in Covering(y0, lines, th) /\ y0 + lines <= d.height
        BY <1>1, <1>2
    <2>. HIDE DEF y0, lines, ty
    <2>2. ty \in Nat /\ ty * th \in Nat /\ ty * th < y0 + lines
        BY <1>1, <2>1, CoveringEnds
    <2>. QED BY <1>1, <2>1, <2>2 DEF ty
<1>6. across \in Int /\ tile[1] < across /\ down \in Int /\ tile[2] < down
    <2>. DEFINE tx == tile[1]
                ty == tile[2]
                width == d.width
                height == d.height
    <2>1. /\ tx \in Int /\ ty \in Int /\ width \in Int /\ height \in Int
          /\ tx * tw < width /\ ty * th < height
        BY <1>1, <1>3, <1>4
    <2>. HIDE DEF tx, ty, width, height
    <2>2. CeilDiv(width, tw) \in Int /\ tx < CeilDiv(width, tw)
        BY <1>1, <2>1, CeilAbove, CeilIs
    <2>3. CeilDiv(height, th) \in Int /\ ty < CeilDiv(height, th)
        BY <1>1, <2>1, CeilAbove, CeilIs
    <2>. QED BY <2>2, <2>3 DEF tx, ty, width, height
<1>. HIDE DEF across, down
<1>7. tile[2] * across + tile[1] \in 0 .. down * across - 1
    <2>1. /\ across \in Nat \ {0} /\ down \in Nat
          /\ tile[1] \in 0 .. across - 1 /\ tile[2] \in 0 .. down - 1
        BY <1>3, <1>4, <1>6
    <2>. QED BY <2>1, IndexIn
<1>8. Index(d, tile) < across * down
    <2>1. Index(d, tile) = tile[2] * across + tile[1]
        BY DEF Index, Across, across, tw
    <2>2. down * across = across * down /\ across * down \in Int
        BY <1>6
    <2>. QED BY <1>7, <2>1, <2>2
<1>9. d.offsets = across * down /\ d.counts = across * down
    BY DEF Picture, Accepts, Segments, Across, across, down, tw, th
<1>10. tile \in Nat \X Nat
    BY <1>2, <1>3, <1>4
<1>. QED BY <1>4, <1>8, <1>9, <1>10 DEF th

\* A raster begins with all its tiles to be copied.
LEMMA RasterStarts ==
    ASSUME NEW d, Picture(d), NEW w, Inside(w, d)
    PROVE  Filled(d, w, [i \in 0 .. w.w * w.h * d.spp - 1 |-> 0],
                  CoveringTiles(w, TileWidth(d), TileHeight(d)))
<1>. DEFINE tw == TileWidth(d)
            th == TileHeight(d)
<1>1. /\ tw \in Nat \ {0} /\ th \in Nat \ {0} /\ d.spp \in Nat
      /\ w.x0 \in Nat /\ w.y0 \in Nat /\ w.w \in Nat \ {0} /\ w.h \in Nat \ {0}
    BY DEF Picture, Inside, Windows
<1>2. w.w * w.h * d.spp = (w.h * w.w) * d.spp
    BY <1>1
<1>. HIDE DEF tw, th
<1>3. \A x \in Pixels(w), y \in Lines(w) : <<x \div tw, y \div th>> \in CoveringTiles(w, tw, th)
    BY <1>1, CoveringIsNeeded DEF Pixels, Lines, CoveringTiles
<1>. QED BY <1>2, <1>3 DEF Filled, tw, th

\* readTile copies its tile's samples where they belong, disturbs no others, and
\* indexes nothing beyond its end.
LEMMA TileIsRead ==
    ASSUME NEW d, Picture(d), NEW w, Inside(w, d), NEW todoT, Filled(d, w, raster, todoT),
           NEW tile \in todoT,
           NEW data, data = Decoded(d, tile, Stored(d, Contents(d, tile))),
           NEW copies, copies = Copies(w, tile, TileWidth(d), Rows(d, tile[2]), TileHeight(d), d.spp)
    PROVE  /\ Index(d, tile) < d.offsets /\ Index(d, tile) < d.counts
           /\ \A c \in copies : c.src \in DOMAIN data /\ c.dst \in DOMAIN raster
           /\ Filled(d, w, Blit(copies, data), todoT \ {tile})
<1>. DEFINE tw == TileWidth(d)
            th == TileHeight(d)
            rows == Rows(d, tile[2])
            spp == d.spp
            r == Blit(copies, data)
<1>1. /\ tile \in CoveringTiles(w, tw, th) /\ tile \in Nat \X Nat /\ tile[2] \in Nat
      /\ tile[2] * th < d.height
      /\ Index(d, tile) < d.offsets /\ Index(d, tile) < d.counts
    BY TilesAreThere DEF Filled
<1>2. /\ tw \in Nat \ {0} /\ th \in Nat \ {0} /\ spp \in Nat \ {0} /\ rows \in 1 .. th
      /\ \A y \in Nat : y < d.height /\ y < tile[2] * th + th => y < tile[2] * th + rows
    BY <1>1, RowsIn DEF Picture
<1>3. /\ DOMAIN data = 0 .. (rows * tw) * spp - 1
      /\ \A p \in DOMAIN data :
            data[p] = IF Index(d, tile) \in d.sparse THEN 0 ELSE Contents(d, tile)[p]
    BY <1>1, DecodedIs
<1>4. w \in Windows /\ DOMAIN raster = 0 .. (w.h * w.w) * spp - 1
    BY DEF Inside, Filled
<1>5. ASSUME NEW c \in copies PROVE c.src \in DOMAIN data /\ c.dst \in DOMAIN raster
    <2>1. rows \in 0 .. th /\ c \in Copies(w, tile, tw, rows, th, spp)
        BY <1>2
    <2>. HIDE DEF tw, th, rows, spp
    <2>. QED BY <1>1, <1>2, <1>3, <1>4, <2>1, CopiesInBounds
<1>6. ASSUME NEW x \in Pixels(w), NEW y \in Lines(w), NEW b \in 0 .. spp - 1,
             <<x \div tw, y \div th>> \notin todoT \ {tile}
      PROVE  r[PlaceOf(w, spp, x, y, b)] = StoredAt(d, x, y, b)
    <2>. DEFINE i == PlaceOf(w, spp, x, y, b)
                here == <<x \div tw, y \div th>>
                src == Within(here, tw, th, spp, x, y, b)
    <2>1. /\ x \in Nat /\ y \in Nat /\ x < d.width /\ y < d.height
        BY DEF Inside, Windows, Picture, Pixels, Lines
    <2>2. i \in DOMAIN raster
        BY <1>2, <1>4, PlaceIn
    <2>3. ASSUME NEW c \in copies, c.dst = i PROVE tile = here /\ c.src = src
        <3>1. /\ rows \in 0 .. th /\ c \in Copies(w, tile, tw, rows, th, spp)
              /\ tw \in Nat \ {0} /\ th \in Nat \ {0} /\ spp \in Nat \ {0}
              /\ tile \in Nat \X Nat /\ c.dst = PlaceOf(w, spp, x, y, b)
            BY <1>1, <1>2, <2>3
        <3>2. w \in Windows /\ b \in 0 .. spp - 1
            BY <1>4
        <3>. HIDE DEF tw, th, rows, spp
        <3>3. tile = <<x \div tw, y \div th>> /\ c.src = Within(tile, tw, th, spp, x, y, b)
            <4>. HIDE DEF i, here, src
            <4>. QED BY <3>1, <3>2, SampleIsCopiedOnce
        <3>. QED BY <3>3
    <2>4. CASE here = tile
        <3>1. y < (y \div th) * th + rows
            <4>1. tile[2] = y \div th
                BY <2>4
            <4>2. y < (y \div th) * th + th
                BY <1>2, <2>1, TileOf
            <4>. HIDE DEF th, rows
            <4>. QED BY <1>2, <2>1, <4>1, <4>2
        <3>2. [src |-> src, dst |-> i] \in copies
            <4>1. rows \in 0 .. th /\ copies = Copies(w, tile, tw, rows, th, spp)
                BY <1>2
            <4>2. [src |-> src, dst |-> i] \in Copies(w, here, tw, rows, th, spp)
                <5>. HIDE DEF tw, th, rows, spp
                <5>. QED BY <1>2, <1>4, <2>1, <3>1, <4>1, SampleIsCopied
            <4>. QED BY <2>4, <4>1, <4>2
        <3>. HIDE DEF i, src, r
        <3>3. \E c \in copies : c.dst = i
            BY <3>2
        <3>4. PICK c \in copies : c.dst = i /\ r[i] = data[c.src]
            BY <2>2, <3>3, BlitWrites DEF r
        <3>5. r[i] = data[src] /\ src \in DOMAIN data
            BY <1>5, <2>3, <3>4
        <3>6. Contents(d, here)[src] = LevelPixel(d, x, y, b)
            BY <2>1, SampleInTile DEF src
        <3>7. r[i] = IF Index(d, here) \in d.sparse THEN 0 ELSE LevelPixel(d, x, y, b)
            BY <1>3, <2>4, <3>5, <3>6
        <3>. QED BY <3>7 DEF StoredAt, i
    <2>5. CASE here # tile
        <3>1. here \notin todoT
            BY <1>6, <2>5
        <3>2. raster[i] = StoredAt(d, x, y, b)
            BY <3>1 DEF Filled
        <3>3. \A c \in copies : c.dst # i
            BY <2>3, <2>5
        <3>. HIDE DEF i
        <3>. QED BY <2>2, <3>2, <3>3, BlitWrites DEF i
    <2>. QED BY <2>4, <2>5
<1>7. DOMAIN r = DOMAIN raster
    BY DEF Blit
<1>8. todoT \ {tile} \subseteq CoveringTiles(w, tw, th)
    BY DEF Filled
<1>9. Filled(d, w, r, todoT \ {tile})
    <2>. HIDE DEF r
    <2>. QED BY <1>4, <1>6, <1>7, <1>8 DEF Filled
<1>. QED BY <1>1, <1>5, <1>9
-----------------------------------------------------------------------------
(* Mosaics.                                                                *)

\* A map has tiles at every zoom level that validate lets pass.
LEMMA PowerPositive ==
    ASSUME NEW z \in 0 .. 24
    PROVE  2^z \in Nat \ {0}
<1>1. /\ 2^0 \in Nat \ {0} /\ 2^1 \in Nat \ {0} /\ 2^2 \in Nat \ {0} /\ 2^3 \in Nat \ {0}
      /\ 2^4 \in Nat \ {0} /\ 2^5 \in Nat \ {0} /\ 2^6 \in Nat \ {0} /\ 2^7 \in Nat \ {0}
      /\ 2^8 \in Nat \ {0} /\ 2^9 \in Nat \ {0} /\ 2^10 \in Nat \ {0} /\ 2^11 \in Nat \ {0}
      /\ 2^12 \in Nat \ {0} /\ 2^13 \in Nat \ {0} /\ 2^14 \in Nat \ {0} /\ 2^15 \in Nat \ {0}
      /\ 2^16 \in Nat \ {0} /\ 2^17 \in Nat \ {0} /\ 2^18 \in Nat \ {0} /\ 2^19 \in Nat \ {0}
      /\ 2^20 \in Nat \ {0} /\ 2^21 \in Nat \ {0} /\ 2^22 \in Nat \ {0} /\ 2^23 \in Nat \ {0}
      /\ 2^24 \in Nat \ {0}
    OBVIOUS
<1>2. \/ z = 0 \/ z = 1 \/ z = 2 \/ z = 3 \/ z = 4 \/ z = 5 \/ z = 6 \/ z = 7 \/ z = 8
      \/ z = 9 \/ z = 10 \/ z = 11 \/ z = 12 \/ z = 13 \/ z = 14 \/ z = 15 \/ z = 16
      \/ z = 17 \/ z = 18 \/ z = 19 \/ z = 20 \/ z = 21 \/ z = 22 \/ z = 23 \/ z = 24
    OBVIOUS
<1>. QED BY <1>1, <1>2, Zenon

\* pickZoom finds a zoom level: one at which the box fits, or the first.
LEMMA ZoomPicked ==
    ASSUME NEW size, NEW world, NEW maxZoom \in Nat, NEW px, NEW nominal,
           NEW z, z = PickZoom(size, world, maxZoom, px, nominal)
    PROVE  z \in 0 .. maxZoom /\ (z = 0 \/ ZoomFits(size, world, z, px, nominal))
<1>. DEFINE Good(y) == ZoomFits(size, world, y, px, nominal)
            S == {maxZoom - y : y \in {y \in 0 .. maxZoom : y = 0 \/ Good(y)}}
<1>1. z = CHOOSE x \in 0 .. maxZoom : (x = 0 \/ Good(x)) /\ \A y \in x + 1 .. maxZoom : ~Good(y)
    BY DEF PickZoom
<1>. HIDE DEF Good
<1>2. S \subseteq Nat /\ maxZoom \in S
    OBVIOUS
<1>3. PICK s \in S : \A t \in S : s <= t
    <2>. HIDE DEF S
    <2>. QED BY <1>2, LeastNumber
<1>4. PICK x \in 0 .. maxZoom : s = maxZoom - x /\ (x = 0 \/ Good(x))
    BY <1>3
<1>5. \A y \in x + 1 .. maxZoom : ~Good(y)
    <2>1. SUFFICES ASSUME NEW y \in x + 1 .. maxZoom, Good(y) PROVE FALSE
        OBVIOUS
    <2>2. maxZoom - y \in S /\ maxZoom - y < s
        BY <1>4, <2>1
    <2>. HIDE DEF S
    <2>3. s <= maxZoom - y
        BY <1>3, <2>2
    <2>. QED BY <1>4, <2>2, <2>3
<1>6. \E v \in 0 .. maxZoom : (v = 0 \/ Good(v)) /\ \A y \in v + 1 .. maxZoom : ~Good(y)
    BY <1>4, <1>5
<1>. QED BY <1>1, <1>6 DEF Good

\* The side of a map has pixels.
LEMMA SidePositive ==
    ASSUME Zoom \in 0 .. 24, request.ts \in Nat \ {0}
    PROVE  Side \in Nat \ {0}
<1>. DEFINE n == 2^Zoom
            ts == request.ts
<1>1. n \in Nat \ {0}
    BY PowerPositive
<1>. HIDE DEF n, ts
<1>2. 0 * ts < n * ts
    BY <1>1, Products DEF ts
<1>3. n * ts \in Nat \ {0}
    BY <1>1, <1>2 DEF ts
<1>. QED BY <1>3 DEF Side, n, ts

\* A mosaic's window begins at or behind the left and the upper edge of the map.
LEMMA MosaicPlaced ==
    ASSUME NEW box \in Boxes, box.minX >= 0, box.minY > 0, NEW world \in Nat \ {0},
           NEW side \in Nat \ {0}, NEW w, w = MosaicWindow(box, world, side), w.ok
    PROVE  w \in Windows /\ w.x0 \in Nat /\ w.y0 \in Nat
<1>. DEFINE x0 == FloorDiv(box.minX * side, world)
            y0 == FloorDiv(box.minY * side, world)
            x1 == CeilDiv(box.maxX * side, world)
            y1 == CeilDiv(box.maxY * side, world)
<1>1. /\ box.minX \in Nat /\ box.maxX \in Int /\ box.minY \in Nat /\ box.maxY \in Int
    BY DEF Boxes
<1>2. /\ box.minX * side \in Nat /\ box.maxX * side \in Int
      /\ box.minY * side \in Nat /\ box.maxY * side \in Int
    BY <1>1
<1>3. x1 \in Int /\ y1 \in Int
    BY <1>2, CeilIs
<1>4. x0 \in Nat /\ y0 \in Nat
    <2>1. \A a \in Nat : FloorDiv(a, world) \in Nat
        BY TileOf DEF FloorDiv
    <2>. QED BY <1>2, <2>1
<1>5. w = [ok |-> TRUE, x0 |-> x0, y0 |-> y0, w |-> x1 - x0, h |-> y1 - y0] /\ x0 < x1 /\ y0 < y1
    <2>1. w = [ok |-> x0 < x1 /\ y0 < y1, x0 |-> x0, y0 |-> y0, w |-> x1 - x0, h |-> y1 - y0]
        BY DEF MosaicWindow
    <2>. HIDE DEF x0, x1, y0, y1
    <2>2. CASE x0 < x1 /\ y0 < y1
        <3>1. (x0 < x1 /\ y0 < y1) = TRUE
            BY <2>2
        <3>. QED BY <2>1, <2>2, <3>1
    <2>3. CASE ~(x0 < x1 /\ y0 < y1)
        <3>1. (x0 < x1 /\ y0 < y1) = FALSE
            BY <2>3
        <3>2. w = [ok |-> FALSE, x0 |-> x0, y0 |-> y0, w |-> x1 - x0, h |-> y1 - y0]
            BY <2>1, <3>1
        <3>3. w.ok = FALSE
            BY <3>2
        <3>. QED BY <3>3
    <2>. QED BY <2>2, <2>3
<1>. HIDE DEF x0, x1, y0, y1
<1>. QED BY <1>3, <1>4, <1>5 DEF Windows

\* What a mosaic holds while some of its tiles are not drawn.
MapAt(ts, none, x, y) ==
    IF <<x \div ts, y \div ts>> \in none THEN 0 ELSE Pixel(0, x, y, 0, 8)

Painted(w, ts, r, todoT, blankT) ==
    /\ todoT \subseteq CoveringTiles(w, ts, ts)
    /\ blankT \cap todoT = {}
    /\ DOMAIN r = 0 .. w.h * w.w - 1
    /\ \A x \in Pixels(w), y \in Lines(w) :
        r[PlaceOf(w, 1, x, y, 0)] = MapAt(ts, todoT \cup blankT, x, y)

LEMMA PlaceInMosaic ==
    ASSUME NEW w \in Windows, NEW x \in Pixels(w), NEW y \in Lines(w)
    PROVE  PlaceOf(w, 1, x, y, 0) \in 0 .. w.h * w.w - 1
<1>1. PlaceOf(w, 1, x, y, 0) \in 0 .. (w.h * w.w) * 1 - 1
    BY PlaceIn
<1>2. (w.h * w.w) * 1 = w.h * w.w
    BY DEF Windows
<1>. QED BY <1>1, <1>2

\* A mosaic begins black.
LEMMA MosaicStarts ==
    ASSUME NEW w \in Windows, w.x0 \in Nat, w.y0 \in Nat, NEW ts \in Nat \ {0}
    PROVE  Painted(w, ts, [i \in 0 .. w.w * w.h - 1 |-> 0], CoveringTiles(w, ts, ts), {})
<1>. DEFINE r == [i \in 0 .. w.w * w.h - 1 |-> 0]
<1>1. /\ w.x0 \in Int /\ w.w \in Nat \ {0} /\ w.h \in Nat \ {0}
      /\ w.w * w.h = w.h * w.w
    BY DEF Windows
<1>2. ASSUME NEW x \in Pixels(w), NEW y \in Lines(w)
      PROVE  r[PlaceOf(w, 1, x, y, 0)] = MapAt(ts, CoveringTiles(w, ts, ts), x, y)
    <2>1. r[PlaceOf(w, 1, x, y, 0)] = 0
        BY <1>1, PlaceInMosaic
    <2>2. x \in Nat /\ y \in Nat
        BY <1>1 DEF Pixels, Lines
    <2>3. x \div ts \in Covering(w.x0, w.w, ts)
        <3>. DEFINE first == w.x0
                    n == w.w
        <3>1. first \in Int /\ n \in Nat \ {0} /\ x \in first .. first + n - 1
            BY <1>1, <2>2 DEF Pixels
        <3>. HIDE DEF first, n
        <3>2. x \div ts \in Covering(first, n, ts)
            BY <2>2, <3>1, CoveringOnMap
        <3>. QED BY <3>2 DEF first, n
    <2>4. y \div ts \in Covering(w.y0, w.h, ts)
        <3>. DEFINE first == w.y0
                    n == w.h
        <3>1. first \in Int /\ n \in Nat \ {0} /\ y \in first .. first + n - 1
            BY <1>1, <2>2 DEF Lines
        <3>. HIDE DEF first, n
        <3>2. y \div ts \in Covering(first, n, ts)
            BY <2>2, <3>1, CoveringOnMap
        <3>. QED BY <3>2 DEF first, n
    <2>5. <<x \div ts, y \div ts>> \in CoveringTiles(w, ts, ts)
        BY <2>3, <2>4 DEF CoveringTiles
    <2>. QED BY <2>1, <2>5 DEF MapAt
<1>3. DOMAIN r = 0 .. w.h * w.w - 1
    BY <1>1
<1>. HIDE DEF r
<1>4. Painted(w, ts, r, CoveringTiles(w, ts, ts), {})
    BY <1>2, <1>3 DEF Painted
<1>. QED BY <1>4 DEF r

\* A tile the server has not stays black.
LEMMA TileIsBlank ==
    ASSUME NEW w, NEW ts, NEW r, NEW todoT, NEW blankT, Painted(w, ts, r, todoT, blankT),
           NEW tile \in todoT
    PROVE  Painted(w, ts, r, todoT \ {tile}, blankT \cup {tile})
<1>1. (todoT \ {tile}) \cup (blankT \cup {tile}) = todoT \cup blankT
    OBVIOUS
<1>2. (todoT \ {tile}) \subseteq todoT /\ (blankT \cup {tile}) \cap (todoT \ {tile}) = {}
    BY DEF Painted
<1>. QED BY <1>1, <1>2 DEF Painted

\* A map tile is drawn where it belongs, and nothing else is disturbed.
LEMMA TileIsDrawn ==
    ASSUME NEW w \in Windows, w.x0 \in Nat, w.y0 \in Nat, NEW ts \in Nat \ {0},
           NEW todoT, NEW blankT, Painted(w, ts, raster, todoT, blankT),
           NEW tile \in todoT, NEW data, data = MapTile(tile, ts),
           NEW copies, copies = Copies(w, tile, ts, ts, ts, 1)
    PROVE  Painted(w, ts, Blit(copies, data), todoT \ {tile}, blankT)
<1>. DEFINE r == Blit(copies, data)
            col(p) == tile[1] * ts + (p % ts)
            line(p) == tile[2] * ts + (p \div ts)
<1>1. tile = <<tile[1], tile[2]>> /\ tile[1] \in Nat /\ tile[2] \in Nat /\ tile \in Nat \X Nat
    <2>1. tile \in CoveringTiles(w, ts, ts)
        BY DEF Painted
    <2>2. /\ tile = <<tile[1], tile[2]>>
          /\ tile[1] \in Covering(w.x0, w.w, ts) /\ tile[2] \in Covering(w.y0, w.h, ts)
        BY <2>1 DEF CoveringTiles
    <2>3. w.w \in Nat \ {0} /\ w.h \in Nat \ {0}
        BY DEF Windows
    <2>4. tile[1] \in Nat /\ tile[2] \in Nat
        BY <2>2, <2>3, CoveringEnds
    <2>. QED BY <2>2, <2>4
<1>2. data = [p \in 0 .. ts * ts - 1 |-> Pixel(0, col(p), line(p), 0, 8)]
    BY DEF MapTile, Positions
<1>3. DOMAIN raster = 0 .. w.h * w.w - 1 /\ DOMAIN r = DOMAIN raster
    BY DEF Painted, Blit
<1>4. ts \in 1 .. ts /\ 1 \in Nat \ {0} /\ 0 \in 0 .. 1 - 1
    OBVIOUS
<1>5. ASSUME NEW x \in Pixels(w), NEW y \in Lines(w)
      PROVE  r[PlaceOf(w, 1, x, y, 0)] = MapAt(ts, (todoT \ {tile}) \cup blankT, x, y)
    <2>. DEFINE i == PlaceOf(w, 1, x, y, 0)
                here == <<x \div ts, y \div ts>>
    <2>1. x \in Nat /\ y \in Nat /\ i \in DOMAIN raster
        <3>1. w.w \in Nat /\ w.h \in Nat
            BY DEF Windows
        <3>2. x \in Nat /\ y \in Nat
            BY <3>1 DEF Pixels, Lines
        <3>. QED BY <1>3, <3>2, PlaceInMosaic
    <2>2. raster[i] = MapAt(ts, todoT \cup blankT, x, y)
        BY DEF Painted
    <2>3. ASSUME NEW c \in copies, c.dst = i
          PROVE  tile = here /\ c.src = Within(here, ts, ts, 1, x, y, 0)
        <3>1. c \in Copies(w, tile, ts, ts, ts, 1) /\ ts \in 0 .. ts
            OBVIOUS
        <3>2. c.dst = PlaceOf(w, 1, x, y, 0)
            BY <2>3
        <3>3. tile = <<x \div ts, y \div ts>> /\ c.src = Within(tile, ts, ts, 1, x, y, 0)
            BY <1>1, <1>4, <3>1, <3>2, SampleIsCopiedOnce
        <3>. QED BY <3>3
    <2>4. CASE here = tile
        <3>. DEFINE src == Within(here, ts, ts, 1, x, y, 0)
        <3>1. y < (y \div ts) * ts + ts
            BY <2>1, TileOf
        <3>2. [src |-> src, dst |-> i] \in copies
            <4>1. [src |-> src, dst |-> i] \in Copies(w, here, ts, ts, ts, 1)
                BY <1>4, <2>1, <3>1, SampleIsCopied
            <4>. QED BY <2>4, <4>1
        <3>3. \E c \in copies : c.dst = i
            BY <3>2
        <3>4. r[i] = data[src]
            <4>. HIDE DEF i, src, r
            <4>1. PICK c \in copies : c.dst = i /\ r[i] = data[c.src]
                BY <2>1, <3>3, BlitWrites DEF r
            <4>. QED BY <2>3, <4>1 DEF src
        <3>5. src \in 0 .. (ts * ts) * 1 - 1 /\ StandsFor(src, here, ts, ts, 1, x, y, 0)
            <4>1. here[1] = x \div ts /\ here[2] = y \div ts /\ y < here[2] * ts + ts
                BY <3>1
            <4>. HIDE DEF here
            <4>. QED BY <1>4, <2>1, <3>1, <4>1, WithinParts
        <3>6. src \in 0 .. ts * ts - 1 /\ src \in Int /\ 1 * ts = ts
            BY <3>5
        <3>7. src \div 1 = src
            <4>. HIDE DEF src
            <4>. QED BY <3>6
        <3>8. col(src) = x /\ line(src) = y
            BY <2>4, <3>5, <3>6, <3>7 DEF StandsFor
        <3>9. data[src] = Pixel(0, x, y, 0, 8)
            <4>. HIDE DEF src, col, line
            <4>. QED BY <1>2, <3>6, <3>8
        <3>10. here \notin (todoT \ {tile}) \cup blankT
            BY <2>4 DEF Painted
        <3>. HIDE DEF src, i, r
        <3>. QED BY <3>4, <3>9, <3>10 DEF MapAt, i
    <2>5. CASE here # tile
        <3>1. \A c \in copies : c.dst # i
            BY <2>3, <2>5
        <3>2. r[i] = raster[i]
            <4>. HIDE DEF i, r
            <4>. QED BY <2>1, <3>1, BlitWrites DEF r
        <3>3. MapAt(ts, (todoT \ {tile}) \cup blankT, x, y) = MapAt(ts, todoT \cup blankT, x, y)
            BY <2>5 DEF MapAt
        <3>. HIDE DEF i, r
        <3>. QED BY <2>2, <3>2, <3>3 DEF i
    <2>. QED BY <2>1, <2>4, <2>5
<1>6. todoT \ {tile} \subseteq CoveringTiles(w, ts, ts) /\ blankT \cap (todoT \ {tile}) = {}
    BY DEF Painted
<1>7. Painted(w, ts, r, todoT \ {tile}, blankT)
    <2>. HIDE DEF r
    <2>. QED BY <1>3, <1>5, <1>6 DEF Painted
<1>. QED BY <1>7

-----------------------------------------------------------------------------
(* The invariant of a build.                                               *)

\* The window of the box at full resolution, and the level it picks.
FullWindow(f) == Window(f.grid, f.levels[1].width, f.levels[1].height, request.box)

LevelOf(f) == PickLevel(f, request.maxPx, FullWindow(f).w, FullWindow(f).h)

BuildTypes ==
    /\ request \in Cases
    /\ phase \in {"open", "mosaic", "read", "done", "error"}
    /\ phase = "mosaic" => request.kind = "tiles" /\ blank = {}
    /\ phase = "open" => request.kind # "tiles" /\ bands = <<>>
    /\ red # NoFile => Whole(red)

\* All files of the product are open.
AreOpen == stage = "opened" /\ (TwoBands => red # NoFile)

\* The level and the window are those of the placing file.
Chosen ==
    /\ FullWindow(Placing).ok
    /\ level = LevelOf(Placing)
    /\ win = LevelWindow(Placing, level, request.box) /\ win.ok

Reads == phase \in {"read", "done"} /\ request.kind # "tiles"

Draws == phase \in {"read", "done"} /\ request.kind = "tiles"

\* A level is read: the second band fits the first.
LevelInv ==
    Reads =>
        /\ AreOpen /\ Chosen
        /\ TwoBands => SameSize(red, Opened, level)
        /\ Filled(Level, win, raster, todoTiles)
        /\ bands # <<>> => DOMAIN bands[1] = 0 .. (win.h * win.w) * red.levels[level].spp - 1
        /\ phase = "done" => Writable /\ todoTiles = {} /\ (TwoBands => bands # <<>>)

\* A mosaic is drawn.
MosaicInv ==
    Draws =>
        /\ Zoom \in 0 .. 24
        /\ request.box.minX >= 0 /\ request.box.minY > 0
        /\ request.box.maxX <= request.world /\ request.box.maxY <= request.world
        /\ win = Mosaic /\ win.ok
        /\ Painted(win, request.ts, raster, todoTiles, blank)

\* A build that found its box outside the scene has looked for it.
OutsideInv ==
    phase = "error" /\ request.kind # "tiles" =>
        /\ why # "bounds"
        /\ why = "outside" =>
            /\ AreOpen
            /\ ~FullWindow(Placing).ok \/ ~LevelWindow(Placing, LevelOf(Placing), request.box).ok

BuildInv == HeaderInv /\ BuildTypes /\ LevelInv /\ MosaicInv /\ OutsideInv

LEMMA CaseTypes ==
    ASSUME BuildTypes
    PROVE  /\ request.kind \in {"cog", "ndvi", "tiles"} /\ request.file \in Files
           /\ request.box \in Boxes /\ request.maxPx \in Int
           /\ TwoBands => request.nir \in Files
           /\ request.kind = "tiles" =>
                /\ request.world \in Nat \ {0} /\ request.maxZoom \in Nat /\ request.ts \in Nat \ {0}
                /\ request.size \in Nat /\ request.box.maxX - request.box.minX <= request.size
BY CasesAssumption DEF BuildTypes, TwoBands

LEMMA PlacingWhole ==
    ASSUME HeaderInv, BuildTypes, AreOpen
    PROVE  Whole(Placing) /\ Whole(Opened)
BY OpenedWhole DEF BuildTypes, AreOpen, Placing

\* The level that is read is a sound picture, and the window lies in it.
LEMMA LevelSound ==
    ASSUME BuildInv, Reads
    PROVE  /\ level \in DOMAIN Placing.levels /\ Inside(win, Placing.levels[level])
           /\ Picture(Placing.levels[level])
           /\ Picture(Level) /\ Inside(win, Level)
           /\ TwoBands => Picture(Opened.levels[level]) /\ Inside(win, Opened.levels[level])
<1>1. Whole(Placing) /\ Whole(Opened) /\ request.box \in Boxes /\ request.maxPx \in Int
    BY PlacingWhole, CaseTypes DEF BuildInv, LevelInv
<1>2. level = LevelOf(Placing) /\ win = LevelWindow(Placing, level, request.box) /\ win.ok
    BY DEF BuildInv, LevelInv, Chosen
<1>3. level \in DOMAIN Placing.levels
    BY <1>1, <1>2, LevelPicked DEF LevelOf
<1>4. Picture(Placing.levels[level]) /\ Inside(win, Placing.levels[level])
    BY <1>1, <1>2, <1>3, LevelInside
<1>5. CASE ~TwoBands
    <2>1. Placing = Opened /\ Level = Opened.levels[level]
        BY <1>5 DEF Placing, Reading, Level
    <2>. QED BY <1>3, <1>4, <1>5, <2>1
<1>6. CASE TwoBands
    <2>1. SameSize(red, Opened, level) /\ Placing = red
        BY <1>6 DEF BuildInv, LevelInv, Placing
    <2>2. level \in DOMAIN Opened.levels
        <3>1. DOMAIN Opened.levels = 1 .. Len(Opened.levels) /\ Len(Opened.levels) \in Nat
            BY <1>1 DEF Whole
        <3>2. DOMAIN red.levels = 1 .. Len(red.levels) /\ Len(red.levels) \in Nat
            BY <1>1, <2>1 DEF Whole
        <3>. QED BY <1>3, <2>1, <3>1, <3>2 DEF SameSize
    <2>3. Picture(Opened.levels[level]) /\ Inside(win, Opened.levels[level])
        BY <1>1, <1>4, <2>1, <2>2 DEF Whole, SameSize, Inside
    <2>4. Level = red.levels[level] \/ Level = Opened.levels[level]
        BY DEF Level, Reading
    <2>. QED BY <1>3, <1>4, <2>1, <2>3, <2>4
<1>. QED BY <1>5, <1>6

\* What stays as it is while the files are not touched.
LEMMA Steady ==
    ASSUME UNCHANGED <<request, red, headerVars>>
    PROVE  /\ Opened' = Opened /\ Placing' = Placing
           /\ TwoBands' <=> TwoBands
           /\ AreOpen' <=> AreOpen
           /\ FullWindow(Placing)' = FullWindow(Placing)
           /\ LevelOf(Placing)' = LevelOf(Placing)
           /\ LevelWindow(Placing, LevelOf(Placing), request.box)'
                = LevelWindow(Placing, LevelOf(Placing), request.box)
<1>1. Opened' = Opened
    BY DEF Opened, Rank, headerVars
<1>2. (TwoBands' <=> TwoBands) /\ (AreOpen' <=> AreOpen)
    BY DEF TwoBands, AreOpen, headerVars
<1>3. Placing' = Placing
    BY <1>1, <1>2 DEF Placing
<1>4. FullWindow(Placing)' = FullWindow(Placing)
    BY <1>3 DEF FullWindow
<1>5. LevelOf(Placing)' = LevelOf(Placing)
    BY <1>3, <1>4 DEF LevelOf
<1>. QED BY <1>1, <1>2, <1>3, <1>4, <1>5

LEMMA SteadyLevel ==
    ASSUME UNCHANGED <<request, red, bands, level, win, headerVars>>
    PROVE  Level' = Level /\ (Chosen' <=> Chosen)
<1>1. /\ Opened' = Opened /\ Placing' = Placing /\ (TwoBands' <=> TwoBands)
      /\ FullWindow(Placing)' = FullWindow(Placing)
      /\ LevelOf(Placing)' = LevelOf(Placing)
    BY Steady
<1>2. Level' = Level
    BY <1>1 DEF Level, Reading
<1>3. Chosen' <=> Chosen
    BY <1>1 DEF Chosen
<1>. QED BY <1>2, <1>3
-----------------------------------------------------------------------------
(* Every step of a build keeps the invariant.                              *)

LEMMA BuildStarts ==
    ASSUME Init
    PROVE  BuildInv
<1>1. HeaderInv
    BY HeaderStarts DEF Init
<1>2. BuildTypes
    BY DEF Init, BuildTypes
<1>3. LevelInv /\ MosaicInv /\ OutsideInv
    BY DEF Init, LevelInv, Reads, MosaicInv, Draws, OutsideInv
<1>. QED BY <1>1, <1>2, <1>3 DEF BuildInv

\* A failure; that a box lies outside is said of files that are open.
LEMMA EndKeeps ==
    ASSUME BuildInv, NEW reason, End("error", reason), UNCHANGED headerVars, reason # "bounds",
           request.kind # "tiles" /\ reason = "outside" =>
                /\ AreOpen
                /\ ~FullWindow(Placing).ok \/ ~LevelWindow(Placing, LevelOf(Placing), request.box).ok
    PROVE  BuildInv'
<1>1. HeaderInv'
    BY HeaderStep DEF BuildInv
<1>2. phase' = "error" /\ why' = reason /\ UNCHANGED <<request, red, bands, readVars>>
    BY DEF End
<1>3. BuildTypes' /\ LevelInv' /\ MosaicInv'
    BY <1>2 DEF BuildInv, BuildTypes, Whole, LevelInv, Reads, MosaicInv, Draws
<1>4. OutsideInv'
    BY <1>2, Steady DEF OutsideInv
<1>. QED BY <1>1, <1>3, <1>4 DEF BuildInv

LEMMA OpenKeeps ==
    ASSUME BuildInv, OpenStep \/ OpenFails \/ OpenNir
    PROVE  BuildInv'
<1>1. CASE OpenStep
    <2>1. HeaderInv'
        BY <1>1, HeaderStep DEF OpenStep, BuildInv
    <2>2. phase = "open" /\ UNCHANGED buildVars
        BY <1>1 DEF OpenStep
    <2>. QED BY <2>1, <2>2
         DEF BuildInv, BuildTypes, Whole, LevelInv, Reads, MosaicInv, Draws, OutsideInv, buildVars, readVars
<1>2. CASE OpenFails
    BY <1>2, EndKeeps DEF OpenFails
<1>3. CASE OpenNir
    <2>1. /\ phase = "open" /\ stage = "opened" /\ TwoBands /\ red' = Opened /\ Reopen(request.nir)
          /\ UNCHANGED <<request, phase, why, bands, readVars>>
        BY <1>3 DEF OpenNir
    <2>2. HeaderInv'
        BY <2>1, ReopenStarts, CaseTypes DEF BuildInv
    <2>3. Whole(Opened)
        BY <2>1, OpenedWhole DEF BuildInv
    <2>. HIDE DEF Opened
    <2>4. Whole(red')
        BY <2>1, <2>3
    <2>5. BuildTypes'
        BY <2>1, <2>4 DEF BuildInv, BuildTypes, readVars, Whole
    <2>6. LevelInv' /\ MosaicInv' /\ OutsideInv'
        BY <2>1 DEF LevelInv, Reads, MosaicInv, Draws, OutsideInv
    <2>. QED BY <2>2, <2>5, <2>6 DEF BuildInv
<1>. QED BY <1>1, <1>2, <1>3

LEMMA PickKeeps ==
    ASSUME BuildInv, PickWindow
    PROVE  BuildInv'
<1>. DEFINE f == Placing
            full == FullWindow(f)
            i == LevelOf(f)
            w == LevelWindow(f, i, request.box)
<1>1. /\ phase = "open" /\ AreOpen /\ UNCHANGED headerVars
      /\ IF ~full.ok THEN End("error", "outside")
         ELSE IF ~w.ok THEN End("error", "outside")
         ELSE IF TwoBands /\ ~SameSize(f, Opened, i) THEN End("error", "grids")
         ELSE IF ~InRaster(w, f.levels[i]) THEN End("error", "bounds")
         ELSE StartLevel(i, w, f.levels[i]) /\ UNCHANGED bands
    BY DEF PickWindow, FullWindow, LevelOf, AreOpen
<1>2. Whole(f) /\ Whole(Opened) /\ request.box \in Boxes /\ request.maxPx \in Int
    BY <1>1, PlacingWhole, CaseTypes DEF BuildInv
<1>3. CASE ~full.ok \/ ~w.ok
    <2>1. End("error", "outside")
        BY <1>1, <1>3
    <2>. QED BY <1>1, <1>3, <2>1, EndKeeps
<1>4. CASE full.ok /\ w.ok
    <2>1. i \in DOMAIN f.levels
        BY <1>2, LevelPicked DEF LevelOf
    <2>2. Picture(f.levels[i]) /\ Inside(w, f.levels[i]) /\ InRaster(w, f.levels[i])
        BY <1>2, <1>4, <2>1, LevelInside
    <2>3. CASE TwoBands /\ ~SameSize(f, Opened, i)
        BY <1>1, <1>4, <2>3, EndKeeps
    <2>4. CASE TwoBands => SameSize(f, Opened, i)
        <3>. DEFINE d == f.levels[i]
                    tiles == CoveringTiles(w, TileWidth(d), TileHeight(d))
                    zeros == [j \in 0 .. w.w * w.h * d.spp - 1 |-> 0]
        <3>1. StartLevel(i, w, d) /\ bands' = bands
            BY <1>1, <1>4, <2>2, <2>4
        <3>2. /\ phase' = "read" /\ level' = i /\ win' = w /\ raster' = zeros /\ todoTiles' = tiles
              /\ UNCHANGED <<request, why, red, blank>>
            BY <3>1 DEF StartLevel, StartRead
        <3>3. Filled(d, w, zeros, tiles)
            BY <2>2, RasterStarts
        <3>4. request.kind # "tiles" /\ bands = <<>>
            BY <1>1 DEF BuildInv, BuildTypes
        <3>5. Level' = d
            <4>1. Opened' = Opened /\ (TwoBands' <=> TwoBands) /\ bands' = <<>>
                BY <1>1, <3>1, <3>2, <3>4, Steady
            <4>2. Reading' = f
                BY <3>2, <4>1 DEF Reading, Placing
            <4>. HIDE DEF f, i
            <4>3. Level' = f.levels[i]
                BY <3>2, <4>2 DEF Level
            <4>. QED BY <4>3
        <3>6. Chosen'
            <4>1. /\ FullWindow(Placing)' = full /\ LevelOf(Placing)' = i /\ level' = LevelOf(Placing)'
                  /\ Placing' = f /\ LevelWindow(Placing, level, request.box)' = w
                BY <1>1, <3>2, Steady
            <4>. HIDE DEF f, full, i, w
            <4>. QED BY <1>4, <3>2, <4>1 DEF Chosen
        <3>7. AreOpen' /\ (TwoBands' => SameSize(red, Opened, level)')
            <4>1. Opened' = Opened /\ (TwoBands' <=> TwoBands) /\ AreOpen'
                BY <1>1, <3>2, Steady
            <4>2. TwoBands => SameSize(red, Opened, i)
                BY <2>4 DEF Placing
            <4>. HIDE DEF i
            <4>. QED BY <3>2, <4>1, <4>2 DEF SameSize
        <3>8. Filled(Level, win, raster, todoTiles)'
            <4>. HIDE DEF d, w, zeros, tiles
            <4>. QED BY <3>2, <3>3, <3>5
        <3>9. LevelInv'
            BY <3>1, <3>2, <3>4, <3>6, <3>7, <3>8 DEF LevelInv
        <3>10. BuildTypes'
            BY <3>2 DEF BuildInv, BuildTypes, Whole
        <3>11. MosaicInv' /\ OutsideInv'
            BY <3>2, <3>4 DEF MosaicInv, Draws, OutsideInv
        <3>12. HeaderInv'
            BY <1>1, HeaderStep DEF BuildInv
        <3>. QED BY <3>9, <3>10, <3>11, <3>12 DEF BuildInv
    <2>. QED BY <2>3, <2>4
<1>. QED BY <1>3, <1>4

LEMMA NextBandKeeps ==
    ASSUME BuildInv, NextBand
    PROVE  BuildInv'
<1>. DEFINE d == Opened.levels[level]
            tiles == CoveringTiles(win, TileWidth(d), TileHeight(d))
            zeros == [j \in 0 .. win.w * win.h * d.spp - 1 |-> 0]
<1>1. /\ phase = "read" /\ TwoBands /\ bands = <<>> /\ bands' = <<raster>>
      /\ StartLevel(level, win, d) /\ UNCHANGED headerVars
    BY DEF NextBand
<1>2. /\ phase' = "read" /\ level' = level /\ win' = win /\ raster' = zeros /\ todoTiles' = tiles
      /\ UNCHANGED <<request, why, red, blank>>
    BY <1>1 DEF StartLevel, StartRead
<1>3. Reads /\ request.kind # "tiles"
    BY <1>1 DEF Reads, TwoBands
<1>4. /\ AreOpen /\ Chosen /\ SameSize(red, Opened, level)
      /\ Level = red.levels[level] /\ Filled(Level, win, raster, todoTiles)
    BY <1>1, <1>3 DEF BuildInv, LevelInv, Level, Reading
<1>5. Picture(d) /\ Inside(win, d)
    BY <1>1, <1>3, LevelSound
<1>6. Filled(d, win, zeros, tiles)
    BY <1>5, RasterStarts
<1>7. Opened' = Opened /\ (TwoBands' <=> TwoBands) /\ AreOpen'
    BY <1>1, <1>2, <1>4, Steady
<1>8. Level' = d
    <2>1. Reading' = Opened'
        BY <1>1, <1>7 DEF Reading
    <2>. QED BY <1>2, <1>7, <2>1 DEF Level
<1>9. Chosen'
    <2>1. /\ FullWindow(Placing)' = FullWindow(Placing) /\ LevelOf(Placing)' = LevelOf(Placing)
          /\ Placing' = Placing
        BY <1>1, <1>2, Steady
    <2>. QED BY <1>2, <1>4, <2>1 DEF Chosen
<1>10. DOMAIN bands'[1] = 0 .. (win'.h * win'.w) * red'.levels[level'].spp - 1
    BY <1>1, <1>2, <1>4 DEF Filled
<1>11. Filled(Level, win, raster, todoTiles)'
    <2>. HIDE DEF d, zeros, tiles
    <2>. QED BY <1>2, <1>6, <1>8
<1>12. SameSize(red, Opened, level)'
    BY <1>2, <1>4, <1>7 DEF SameSize
<1>13. LevelInv'
    BY <1>2, <1>7, <1>9, <1>10, <1>11, <1>12 DEF LevelInv
<1>14. BuildTypes'
    BY <1>2 DEF BuildInv, BuildTypes, Whole
<1>15. MosaicInv' /\ OutsideInv'
    BY <1>2, <1>3 DEF MosaicInv, Draws, OutsideInv
<1>16. HeaderInv'
    BY <1>1, HeaderStep DEF BuildInv
<1>. QED BY <1>13, <1>14, <1>15, <1>16 DEF BuildInv

\* No worker panics: readTile's indexes are in range.
LEMMA ReadTileKeeps ==
    ASSUME BuildInv, NEW tile \in todoTiles, ReadTile(tile)
    PROVE  BuildInv'
<1>. DEFINE d == Level
            data == Decoded(d, tile, Stored(d, Contents(d, tile)))
            copies == Copies(win, tile, TileWidth(d), Rows(d, tile[2]), TileHeight(d), d.spp)
            r == Blit(copies, data)
<1>1. phase = "read" /\ request.kind # "tiles" /\ Reads /\ UNCHANGED headerVars
    BY DEF ReadTile, Reads
<1>2. Picture(d) /\ Inside(win, d) /\ Filled(d, win, raster, todoTiles)
    BY <1>1, LevelSound DEF BuildInv, LevelInv
<1>3. /\ Index(d, tile) < d.offsets /\ Index(d, tile) < d.counts
      /\ \A c \in copies : c.src \in DOMAIN data /\ c.dst \in DOMAIN raster
      /\ Filled(d, win, r, todoTiles \ {tile})
    <2>. HIDE DEF d
    <2>. QED BY <1>2, TileIsRead
<1>4. /\ raster' = r /\ todoTiles' = todoTiles \ {tile}
      /\ UNCHANGED <<request, phase, why, red, bands, level, win, blank>>
    <2>1. IF /\ Index(d, tile) < d.offsets /\ Index(d, tile) < d.counts
             /\ \A c \in copies : c.src \in DOMAIN data /\ c.dst \in DOMAIN raster
          THEN /\ raster' = r /\ todoTiles' = todoTiles \ {tile}
               /\ UNCHANGED <<request, phase, why, red, bands, level, win, blank>>
          ELSE End("panic", "index")
        BY DEF ReadTile
    <2>. HIDE DEF d, data, copies, r
    <2>. QED BY <1>3, <2>1
<1>5. Level' = d /\ (Chosen' <=> Chosen)
    BY <1>1, <1>4, SteadyLevel
<1>6. Filled(Level, win, raster, todoTiles)'
    <2>. HIDE DEF d, r
    <2>. QED BY <1>3, <1>4, <1>5
<1>7. Opened' = Opened /\ (TwoBands' <=> TwoBands) /\ (AreOpen' <=> AreOpen)
    BY <1>1, <1>4, Steady
<1>8. LevelInv'
    <2>1. AreOpen' /\ Chosen' /\ (TwoBands' => SameSize(red, Opened, level)')
        BY <1>1, <1>4, <1>5, <1>7 DEF BuildInv, LevelInv, SameSize
    <2>2. bands' # <<>> => DOMAIN bands'[1] = 0 .. (win'.h * win'.w) * red'.levels[level'].spp - 1
        BY <1>1, <1>4 DEF BuildInv, LevelInv
    <2>. QED BY <1>1, <1>4, <1>6, <2>1, <2>2 DEF LevelInv
<1>9. BuildTypes' /\ MosaicInv' /\ OutsideInv'
    BY <1>1, <1>4 DEF BuildInv, BuildTypes, Whole, MosaicInv, Draws, OutsideInv
<1>10. HeaderInv'
    BY <1>1, HeaderStep DEF BuildInv
<1>. QED BY <1>8, <1>9, <1>10 DEF BuildInv

LEMMA CutKeeps ==
    ASSUME BuildInv, CutMosaic
    PROVE  BuildInv'
<1>. DEFINE w == Mosaic
            tiles == CoveringTiles(w, request.ts, request.ts)
            zeros == [i \in 0 .. w.w * w.h - 1 |-> 0]
            refused == \E reason \in {"antimeridian", "latitude", "empty", "zoom", "outside"} :
                            End("error", reason)
<1>1. /\ phase = "mosaic" /\ request.kind = "tiles" /\ blank = {} /\ UNCHANGED headerVars
      /\ \/ refused
         \/ /\ ~(request.box.minX < 0) /\ ~(request.box.minY <= 0) /\ ~(Zoom > 24) /\ w.ok
            /\ ~(request.box.maxX > request.world) /\ ~(request.box.maxY >= request.world)
            /\ StartRead(0, w, w.w * w.h, tiles)
    BY DEF CutMosaic, BuildInv, BuildTypes
<1>2. CASE refused
    <2>1. PICK reason \in {"antimeridian", "latitude", "empty", "zoom", "outside"} :
            End("error", reason)
        BY <1>2
    <2>2. reason # "bounds"
        OBVIOUS
    <2>. QED BY <1>1, <2>1, <2>2, EndKeeps
<1>3. CASE ~refused
    <2>1. /\ ~(request.box.minX < 0) /\ ~(request.box.minY <= 0) /\ ~(Zoom > 24) /\ w.ok
          /\ ~(request.box.maxX > request.world) /\ ~(request.box.maxY >= request.world)
          /\ StartRead(0, w, w.w * w.h, tiles)
        BY <1>1, <1>3
    <2>2. /\ request.box \in Boxes /\ request.world \in Nat \ {0} /\ request.maxZoom \in Nat
          /\ request.ts \in Nat \ {0}
        BY <1>1, CaseTypes DEF BuildInv
    <2>3. /\ Zoom \in 0 .. 24 /\ request.box.minX >= 0 /\ request.box.minY > 0
          /\ request.box.maxX <= request.world /\ request.box.maxY <= request.world
        <3>1. Zoom \in 0 .. request.maxZoom
            BY <2>2, ZoomPicked DEF Zoom
        <3>2. /\ request.box.minX \in Int /\ request.box.minY \in Int
              /\ request.box.maxX \in Int /\ request.box.maxY \in Int
            BY <2>2 DEF Boxes
        <3>. QED BY <2>1, <2>2, <3>1, <3>2
    <2>4. w \in Windows /\ w.x0 \in Nat /\ w.y0 \in Nat
        <3>1. Side \in Nat \ {0}
            BY <2>2, <2>3, SidePositive
        <3>. QED BY <2>1, <2>2, <2>3, <3>1, MosaicPlaced DEF Mosaic
    <2>5. Painted(w, request.ts, zeros, tiles, {})
        BY <2>2, <2>4, MosaicStarts
    <2>6. /\ phase' = "read" /\ win' = w /\ raster' = zeros /\ todoTiles' = tiles
          /\ UNCHANGED <<request, why, red, blank>>
        BY <2>1 DEF StartRead
    <2>7. MosaicInv'
        <3>1. Zoom' = Zoom /\ Mosaic' = Mosaic
            BY <2>6 DEF Zoom, Mosaic, Side
        <3>2. win' = Mosaic'
            BY <2>6, <3>1
        <3>3. Painted(win, request.ts, raster, todoTiles, blank)'
            <4>. HIDE DEF w, zeros, tiles
            <4>. QED BY <1>1, <2>5, <2>6
        <3>. QED BY <2>1, <2>3, <2>6, <3>1, <3>2, <3>3 DEF MosaicInv
    <2>8. BuildTypes'
        BY <2>6 DEF BuildInv, BuildTypes, Whole
    <2>9. LevelInv' /\ OutsideInv'
        BY <1>1, <2>6 DEF LevelInv, Reads, OutsideInv
    <2>10. HeaderInv'
        BY <1>1, HeaderStep DEF BuildInv
    <2>. QED BY <2>7, <2>8, <2>9, <2>10 DEF BuildInv
<1>. QED BY <1>2, <1>3

\* The window of a mosaic that is drawn.
LEMMA MosaicSound ==
    ASSUME BuildInv, Draws
    PROVE  /\ win \in Windows /\ win.x0 \in Nat /\ win.y0 \in Nat /\ Side \in Nat \ {0}
           /\ win = MosaicWindow(request.box, request.world, Side) /\ win.ok
           /\ Painted(win, request.ts, raster, todoTiles, blank)
<1>1. /\ Zoom \in 0 .. 24 /\ request.box.minX >= 0 /\ request.box.minY > 0
      /\ win = Mosaic /\ win.ok
      /\ Painted(win, request.ts, raster, todoTiles, blank)
    BY DEF BuildInv, MosaicInv
<1>2. request.box \in Boxes /\ request.world \in Nat \ {0} /\ request.ts \in Nat \ {0}
    BY CaseTypes DEF BuildInv, Draws
<1>3. Side \in Nat \ {0}
    BY <1>1, <1>2, SidePositive
<1>4. win \in Windows /\ win.x0 \in Nat /\ win.y0 \in Nat
    BY <1>1, <1>2, <1>3, MosaicPlaced DEF Mosaic
<1>. QED BY <1>1, <1>3, <1>4 DEF Mosaic

LEMMA DrawKeeps ==
    ASSUME BuildInv, NEW tile \in todoTiles, DrawTile(tile) \/ SkipTile(tile)
    PROVE  BuildInv'
<1>. DEFINE ts == request.ts
<1>1. /\ phase = "read" /\ request.kind = "tiles" /\ Draws
      /\ UNCHANGED <<request, phase, why, red, bands, level, win, headerVars>>
      /\ todoTiles' = todoTiles \ {tile}
    BY DEF DrawTile, SkipTile, Draws
<1>2. /\ win \in Windows /\ win.x0 \in Nat /\ win.y0 \in Nat
      /\ Painted(win, ts, raster, todoTiles, blank)
    BY <1>1, MosaicSound
<1>3. ts \in Nat \ {0}
    BY <1>1, CaseTypes DEF BuildInv
<1>5. Painted(win, ts, raster', todoTiles', blank')
    <2>1. CASE DrawTile(tile)
        <3>. DEFINE data == MapTile(tile, ts)
                    copies == Copies(win, tile, ts, ts, ts, 1)
        <3>1. blank' = blank /\ raster' = Blit(copies, data)
            BY <2>1 DEF DrawTile
        <3>2. Painted(win, ts, Blit(copies, data), todoTiles \ {tile}, blank)
            <4>. HIDE DEF ts
            <4>. QED BY <1>2, <1>3, TileIsDrawn
        <3>. HIDE DEF data, copies
        <3>. QED BY <1>1, <3>1, <3>2
    <2>2. CASE SkipTile(tile)
        <3>1. raster' = raster /\ blank' = blank \cup {tile}
            BY <2>2 DEF SkipTile
        <3>. QED BY <1>1, <1>2, <3>1, TileIsBlank
    <2>. QED BY <2>1, <2>2
<1>6. MosaicInv'
    <2>1. Zoom' = Zoom /\ Mosaic' = Mosaic
        BY <1>1 DEF Zoom, Mosaic, Side
    <2>. QED BY <1>1, <1>5, <2>1 DEF BuildInv, MosaicInv
<1>7. BuildTypes' /\ LevelInv' /\ OutsideInv'
    BY <1>1 DEF BuildInv, BuildTypes, Whole, LevelInv, Reads, OutsideInv
<1>8. HeaderInv'
    BY <1>1, HeaderStep DEF BuildInv
<1>. QED BY <1>6, <1>7, <1>8 DEF BuildInv

LEMMA FinishKeeps ==
    ASSUME BuildInv, ReadTileFails \/ Write \/ UNCHANGED vars
    PROVE  BuildInv'
<1>1. CASE ReadTileFails
    BY <1>1, EndKeeps DEF ReadTileFails
<1>2. CASE Write /\ ~Writable
    BY <1>2, EndKeeps DEF Write
<1>3. CASE (Write /\ Writable) \/ UNCHANGED vars
    <2>1. /\ UNCHANGED <<request, why, red, bands, level, win, raster, todoTiles, blank, headerVars>>
          /\ phase' = phase \/ (phase = "read" /\ phase' = "done" /\ Writable /\ todoTiles = {}
                                /\ (TwoBands => bands # <<>>))
        BY <1>3 DEF Write, vars, buildVars, readVars
    <2>2. Level' = Level /\ (Chosen' <=> Chosen)
        BY <2>1, SteadyLevel
    <2>3. Opened' = Opened /\ (TwoBands' <=> TwoBands) /\ (AreOpen' <=> AreOpen)
        BY <2>1, Steady
    <2>4. Writable' <=> Writable
        BY <2>1, <2>2, <2>3 DEF Writable
    <2>5. Filled(Level, win, raster, todoTiles)' <=> Filled(Level, win, raster, todoTiles)
        BY <2>1, <2>2
    <2>6. SameSize(red, Opened, level)' <=> SameSize(red, Opened, level)
        BY <2>1, <2>3 DEF SameSize
    <2>7. LevelInv'
        <3>1. Reads' => Reads
            BY <2>1 DEF Reads
        <3>2. Reads' /\ phase' = "done" => Writable /\ todoTiles = {} /\ (TwoBands => bands # <<>>)
            <4>1. CASE phase' = phase
                BY <3>1, <4>1 DEF BuildInv, LevelInv
            <4>2. CASE phase' # phase
                BY <2>1, <4>2
            <4>. QED BY <4>1, <4>2
        <3>. QED BY <2>1, <2>2, <2>3, <2>4, <2>5, <2>6, <3>1, <3>2 DEF BuildInv, LevelInv
    <2>8. MosaicInv'
        <3>1. Draws' => Draws
            BY <2>1 DEF Draws
        <3>2. Zoom' = Zoom /\ Mosaic' = Mosaic
            BY <2>1 DEF Zoom, Mosaic, Side
        <3>. QED BY <2>1, <3>1, <3>2 DEF BuildInv, MosaicInv
    <2>9. BuildTypes'
        BY <2>1 DEF BuildInv, BuildTypes, Whole
    <2>10. OutsideInv'
        BY <2>1, Steady DEF BuildInv, OutsideInv
    <2>11. HeaderInv'
        BY <2>1, HeaderStep DEF BuildInv
    <2>. QED BY <2>7, <2>8, <2>9, <2>10, <2>11 DEF BuildInv
<1>. QED BY <1>1, <1>2, <1>3

LEMMA BuildStep ==
    ASSUME BuildInv, [Next]_vars
    PROVE  BuildInv'
BY OpenKeeps, PickKeeps, NextBandKeeps, CutKeeps, ReadTileKeeps, DrawKeeps, FinishKeeps DEF Next

LEMMA BuildInvHolds == Spec => []BuildInv
BY BuildStarts, BuildStep, PTL DEF Spec

\* A build opens its files as Open should: it reads no more of a header than
\* the limit, and its verdict is about the file.
THEOREM HeadersBounded == Spec => []HeaderBounded
BY BuildInvHolds, HeaderVerdict, PTL DEF BuildInv

THEOREM HeadersOpen == Spec => []OpensWhatItShould
BY BuildInvHolds, HeaderVerdict, PTL DEF BuildInv

-----------------------------------------------------------------------------
(* The raster.                                                             *)

LEMMA RasterHolds ==
    ASSUME BuildInv
    PROVE  RasterIsWindow
<1>. DEFINE spp == Samples
            at(x, y, b) == (y * win.w + x) * spp + b
            tile(x, y) == <<x \div TileWidth(Level), y \div TileHeight(Level)>>
<1>1. phase # "panic"
    BY DEF BuildInv, BuildTypes
<1>2. ASSUME Built, request.kind = "tiles",
             NEW x \in 0 .. win.w - 1, NEW y \in 0 .. win.h - 1, NEW b \in 0 .. spp - 1
      PROVE  raster[at(x, y, b)] = MapAt(request.ts, blank, win.x0 + x, win.y0 + y) /\ b = 0
    <2>. DEFINE u == win.x0 + x
                v == win.y0 + y
    <2>1. spp = 1 /\ b = 0
        BY <1>2 DEF Samples
    <2>2. Draws /\ todoTiles = {}
        BY <1>2 DEF Built, Draws
    <2>3. win \in Windows /\ Painted(win, request.ts, raster, {}, blank)
        BY <2>2, MosaicSound
    <2>4. win.x0 \in Int /\ win.y0 \in Int /\ win.w \in Nat /\ win.h \in Nat
        BY <2>3 DEF Windows
    <2>5. u \in Pixels(win) /\ v \in Lines(win) /\ u - win.x0 = x /\ v - win.y0 = y
        BY <2>4 DEF Pixels, Lines
    <2>. HIDE DEF u, v
    <2>6. raster[PlaceOf(win, 1, u, v, 0)] = MapAt(request.ts, {} \cup blank, u, v)
        BY <2>3, <2>5 DEF Painted
    <2>7. PlaceOf(win, 1, u, v, 0) = at(x, y, b)
        BY <2>1, <2>5 DEF PlaceOf
    <2>. QED BY <2>1, <2>6, <2>7 DEF u, v
<1>3. ASSUME Built, request.kind # "tiles",
             NEW x \in 0 .. win.w - 1, NEW y \in 0 .. win.h - 1, NEW b \in 0 .. spp - 1
      PROVE  raster[at(x, y, b)] = StoredAt(Level, win.x0 + x, win.y0 + y, b)
    <2>. DEFINE u == win.x0 + x
                v == win.y0 + y
    <2>1. spp = Level.spp
        BY <1>3 DEF Samples
    <2>2. Reads /\ todoTiles = {}
        BY <1>3 DEF Built, Reads
    <2>3. win \in Windows /\ Filled(Level, win, raster, {})
        BY <2>2, LevelSound DEF BuildInv, LevelInv, Inside
    <2>4. win.x0 \in Int /\ win.y0 \in Int /\ win.w \in Nat /\ win.h \in Nat
        BY <2>3 DEF Windows
    <2>5. u \in Pixels(win) /\ v \in Lines(win) /\ u - win.x0 = x /\ v - win.y0 = y
        BY <2>4 DEF Pixels, Lines
    <2>. HIDE DEF u, v
    <2>6. raster[PlaceOf(win, Level.spp, u, v, b)] = StoredAt(Level, u, v, b)
        BY <2>1, <2>3, <2>5 DEF Filled
    <2>7. PlaceOf(win, Level.spp, u, v, b) = at(x, y, b)
        BY <2>1, <2>5 DEF PlaceOf
    <2>. QED BY <2>6, <2>7 DEF u, v
<1>4. ASSUME Built, phase = "done", TwoBands
      PROVE  SameSize(red, Opened, level) /\ DOMAIN bands[1] = DOMAIN raster
    <2>1. Reads /\ request.kind # "tiles"
        BY <1>4 DEF Reads, TwoBands
    <2>2. /\ SameSize(red, Opened, level) /\ Writable /\ bands # <<>>
          /\ DOMAIN bands[1] = 0 .. (win.h * win.w) * red.levels[level].spp - 1
          /\ DOMAIN raster = 0 .. (win.h * win.w) * Level.spp - 1
        BY <1>4, <2>1 DEF BuildInv, LevelInv, Filled
    <2>3. red.levels[level].spp = 1 /\ Opened.levels[level].spp = 1
        BY <1>4, <2>1, <2>2 DEF Writable
    <2>4. Level = Opened.levels[level]
        BY <2>2 DEF Level, Reading
    <2>. QED BY <2>2, <2>3, <2>4
<1>. HIDE DEF spp
<1>5. Built => \A x \in 0 .. win.w - 1, y \in 0 .. win.h - 1, b \in 0 .. spp - 1 :
        raster[at(x, y, b)] =
            IF request.kind = "tiles"
            THEN IF <<(win.x0 + x) \div request.ts, (win.y0 + y) \div request.ts>> \in blank
                 THEN 0 ELSE Pixel(0, win.x0 + x, win.y0 + y, b, 8)
            ELSE IF Index(Level, tile(win.x0 + x, win.y0 + y)) \in Level.sparse
                 THEN 0 ELSE LevelPixel(Level, win.x0 + x, win.y0 + y, b)
    BY <1>2, <1>3 DEF MapAt, StoredAt
<1>. QED BY <1>1, <1>4, <1>5 DEF RasterIsWindow, spp

\* No worker of a build panics, and a raster that is complete holds, sample by
\* sample, the window of the level or of the map, whatever the order in which
\* the tiles came, for files and boxes of every size.
THEOREM RasterIsComplete == Spec => []RasterIsWindow
BY BuildInvHolds, RasterHolds, PTL
-----------------------------------------------------------------------------
(* The output fits the box.                                                *)

\* The pixels of a range, in whole units: it begins in the first of them, or
\* before the raster does, and ends in the last, or beyond the raster.
LEMMA SpanEnds ==
    ASSUME NEW origin \in Int, NEW scale \in Nat \ {0}, NEW k \in Nat \ {0}, NEW n \in Nat,
           NEW lo \in Int, NEW hi \in Int,
           NEW s, s = Span(origin, scale * k, CeilDiv(n, k), lo, hi)
    PROVE  /\ s.from \in Nat /\ s.to \in Int /\ s.to <= CeilDiv(n, k)
           /\ Common(origin, scale, n, lo, hi)[1] < Common(origin, scale, n, lo, hi)[2]
                => s.from < s.to
           /\ s.from < s.to =>
                Hugs(origin, scale * k, CeilDiv(n, k), s.from, s.to - s.from,
                     Common(origin, scale, n, lo, hi))
<1>. DEFINE S == scale * k
            m == CeilDiv(n, k)
            F == FloorDiv(lo - origin, S)
            C == CeilDiv(hi - origin, S)
            from == s.from
            to == s.to
            a == Common(origin, scale, n, lo, hi)[1]
            z == Common(origin, scale, n, lo, hi)[2]
            ns == n * scale
<1>1. S \in Nat \ {0} /\ ns \in Nat
    <2>1. 0 * k < scale * k
        BY Products
    <2>. QED BY <2>1
<1>2. /\ m \in Int /\ n <= m * k /\ F \in Int /\ C \in Int
      /\ F * S <= lo - origin /\ lo - origin < F * S + S
      /\ hi - origin <= C * S /\ C * S < hi - origin + S
    <2>. DEFINE low == lo - origin
                high == hi - origin
    <2>1. low \in Int /\ high \in Int
        OBVIOUS
    <2>2. m \in Int /\ n <= m * k
        BY CeilIs
    <2>. HIDE DEF S, low, high, m
    <2>3. FloorDiv(low, S) \in Int /\ FloorDiv(low, S) * S <= low /\ low < FloorDiv(low, S) * S + S
        BY <1>1, <2>1, FloorIs
    <2>4. CeilDiv(high, S) \in Int /\ high <= CeilDiv(high, S) * S /\ CeilDiv(high, S) * S < high + S
        BY <1>1, <2>1, CeilIs
    <2>. QED BY <2>2, <2>3, <2>4 DEF low, high
<1>3. from = Larger(F, 0) /\ to = Smaller(C, m)
    BY DEF Span
<1>4. a = Larger(lo, origin) /\ z = Smaller(hi, origin + ns)
    BY DEF Common
<1>5. ns <= m * S
    <2>1. n * scale <= (m * k) * scale /\ (m * k) * scale = m * S
        BY <1>2, Products
    <2>. QED BY <2>1
<1>6. \A t \in Int : t < m => t * S < ns
    <2>1. SUFFICES ASSUME NEW t \in Int, t < m PROVE t * S < ns
        OBVIOUS
    <2>2. t * k < n /\ t * k \in Int
        BY <2>1, CeilAbove
    <2>3. (t * k) * scale < n * scale
        BY <2>2, Products
    <2>4. t * S = (t * k) * scale
        OBVIOUS
    <2>. QED BY <2>3, <2>4
<1>7. \A t \in Int : t * S \in Int /\ (t + 1) * S = t * S + S /\ (t - 1) * S = t * S - S
    BY <1>1
<1>8. \A t, u \in Int : (t <= u <=> t * S <= u * S) /\ (t < u <=> t * S < u * S)
    <2>. HIDE DEF S
    <2>. QED BY <1>1, Products
<1>9. 0 * S = 0
    BY <1>1
<1>10. \A t \in Int : t < C => t * S < hi - origin
    <2>1. hi - origin \in Int
        OBVIOUS
    <2>. HIDE DEF S
    <2>. QED BY <1>1, <2>1, CeilAbove
<1>. HIDE DEF S, m, F, C, from, to, a, z, ns
<1>11. from \in Nat /\ to \in Int /\ to <= m
    BY <1>2, <1>3 DEF Larger, Smaller
<1>12. ASSUME a < z PROVE from < to
    <2>1. a \in Int /\ z \in Int /\ lo <= a /\ origin <= a /\ z <= hi /\ z <= origin + ns
        BY <1>1, <1>4 DEF Larger, Smaller
    <2>2. F * S < C * S /\ F * S < m * S /\ 0 * S < C * S /\ 0 * S < m * S
        <3>1. F * S \in Int /\ C * S \in Int /\ m * S \in Int
            BY <1>2, <1>7
        <3>. QED BY <1>1, <1>2, <1>5, <1>9, <1>12, <2>1, <3>1
    <2>3. F < C /\ F < m /\ 0 < C /\ 0 < m
        BY <1>2, <1>8, <2>2
    <2>. QED BY <1>2, <1>3, <2>3 DEF Larger, Smaller
<1>13. ASSUME from < to
       PROVE  /\ origin + from * S <= a /\ a < origin + (from + 1) * S
              /\ origin + (to - 1) * S < z /\ z <= origin + to * S
    <2>1. from * S <= a - origin
        <3>1. CASE from = 0
            BY <1>4, <1>9, <3>1 DEF Larger
        <3>2. CASE from = F
            BY <1>2, <1>4, <1>7, <3>2 DEF Larger
        <3>. QED BY <1>3, <3>1, <3>2 DEF Larger
    <2>2. a - origin < from * S + S
        <3>1. F * S <= from * S /\ 0 * S <= from * S
            <4>1. F <= from /\ 0 <= from
                BY <1>2, <1>3 DEF Larger
            <4>. QED BY <1>2, <1>8, <1>11, <4>1
        <3>2. F * S \in Int /\ from * S \in Int
            BY <1>2, <1>7, <1>11
        <3>. QED BY <1>1, <1>2, <1>4, <1>9, <3>1, <3>2 DEF Larger
    <2>3. (to - 1) * S < z - origin
        <3>1. to - 1 \in Int /\ to - 1 < m /\ to - 1 < C
            BY <1>2, <1>3, <1>11 DEF Smaller
        <3>2. (to - 1) * S < ns /\ (to - 1) * S < hi - origin /\ (to - 1) * S \in Int
            BY <1>6, <1>7, <1>10, <3>1
        <3>. QED BY <1>1, <1>4, <3>2 DEF Smaller
    <2>4. z - origin <= to * S
        <3>1. CASE to = C
            BY <1>1, <1>2, <1>4, <1>7, <3>1 DEF Smaller
        <3>2. CASE to = m
            BY <1>1, <1>2, <1>4, <1>5, <1>7, <3>2 DEF Smaller
        <3>. QED BY <1>3, <3>1, <3>2 DEF Smaller
    <2>5. from * S \in Int /\ (from + 1) * S = from * S + S /\ (to - 1) * S \in Int /\ to * S \in Int
        BY <1>7, <1>11
    <2>6. a \in Int /\ z \in Int
        BY <1>1, <1>4 DEF Larger, Smaller
    <2>. QED BY <1>1, <2>1, <2>2, <2>3, <2>4, <2>5, <2>6
<1>14. ASSUME from < to
       PROVE  Hugs(origin, S, m, from, to - from, Common(origin, scale, n, lo, hi))
    <2>1. from + (to - from) - 1 = to - 1 /\ from + (to - from) = to
        BY <1>11
    <2>. QED BY <1>11, <1>13, <1>14, <2>1 DEF Hugs, a, z
<1>. QED BY <1>11, <1>12, <1>14 DEF S, m, from, to, a, z

\* The pixels of a map that a range touches: they begin and end with it.
LEMMA EdgesHug ==
    ASSUME NEW lo \in Int, NEW hi \in Int, NEW world \in Nat \ {0}, NEW side \in Nat \ {0},
           hi <= world,
           NEW f, f = FloorDiv(lo * side, world), NEW c, c = CeilDiv(hi * side, world)
    PROVE  /\ f \in Int /\ c \in Int
           /\ Hugs(0, world, side, f, c - f, <<lo * side, hi * side>>)
<1>. DEFINE A == lo * side
            B == hi * side
<1>1. A \in Int /\ B \in Int /\ B <= world * side
    BY Products
<1>2. /\ f \in Int /\ f * world <= A /\ A < f * world + world
    BY <1>1, FloorIs
<1>3. c \in Int /\ B <= c * world /\ (c - 1) * world < B
    <2>1. c \in Int /\ B <= c * world
        BY <1>1, CeilIs
    <2>2. c - 1 \in Int /\ c - 1 < c
        BY <2>1
    <2>3. (c - 1) * world < B
        BY <1>1, <2>2, CeilAbove
    <2>. QED BY <2>1, <2>3
<1>4. c <= side
    <2>1. side < c <=> side * world < B
        BY <1>1, CeilAbove
    <2>2. side * world = world * side /\ side * world \in Int
        OBVIOUS
    <2>. HIDE DEF B
    <2>. QED BY <1>1, <1>3, <2>1, <2>2
<1>5. (f + 1) * world = f * world + world /\ f + (c - f) - 1 = c - 1 /\ f + (c - f) = c
    BY <1>2, <1>3
<1>6. f * world \in Int /\ c * world \in Int /\ (c - 1) * world \in Int
    BY <1>2, <1>3
<1>. HIDE DEF A, B
<1>7. Hugs(0, world, side, f, c - f, <<A, B>>)
    BY <1>1, <1>2, <1>3, <1>4, <1>5, <1>6 DEF Hugs
<1>. QED BY <1>2, <1>3, <1>7 DEF A, B

\* A mosaic that begins at the edge of a pixel is no wider than its zoom level
\* was picked for.
LEMMA MosaicWithin ==
    ASSUME NEW lo \in Int, NEW hi \in Int, NEW size \in Nat, hi - lo <= size,
           NEW world \in Nat \ {0}, NEW zoom \in 0 .. 24, NEW nominal \in Nat \ {0}, NEW px \in Int,
           ZoomFits(size, world, zoom, px, nominal),
           NEW side \in Nat \ {0}, side = 2^zoom * nominal, (lo * side) % world = 0,
           NEW f, f = FloorDiv(lo * side, world), NEW c, c = CeilDiv(hi * side, world)
    PROVE  c - f <= px
<1>. DEFINE n == 2^zoom
            A == lo * side
            B == hi * side
<1>1. n \in Nat \ {0}
    BY PowerPositive
<1>2. size * n * nominal <= px * world
    BY DEF ZoomFits
<1>3. size * side <= px * world
    <2>. HIDE DEF n
    <2>1. size * n * nominal = size * (n * nominal)
        BY <1>1
    <2>. QED BY <1>2, <2>1 DEF n
<1>4. /\ A \in Int /\ B \in Int /\ f \in Int /\ c \in Int
      /\ f * world = A /\ (c - 1) * world < B
    <2>1. A \in Int /\ B \in Int
        OBVIOUS
    <2>2. f * world = A /\ f \in Int
        <3>. HIDE DEF A
        <3>. QED BY <2>1 DEF FloorDiv, A
    <2>3. c \in Int
        BY <2>1, CeilIs
    <2>4. c - 1 \in Int /\ c - 1 < c
        BY <2>3
    <2>5. (c - 1) * world < B
        BY <2>1, <2>4, CeilAbove
    <2>. QED BY <2>1, <2>2, <2>3, <2>5
<1>5. B - A <= px * world
    <2>. DEFINE d == hi - lo
    <2>1. d \in Int /\ d <= size /\ B - A = d * side
        OBVIOUS
    <2>. HIDE DEF d
    <2>2. d * side <= size * side /\ d * side \in Int /\ size * side \in Int
        BY <2>1, Products
    <2>. HIDE DEF A, B
    <2>. QED BY <1>3, <2>1, <2>2
<1>. HIDE DEF A, B
<1>. DEFINE last == c - 1 - f
<1>6. last * world < px * world
    <2>1. last * world = (c - 1) * world - f * world /\ (c - 1) * world \in Int /\ f * world \in Int
        BY <1>4
    <2>2. px * world \in Int
        OBVIOUS
    <2>. HIDE DEF last
    <2>. QED BY <1>4, <1>5, <2>1, <2>2
<1>7. last \in Int
    BY <1>4
<1>8. last < px
    <2>. HIDE DEF last
    <2>. QED BY <1>6, <1>7, Products
<1>. QED BY <1>4, <1>8

\* A mosaic is its box, to less than a pixel on each side.
LEMMA MosaicHugs ==
    ASSUME BuildInv, Draws
    PROVE  /\ Hugs(0, request.world, Side, win.x0, win.w,
                   <<request.box.minX * Side, request.box.maxX * Side>>)
           /\ Hugs(0, request.world, Side, win.y0, win.h,
                   <<request.box.minY * Side, request.box.maxY * Side>>)
           /\ Zoom > 0 /\ request.ts = Nominal /\ (request.box.minX * Side) % request.world = 0 =>
                win.w <= request.maxPx
<1>. DEFINE box == request.box
            world == request.world
            x0 == FloorDiv(box.minX * Side, world)
            y0 == FloorDiv(box.minY * Side, world)
            x1 == CeilDiv(box.maxX * Side, world)
            y1 == CeilDiv(box.maxY * Side, world)
<1>1. /\ box.minX \in Int /\ box.maxX \in Int /\ box.minY \in Int /\ box.maxY \in Int
      /\ world \in Nat \ {0} /\ request.maxPx \in Int /\ request.maxZoom \in Nat
      /\ request.size \in Nat /\ box.maxX - box.minX <= request.size
    BY CaseTypes DEF BuildInv, Boxes, Draws
<1>2. box.maxX <= world /\ box.maxY <= world /\ Zoom \in 0 .. 24
    BY DEF BuildInv, MosaicInv
<1>3. Side \in Nat \ {0} /\ win = MosaicWindow(box, world, Side)
    BY MosaicSound
<1>4. win.x0 = x0 /\ win.y0 = y0 /\ win.w = x1 - x0 /\ win.h = y1 - y0
    BY <1>3 DEF MosaicWindow
<1>. HIDE DEF box, world
<1>5. Hugs(0, world, Side, x0, x1 - x0, <<box.minX * Side, box.maxX * Side>>)
    BY <1>1, <1>2, <1>3, EdgesHug
<1>6. Hugs(0, world, Side, y0, y1 - y0, <<box.minY * Side, box.maxY * Side>>)
    BY <1>1, <1>2, <1>3, EdgesHug
<1>7. ASSUME Zoom > 0, request.ts = Nominal, (box.minX * Side) % world = 0
      PROVE  x1 - x0 <= request.maxPx
    <2>1. ZoomFits(request.size, world, Zoom, request.maxPx, Nominal)
        BY <1>1, <1>2, <1>7, ZoomPicked DEF Zoom, world
    <2>2. Side = 2^Zoom * Nominal /\ Nominal \in Nat \ {0}
        BY <1>7, NominalAssumption DEF Side
    <2>. QED BY <1>1, <1>2, <1>3, <1>7, <2>1, <2>2, MosaicWithin
<1>. QED BY <1>4, <1>5, <1>6, <1>7 DEF box, world

\* The window of a box on a grid of larger pixels, by its columns and rows.
LEMMA WindowSpans ==
    ASSUME NEW g \in Grids, NEW lg, NEW W \in Nat \ {0}, NEW H \in Nat \ {0}, NEW k \in Nat \ {0},
           lg.originX = g.originX, lg.originY = g.originY,
           lg.scaleX = g.scaleX * k, lg.scaleY = g.scaleY * k,
           NEW box \in Boxes,
           NEW w, w = Window(lg, CeilDiv(W, k), CeilDiv(H, k), box)
    PROVE  LET columns == Common(g.originX, g.scaleX, W, box.minX, box.maxX)
               rows == Common(-g.originY, g.scaleY, H, -box.maxY, -box.minY)
           IN  /\ w.ok =>
                    /\ Hugs(g.originX, lg.scaleX, CeilDiv(W, k), w.x0, w.w, columns)
                    /\ Hugs(-g.originY, lg.scaleY, CeilDiv(H, k), w.y0, w.h, rows)
               /\ g.scaleX > 0 /\ columns[1] < columns[2] /\ rows[1] < rows[2] => w.ok
<1>. DEFINE columns == Common(g.originX, g.scaleX, W, box.minX, box.maxX)
            rows == Common(-g.originY, g.scaleY, H, -box.maxY, -box.minY)
            sx == Span(g.originX, g.scaleX * k, CeilDiv(W, k), box.minX, box.maxX)
            sy == Span(-g.originY, g.scaleY * k, CeilDiv(H, k), -box.maxY, -box.minY)
<1>1. /\ g.originX \in Int /\ g.originY \in Int /\ g.scaleX \in Int /\ g.scaleY \in Int
      /\ box.minX \in Int /\ box.maxX \in Int /\ box.minY \in Int /\ box.maxY \in Int
    BY DEF Grids, Boxes
<1>2. w = IF lg.scaleX <= 0 \/ lg.scaleY <= 0 THEN NoWindow
          ELSE IF Empty(sx) \/ Empty(sy) THEN NoWindow
          ELSE [ok |-> TRUE, x0 |-> sx.from, y0 |-> sy.from,
                w |-> sx.to - sx.from, h |-> sy.to - sy.from]
    BY DEF Window
<1>3. (g.scaleX > 0 <=> lg.scaleX > 0) /\ (g.scaleY > 0 <=> lg.scaleY > 0)
    <2>1. \A a \in Int : a > 0 <=> a * k > 0
        <3>1. TAKE a \in Int
        <3>2. 0 < a <=> 0 * k < a * k
            BY <1>1, Products
        <3>. QED BY <1>1, <3>2
    <2>. QED BY <1>1, <2>1
<1>4. ASSUME g.scaleX > 0, g.scaleY > 0
      PROVE  /\ sx.from \in Nat /\ sx.to \in Int /\ sy.from \in Nat /\ sy.to \in Int
             /\ columns[1] < columns[2] => sx.from < sx.to
             /\ rows[1] < rows[2] => sy.from < sy.to
             /\ sx.from < sx.to =>
                    Hugs(g.originX, g.scaleX * k, CeilDiv(W, k), sx.from, sx.to - sx.from, columns)
             /\ sy.from < sy.to =>
                    Hugs(-g.originY, g.scaleY * k, CeilDiv(H, k), sy.from, sy.to - sy.from, rows)
    <2>1. /\ g.scaleX \in Nat \ {0} /\ g.scaleY \in Nat \ {0} /\ W \in Nat /\ H \in Nat
          /\ -g.originY \in Int /\ -box.maxY \in Int /\ -box.minY \in Int
        BY <1>1, <1>4
    <2>2. /\ sx.from \in Nat /\ sx.to \in Int
          /\ columns[1] < columns[2] => sx.from < sx.to
          /\ sx.from < sx.to =>
                Hugs(g.originX, g.scaleX * k, CeilDiv(W, k), sx.from, sx.to - sx.from, columns)
        BY <1>1, <2>1, SpanEnds
    <2>3. /\ sy.from \in Nat /\ sy.to \in Int
          /\ rows[1] < rows[2] => sy.from < sy.to
          /\ sy.from < sy.to =>
                Hugs(-g.originY, g.scaleY * k, CeilDiv(H, k), sy.from, sy.to - sy.from, rows)
        BY <1>1, <2>1, SpanEnds
    <2>. QED BY <2>2, <2>3
<1>5. rows[1] < rows[2] => g.scaleY > 0
    <2>1. SUFFICES ASSUME rows[1] < rows[2], ~(g.scaleY > 0) PROVE FALSE
        OBVIOUS
    <2>2. H * g.scaleY <= 0 /\ H * g.scaleY \in Int
        <3>. DEFINE m == -g.scaleY
        <3>1. m \in Nat /\ H \in Nat
            BY <1>1, <2>1
        <3>2. H * m >= 0 /\ H * m \in Int
            <4>. HIDE DEF m
            <4>. QED BY <3>1
        <3>3. H * g.scaleY = -(H * m)
            BY <1>1
        <3>. QED BY <3>2, <3>3
    <2>. DEFINE hs == H * g.scaleY
    <2>3. rows[1] = Larger(-box.maxY, -g.originY) /\ rows[2] = Smaller(-box.minY, -g.originY + hs)
        BY DEF Common
    <2>4. hs \in Int /\ hs <= 0
        BY <2>2
    <2>. HIDE DEF hs, rows
    <2>. QED BY <1>1, <2>1, <2>3, <2>4 DEF Larger, Smaller
<1>. HIDE DEF sx, sy, columns, rows
<1>6. ASSUME w.ok
      PROVE  /\ Hugs(g.originX, lg.scaleX, CeilDiv(W, k), w.x0, w.w, columns)
             /\ Hugs(-g.originY, lg.scaleY, CeilDiv(H, k), w.y0, w.h, rows)
    <2>1. /\ ~(lg.scaleX <= 0) /\ ~(lg.scaleY <= 0) /\ ~Empty(sx) /\ ~Empty(sy)
          /\ w.x0 = sx.from /\ w.w = sx.to - sx.from /\ w.y0 = sy.from /\ w.h = sy.to - sy.from
        BY <1>2, <1>6 DEF NoWindow
    <2>2. g.scaleX > 0 /\ g.scaleY > 0
        <3>1. lg.scaleX \in Int /\ lg.scaleY \in Int
            BY <1>1
        <3>. QED BY <1>3, <2>1, <3>1
    <2>3. sx.from < sx.to /\ sy.from < sy.to
        BY <1>4, <2>1, <2>2 DEF Empty
    <2>. QED BY <1>1, <1>4, <2>1, <2>2, <2>3
<1>7. ASSUME g.scaleX > 0, columns[1] < columns[2], rows[1] < rows[2]
      PROVE  w.ok
    <2>1. g.scaleY > 0 /\ sx.from < sx.to /\ sy.from < sy.to
        BY <1>4, <1>5, <1>7
    <2>2. ~(lg.scaleX <= 0) /\ ~(lg.scaleY <= 0) /\ ~Empty(sx) /\ ~Empty(sy)
        <3>1. lg.scaleX \in Int /\ lg.scaleY \in Int
            BY <1>1
        <3>. QED BY <1>3, <1>4, <1>7, <2>1, <3>1 DEF Empty
    <2>. QED BY <1>2, <2>2
<1>. QED BY <1>6, <1>7 DEF columns, rows

\* The window of a level whose size is what its factor says.
LEMMA LevelSpans ==
    ASSUME NEW f, Whole(f), Regular(f), NEW i \in DOMAIN f.levels, NEW box \in Boxes
    PROVE  LET g == f.grid
               d == f.levels[i]
               lg == LevelGrid(f, i)
               w == LevelWindow(f, i, box)
               columns == Common(g.originX, g.scaleX, f.levels[1].width, box.minX, box.maxX)
               rows == Common(-g.originY, g.scaleY, f.levels[1].height, -box.maxY, -box.minY)
           IN  /\ w.ok =>
                    /\ Hugs(g.originX, lg.scaleX, d.width, w.x0, w.w, columns)
                    /\ Hugs(-g.originY, lg.scaleY, d.height, w.y0, w.h, rows)
               /\ g.scaleX > 0 /\ columns[1] < columns[2] /\ rows[1] < rows[2] => w.ok
<1>. DEFINE g == f.grid
            W == f.levels[1].width
            H == f.levels[1].height
            dw == f.levels[i].width
            dh == f.levels[i].height
            k == Decimation(f, i)
            lg == LevelGrid(f, i)
            w == LevelWindow(f, i, box)
<1>1. W \in Nat \ {0} /\ H \in Nat \ {0} /\ g \in Grids
    <2>1. 1 \in DOMAIN f.levels
        BY DEF Whole
    <2>2. Picture(f.levels[1])
        BY <2>1 DEF Whole
    <2>. QED BY <2>2 DEF Picture, Whole
<1>2. dw = CeilDiv(W, k) /\ dh = CeilDiv(H, k)
    BY DEF Regular
<1>3. /\ k \in Nat \ {0} /\ lg.originX = g.originX /\ lg.originY = g.originY
      /\ lg.scaleX = g.scaleX * k /\ lg.scaleY = g.scaleY * k
    BY LevelPlaced
<1>4. w = Window(lg, CeilDiv(W, k), CeilDiv(H, k), box)
    BY <1>2 DEF LevelWindow
<1>. HIDE DEF g, W, H, dw, dh, k, lg, w
<1>5. LET columns == Common(g.originX, g.scaleX, W, box.minX, box.maxX)
          rows == Common(-g.originY, g.scaleY, H, -box.maxY, -box.minY)
      IN  /\ w.ok =>
               /\ Hugs(g.originX, lg.scaleX, CeilDiv(W, k), w.x0, w.w, columns)
               /\ Hugs(-g.originY, lg.scaleY, CeilDiv(H, k), w.y0, w.h, rows)
          /\ g.scaleX > 0 /\ columns[1] < columns[2] /\ rows[1] < rows[2] => w.ok
    BY <1>1, <1>3, <1>4, WindowSpans
<1>. QED BY <1>2, <1>5 DEF g, W, H, dw, dh, lg, w

\* At full resolution every level has the size it should.
LEMMA FullSpans ==
    ASSUME NEW f, Whole(f), NEW box \in Boxes,
           NEW w, w = Window(f.grid, f.levels[1].width, f.levels[1].height, box),
           LET g == f.grid
               columns == Common(g.originX, g.scaleX, f.levels[1].width, box.minX, box.maxX)
               rows == Common(-g.originY, g.scaleY, f.levels[1].height, -box.maxY, -box.minY)
           IN  g.scaleX > 0 /\ columns[1] < columns[2] /\ rows[1] < rows[2]
    PROVE  w.ok
<1>. DEFINE g == f.grid
            W == f.levels[1].width
            H == f.levels[1].height
<1>1. W \in Nat \ {0} /\ H \in Nat \ {0} /\ g \in Grids
    <2>1. 1 \in DOMAIN f.levels
        BY DEF Whole
    <2>2. Picture(f.levels[1])
        BY <2>1 DEF Whole
    <2>. QED BY <2>2 DEF Picture, Whole
<1>. HIDE DEF g, W, H
<1>2. W = CeilDiv(W, 1) /\ H = CeilDiv(H, 1)
    <2>1. \A n \in Nat : CeilDiv(n, 1) = n
        <3>1. TAKE n \in Nat
        <3>. QED BY DEF CeilDiv
    <2>. QED BY <1>1, <2>1
<1>3. g.scaleX = g.scaleX * 1 /\ g.scaleY = g.scaleY * 1 /\ 1 \in Nat \ {0}
    BY <1>1 DEF Grids
<1>4. w = Window(g, CeilDiv(W, 1), CeilDiv(H, 1), box)
    BY <1>2 DEF g, W, H
<1>5. LET columns == Common(g.originX, g.scaleX, W, box.minX, box.maxX)
          rows == Common(-g.originY, g.scaleY, H, -box.maxY, -box.minY)
      IN  g.scaleX > 0 /\ columns[1] < columns[2] /\ rows[1] < rows[2] => w.ok
    BY <1>1, <1>3, <1>4, WindowSpans
<1>. QED BY <1>5 DEF g, W, H

LEMMA OutputHolds ==
    ASSUME BuildInv
    PROVE  OutputHugsBox
<1>. DEFINE box == request.box
            f == Placing
            full == f.levels[1]
            g == f.grid
            d == f.levels[level]
            lg == LevelGrid(f, level)
            columns == Common(g.originX, g.scaleX, full.width, box.minX, box.maxX)
            rows == Common(-g.originY, g.scaleY, full.height, -box.maxY, -box.minY)
            whole == Window(g, full.width, full.height, box)
            asked == \E i \in DOMAIN f.levels : FitsLevel(f, i, request.maxPx, whole.w, whole.h)
<1>1. request.box \in Boxes /\ request.maxPx \in Int /\ BuildTypes
    BY CaseTypes DEF BuildInv
<1>2. ASSUME Built, request.kind = "tiles"
      PROVE  /\ Hugs(0, request.world, Side, win.x0, win.w, <<box.minX * Side, box.maxX * Side>>)
             /\ Hugs(0, request.world, Side, win.y0, win.h, <<box.minY * Side, box.maxY * Side>>)
             /\ Zoom > 0 /\ request.ts = Nominal /\ (box.minX * Side) % request.world = 0 =>
                    win.w <= request.maxPx
    BY <1>2, MosaicHugs DEF Built, Draws
<1>3. ASSUME Built, request.kind # "tiles", Regular(f)
      PROVE  /\ request.maxPx > 0 => \A i \in 1 .. level - 1 :
                    LET finer == LevelWindow(f, i, box)
                    IN  finer.w > request.maxPx \/ finer.h > request.maxPx
             /\ request.maxPx > 0 /\ asked =>
                    /\ whole.x0 % Decimation(f, level) = 0 => win.w <= request.maxPx
                    /\ whole.y0 % Decimation(f, level) = 0 => win.h <= request.maxPx
             /\ Hugs(g.originX, lg.scaleX, d.width, win.x0, win.w, columns)
             /\ Hugs(-g.originY, lg.scaleY, d.height, win.y0, win.h, rows)
    <2>1. Reads
        BY <1>3 DEF Reads, Built
    <2>2. AreOpen /\ Chosen
        BY <2>1 DEF BuildInv, LevelInv
    <2>3. Whole(f)
        BY <1>1, <2>2, PlacingWhole DEF BuildInv
    <2>4. level \in DOMAIN f.levels
        BY <2>1, LevelSound
    <2>5. /\ whole.ok /\ level = PickLevel(f, request.maxPx, whole.w, whole.h)
          /\ win = LevelWindow(f, level, box) /\ win.ok
        BY <2>2 DEF Chosen, FullWindow, LevelOf
    <2>6. /\ Hugs(g.originX, lg.scaleX, d.width, win.x0, win.w, columns)
          /\ Hugs(-g.originY, lg.scaleY, d.height, win.y0, win.h, rows)
        BY <1>1, <1>3, <2>3, <2>4, <2>5, LevelSpans
    <2>7. /\ \A i \in DOMAIN f.levels :
                /\ f.levels[i].width \in Nat \ {0} /\ f.levels[i].height \in Nat \ {0}
                /\ f.levels[i].width = CeilDiv(full.width, Decimation(f, i))
                /\ f.levels[i].height = CeilDiv(full.height, Decimation(f, i))
          /\ g \in Grids /\ 1 \in DOMAIN f.levels
          /\ DOMAIN f.levels = 1 .. Len(f.levels) /\ Len(f.levels) \in Nat
        <3>1. /\ g \in Grids /\ 1 \in DOMAIN f.levels
              /\ DOMAIN f.levels = 1 .. Len(f.levels) /\ Len(f.levels) \in Nat
            BY <2>3 DEF Whole
        <3>2. ASSUME NEW i \in DOMAIN f.levels
              PROVE  /\ f.levels[i].width \in Nat \ {0} /\ f.levels[i].height \in Nat \ {0}
                     /\ f.levels[i].width = CeilDiv(full.width, Decimation(f, i))
                     /\ f.levels[i].height = CeilDiv(full.height, Decimation(f, i))
            <4>1. Picture(f.levels[i])
                BY <2>3, <3>2 DEF Whole
            <4>2. f.levels[i].width \in Nat \ {0} /\ f.levels[i].height \in Nat \ {0}
                BY <4>1 DEF Picture
            <4>3. /\ f.levels[i].width = CeilDiv(full.width, Decimation(f, i))
                  /\ f.levels[i].height = CeilDiv(full.height, Decimation(f, i))
                <5>. HIDE DEF f
                <5>. QED BY <1>3, <3>2 DEF Regular
            <4>. QED BY <4>2, <4>3
        <3>. QED BY <3>1, <3>2
    <2>8. ASSUME request.maxPx > 0
          PROVE  /\ FitsLevel(f, level, request.maxPx, whole.w, whole.h) \/ level = Len(f.levels)
                 /\ \A j \in 1 .. level - 1 : ~FitsLevel(f, j, request.maxPx, whole.w, whole.h)
        <3>. HIDE DEF f, whole
        <3>. QED BY <1>1, <2>3, <2>5, <2>8, LevelPicked
    <2>9. ASSUME request.maxPx > 0, NEW i \in 1 .. level - 1
          PROVE  LET finer == LevelWindow(f, i, box)
                 IN  finer.w > request.maxPx \/ finer.h > request.maxPx
        <3>1. i \in DOMAIN f.levels /\ request.maxPx \in Nat
            BY <1>1, <2>4, <2>7, <2>9
        <3>2. ~FitsLevel(f, i, request.maxPx, whole.w, whole.h)
            BY <2>8, <2>9
        <3>3. SizeTells(f, i, request.maxPx, whole, LevelWindow(f, i, box))
            <4>. HIDE DEF f
            <4>. QED BY <1>1, <2>5, <2>7, <3>1, LevelSizes
        <3>. HIDE DEF f, whole
        <3>. QED BY <3>2, <3>3 DEF SizeTells
    <2>10. ASSUME request.maxPx > 0, asked
          PROVE  /\ whole.x0 % Decimation(f, level) = 0 => win.w <= request.maxPx
                 /\ whole.y0 % Decimation(f, level) = 0 => win.h <= request.maxPx
        <3>1. FitsLevel(f, level, request.maxPx, whole.w, whole.h)
            <4>1. PICK i \in DOMAIN f.levels : FitsLevel(f, i, request.maxPx, whole.w, whole.h)
                BY <2>10
            <4>. HIDE DEF f, whole
            <4>. QED BY <2>4, <2>7, <2>8, <2>10, <4>1
        <3>2. request.maxPx \in Nat
            BY <1>1, <2>10
        <3>3. SizeTells(f, level, request.maxPx, whole, win)
            <4>. HIDE DEF f
            <4>. QED BY <1>1, <2>4, <2>5, <2>7, <3>2, LevelSizes
        <3>. HIDE DEF f, whole
        <3>. QED BY <3>1, <3>3 DEF SizeTells
    <2>. QED BY <2>6, <2>9, <2>10
<1>4. ASSUME phase = "error", request.kind # "tiles"
      PROVE  /\ why # "bounds"
             /\ why = "outside" /\ Regular(f) =>
                    g.scaleX <= 0 \/ columns[1] >= columns[2] \/ rows[1] >= rows[2]
    <2>1. /\ why # "bounds"
          /\ why = "outside" =>
                /\ AreOpen
                /\ ~FullWindow(Placing).ok \/ ~LevelWindow(Placing, LevelOf(Placing), request.box).ok
        BY <1>4 DEF BuildInv, OutsideInv
    <2>2. SUFFICES ASSUME why = "outside", Regular(f)
                   PROVE  g.scaleX <= 0 \/ columns[1] >= columns[2] \/ rows[1] >= rows[2]
        BY <2>1
    <2>3. Whole(f)
        BY <1>1, <2>1, <2>2, PlacingWhole DEF BuildInv
    <2>4. LevelOf(f) \in DOMAIN f.levels
        BY <1>1, <2>3, LevelPicked DEF LevelOf
    <2>5. ~(g.scaleX > 0 /\ columns[1] < columns[2] /\ rows[1] < rows[2])
        <3>1. CASE ~whole.ok
            BY <1>1, <2>3, <3>1, FullSpans
        <3>2. CASE ~LevelWindow(f, LevelOf(f), box).ok
            <4>. DEFINE i == LevelOf(f)
            <4>1. i \in DOMAIN f.levels /\ ~LevelWindow(f, i, box).ok
                BY <2>4, <3>2
            <4>. HIDE DEF i
            <4>. QED BY <1>1, <2>2, <2>3, <4>1, LevelSpans
        <3>. QED BY <2>1, <2>2, <3>1, <3>2 DEF FullWindow
    <2>6. /\ g.scaleX \in Int /\ columns[1] \in Int /\ columns[2] \in Int
          /\ rows[1] \in Int /\ rows[2] \in Int
        <3>1. g \in Grids /\ full.width \in Nat /\ full.height \in Nat
            BY <2>3 DEF Whole, Picture
        <3>2. \A o, s, l, h \in Int, n \in Nat :
                Common(o, s, n, l, h)[1] \in Int /\ Common(o, s, n, l, h)[2] \in Int
            <4>1. TAKE o, s, l, h \in Int, n \in Nat
            <4>. DEFINE p == n * s
            <4>2. p \in Int
                OBVIOUS
            <4>3. Common(o, s, n, l, h)[1] = Larger(l, o) /\ Common(o, s, n, l, h)[2] = Smaller(h, o + p)
                BY DEF Common
            <4>. HIDE DEF p
            <4>. QED BY <4>2, <4>3 DEF Larger, Smaller
        <3>3. /\ g.originX \in Int /\ g.originY \in Int /\ g.scaleX \in Int /\ g.scaleY \in Int
              /\ box.minX \in Int /\ box.maxX \in Int /\ box.minY \in Int /\ box.maxY \in Int
            BY <1>1, <3>1 DEF Grids, Boxes
        <3>4. -g.originY \in Int /\ -box.maxY \in Int /\ -box.minY \in Int
            BY <3>3
        <3>. HIDE DEF g, full
        <3>. QED BY <3>1, <3>2, <3>3, <3>4
    <2>. QED BY <2>5, <2>6
<1>. QED BY <1>2, <1>3, <1>4 DEF OutputHugsBox

\* A product is the part of the box that the file or the map has, to less than a
\* pixel on each side, of the finest level that is not too large for the size
\* asked for, which the product keeps where it begins at the edge of a pixel; and
\* a build that finds its box outside the scene is right.  For files and boxes of
\* every size.
THEOREM OutputIsBox == Spec => []OutputHugsBox
BY BuildInvHolds, OutputHolds, PTL

-----------------------------------------------------------------------------
(* The product.                                                            *)

\* A quotient, of a number less a multiple of the divisor.
LEMMA FloorShifts ==
    ASSUME NEW a \in Int, NEW b \in Nat \ {0}, NEW k \in Int, NEW c, c = a - k * b
    PROVE  c \in Int /\ FloorDiv(c, b) = FloorDiv(a, b) - k
<1>. DEFINE q == FloorDiv(a, b)
            r == a - q * b
            p == q - k
<1>1. q \in Int /\ q * b <= a /\ a < q * b + b
    BY FloorIs
<1>2. q * b \in Int /\ k * b \in Int
    BY <1>1
<1>. HIDE DEF q
<1>3. r \in 0 .. b - 1 /\ p \in Int
    BY <1>1, <1>2
<1>4. c = p * b + r
    <2>1. p * b = q * b - k * b
        BY <1>1
    <2>. QED BY <1>2, <2>1
<1>5. c \in Int
    BY <1>2
<1>6. c \div b = p
    <2>. HIDE DEF r, p
    <2>. QED BY <1>3, <1>4, IndexParts
<1>. QED BY <1>5, <1>6 DEF FloorDiv, p, q

LEMMA CeilShifts ==
    ASSUME NEW a \in Int, NEW b \in Nat \ {0}, NEW k \in Int, NEW c, c = a - k * b
    PROVE  c \in Int /\ CeilDiv(c, b) = CeilDiv(a, b) - k
<1>. DEFINE m == -k
            e == -a
            d == -c
            kb == k * b
<1>1. kb \in Int /\ m * b = -kb
    OBVIOUS
<1>2. d = e - m * b /\ m \in Int /\ e \in Int /\ c \in Int
    BY <1>1
<1>3. FloorDiv(d, b) = FloorDiv(e, b) - m
    <2>. HIDE DEF d, e, m
    <2>. QED BY <1>2, FloorShifts
<1>4. FloorDiv(e, b) \in Int
    BY <1>2, FloorIs
<1>. DEFINE x == (-a) \div b
            y == (-c) \div b
<1>5. y = x - m /\ x \in Int
    BY <1>3, <1>4 DEF FloorDiv
<1>6. CeilDiv(c, b) = -y /\ CeilDiv(a, b) = -x
    BY DEF CeilDiv
<1>. HIDE DEF x, y
<1>. QED BY <1>2, <1>5, <1>6

\* On the grid of its own pixels, a range is all of them.
LEMMA SpanOfItself ==
    ASSUME NEW origin \in Int, NEW scale \in Nat \ {0}, NEW n \in Nat, NEW lo \in Int, NEW hi \in Int,
           NEW s, s = Span(origin, scale, n, lo, hi)
    PROVE  /\ s.from \in Int /\ s.to \in Int
           /\ Span(origin + s.from * scale, scale, s.to - s.from, lo, hi) =
                [from |-> 0, to |-> s.to - s.from]
<1>. DEFINE low == lo - origin
            high == hi - origin
            F == FloorDiv(low, scale)
            C == CeilDiv(high, scale)
            from == s.from
            to == s.to
            o == origin + from * scale
            lowAfter == lo - o
            highAfter == hi - o
<1>1. low \in Int /\ high \in Int
    OBVIOUS
<1>2. F \in Int /\ C \in Int
    <2>. HIDE DEF low, high
    <2>. QED BY <1>1, FloorIs, CeilIs
<1>3. from = Larger(F, 0) /\ to = Smaller(C, n)
    BY DEF Span
<1>. HIDE DEF F, C, from, to
<1>4. from \in Int /\ to \in Int /\ F <= from /\ to <= C /\ from >= 0
    BY <1>2, <1>3 DEF Larger, Smaller
<1>5. from * scale \in Int
    BY <1>4
<1>6. lowAfter = low - from * scale /\ highAfter = high - from * scale
    BY <1>5
<1>. HIDE DEF low, high, lowAfter, highAfter
<1>7. FloorDiv(lowAfter, scale) = F - from
    BY <1>1, <1>4, <1>6, FloorShifts DEF F
<1>8. CeilDiv(highAfter, scale) = C - from
    BY <1>1, <1>4, <1>6, CeilShifts DEF C
<1>9. Larger(F - from, 0) = 0 /\ Smaller(C - from, to - from) = to - from
    BY <1>2, <1>4 DEF Larger, Smaller
<1>10. Span(o, scale, to - from, lo, hi) = [from |-> 0, to |-> to - from]
    <2>1. Span(o, scale, to - from, lo, hi) =
            [from |-> Larger(FloorDiv(lowAfter, scale), 0),
             to |-> Smaller(CeilDiv(highAfter, scale), to - from)]
        BY DEF Span, lowAfter, highAfter
    <2>. QED BY <1>7, <1>8, <1>9, <2>1
<1>. QED BY <1>4, <1>10 DEF from, to

\* On the grid that a window's own origin makes, the box is all of the window.
LEMMA WindowOfItself ==
    ASSUME NEW g \in Grids, NEW width \in Nat, NEW height \in Nat, NEW box \in Boxes,
           NEW w, w = Window(g, width, height, box), w.ok,
           NEW h, h = [originX |-> g.originX + w.x0 * g.scaleX, originY |-> g.originY - w.y0 * g.scaleY,
                       scaleX |-> g.scaleX, scaleY |-> g.scaleY]
    PROVE  Window(h, w.w, w.h, box) = [ok |-> TRUE, x0 |-> 0, y0 |-> 0, w |-> w.w, h |-> w.h]
<1>. DEFINE cols == Span(g.originX, g.scaleX, width, box.minX, box.maxX)
            rows == Span(-g.originY, g.scaleY, height, -box.maxY, -box.minY)
            sx == g.scaleX
            sy == g.scaleY
            ox == g.originX
            oy == g.originY
            top == -oy
            south == -box.maxY
            north == -box.minY
<1>1. /\ ox \in Int /\ oy \in Int /\ sx \in Int /\ sy \in Int
      /\ box.minX \in Int /\ box.maxX \in Int /\ south \in Int /\ north \in Int /\ top \in Int
    BY DEF Grids, Boxes
<1>2. w = IF sx <= 0 \/ sy <= 0 THEN NoWindow
          ELSE IF Empty(cols) \/ Empty(rows) THEN NoWindow
          ELSE [ok |-> TRUE, x0 |-> cols.from, y0 |-> rows.from,
                w |-> cols.to - cols.from, h |-> rows.to - rows.from]
    BY DEF Window
<1>3. sx \in Nat \ {0} /\ sy \in Nat \ {0} /\ ~Empty(cols) /\ ~Empty(rows)
    <2>. HIDE DEF cols, rows, sx, sy
    <2>. QED BY <1>1, <1>2 DEF NoWindow
<1>4. w.x0 = cols.from /\ w.y0 = rows.from /\ w.w = cols.to - cols.from /\ w.h = rows.to - rows.from
    <2>. HIDE DEF cols, rows, sx, sy
    <2>. QED BY <1>2, <1>3
<1>5. h = [originX |-> ox + w.x0 * sx, originY |-> oy - w.y0 * sy, scaleX |-> sx, scaleY |-> sy]
    OBVIOUS
<1>6. /\ cols.from \in Int /\ cols.to \in Int
      /\ Span(ox + cols.from * sx, sx, cols.to - cols.from, box.minX, box.maxX) =
            [from |-> 0, to |-> cols.to - cols.from]
    <2>. DEFINE lo == box.minX
                hi == box.maxX
    <2>1. cols = Span(ox, sx, width, lo, hi) /\ lo \in Int /\ hi \in Int
        BY <1>1
    <2>. HIDE DEF cols, ox, sx, lo, hi
    <2>2. /\ cols.from \in Int /\ cols.to \in Int
          /\ Span(ox + cols.from * sx, sx, cols.to - cols.from, lo, hi) =
                [from |-> 0, to |-> cols.to - cols.from]
        BY <1>1, <1>3, <2>1, SpanOfItself
    <2>. QED BY <2>2 DEF lo, hi
<1>7. /\ rows.from \in Int /\ rows.to \in Int
      /\ Span(top + rows.from * sy, sy, rows.to - rows.from, south, north) =
            [from |-> 0, to |-> rows.to - rows.from]
    <2>1. rows = Span(top, sy, height, south, north)
        OBVIOUS
    <2>. HIDE DEF rows, top, sy, south, north
    <2>. QED BY <1>1, <1>3, <2>1, SpanOfItself
<1>8. -(oy - w.y0 * sy) = top + rows.from * sy
    <2>1. rows.from * sy \in Int
        BY <1>1, <1>7
    <2>. HIDE DEF rows, sy
    <2>. QED BY <1>1, <1>4, <2>1
<1>9. cols.to - cols.from > 0 /\ rows.to - rows.from > 0
    <2>. HIDE DEF cols, rows
    <2>. QED BY <1>3, <1>6, <1>7 DEF Empty
<1>. DEFINE a == [from |-> 0, to |-> cols.to - cols.from]
            b == [from |-> 0, to |-> rows.to - rows.from]
<1>10. Window(h, w.w, w.h, box) =
        IF sx <= 0 \/ sy <= 0 THEN NoWindow
        ELSE IF Empty(a) \/ Empty(b) THEN NoWindow
        ELSE [ok |-> TRUE, x0 |-> a.from, y0 |-> b.from, w |-> a.to - a.from, h |-> b.to - b.from]
    <2>. DEFINE x0 == w.x0 * sx
                y0 == w.y0 * sy
    <2>1. /\ h.originX = ox + x0 /\ -h.originY = -(oy - y0)
          /\ h.scaleX = sx /\ h.scaleY = sy
        <3>1. h = [originX |-> ox + x0, originY |-> oy - y0, scaleX |-> sx, scaleY |-> sy]
            BY <1>5
        <3>. HIDE DEF x0, y0, ox, oy, sx, sy
        <3>. QED BY <3>1
    <2>2. /\ Span(h.originX, h.scaleX, w.w, box.minX, box.maxX) = a
          /\ Span(-h.originY, h.scaleY, w.h, -box.maxY, -box.minY) = b
        <3>. HIDE DEF cols, rows, ox, oy, sx, sy, top
        <3>. QED BY <1>4, <1>6, <1>7, <1>8, <2>1 DEF x0, y0
    <2>. HIDE DEF a, b, x0, y0, sx, sy
    <2>. QED BY <2>1, <2>2 DEF Window
<1>11. ~Empty(a) /\ ~Empty(b)
    <2>. HIDE DEF cols, rows
    <2>. QED BY <1>6, <1>7, <1>9 DEF Empty
<1>. DEFINE cw == cols.to - cols.from
            rh == rows.to - rows.from
<1>12. cw \in Int /\ rh \in Int /\ cw - 0 = cw /\ rh - 0 = rh
    <2>. HIDE DEF cols, rows
    <2>. QED BY <1>6, <1>7
<1>. HIDE DEF cols, rows, sx, sy
<1>13. Window(h, w.w, w.h, box) = [ok |-> TRUE, x0 |-> 0, y0 |-> 0, w |-> cw - 0, h |-> rh - 0]
    <2>. QED BY <1>3, <1>10, <1>11
<1>. QED BY <1>4, <1>12, <1>13

LEMMA ProductPlaced ==
    ASSUME BuildInv, phase = "done", request.kind # "tiles"
    PROVE  BoxIsWhole
<1>1. Reads
    BY DEF Reads
<1>. DEFINE lg == LevelGrid(Placing, level)
            d == Placing.levels[level]
<1>2. Whole(Placing) /\ request.box \in Boxes
    BY <1>1, PlacingWhole, CaseTypes DEF BuildInv, LevelInv
<1>3. level \in DOMAIN Placing.levels /\ Picture(d)
    BY <1>1, LevelSound
<1>4. lg \in Grids
    BY <1>2, <1>3, LevelPlaced
<1>5. win = Window(lg, d.width, d.height, request.box) /\ win.ok
    BY <1>1 DEF BuildInv, LevelInv, Chosen, LevelWindow
<1>6. d.width \in Nat /\ d.height \in Nat
    BY <1>3 DEF Picture
<1>7. ProductGrid = [lg EXCEPT !.originX = @ + win.x0 * lg.scaleX, !.originY = @ - win.y0 * lg.scaleY]
    BY DEF ProductGrid
<1>8. ProductGrid = [originX |-> lg.originX + win.x0 * lg.scaleX,
                     originY |-> lg.originY - win.y0 * lg.scaleY,
                     scaleX |-> lg.scaleX, scaleY |-> lg.scaleY]
    <2>. HIDE DEF lg
    <2>. QED BY <1>4, <1>7 DEF Grids
<1>. DEFINE width == d.width
            height == d.height
<1>9. /\ width \in Nat /\ height \in Nat
      /\ win = Window(lg, width, height, request.box)
    BY <1>5, <1>6
<1>. HIDE DEF lg, d, width, height
<1>10. Window(ProductGrid, win.w, win.h, request.box) =
        [ok |-> TRUE, x0 |-> 0, y0 |-> 0, w |-> win.w, h |-> win.h]
    BY <1>2, <1>4, <1>5, <1>8, <1>9, WindowOfItself
<1>. QED BY <1>10 DEF BoxIsWhole, AllOfIt

\* The box that was asked for, found again on the grid that a product carries,
\* is the whole product, for files and boxes of every size.
THEOREM ProductsArePlaced == Spec => [](phase = "done" /\ request.kind # "tiles" => BoxIsWhole)
BY BuildInvHolds, ProductPlaced, PTL

\* The strips of h rows: how many there are, and which rows each has.
LEMMA StripsCover ==
    ASSUME NEW h \in Nat \ {0}, NEW rps \in 1 .. h, NEW n, n = StripCount(h, rps)
    PROVE  /\ n \in Nat
           /\ \A y \in Nat : y < h => y \div rps \in 0 .. n - 1
           /\ \A i \in 1 .. n :
                /\ (i - 1) * rps \in Nat /\ (i - 1) * rps < h
                /\ Smaller(i * rps, h) - (i - 1) * rps = Smaller(rps, h - (i - 1) * rps)
<1>1. n = CeilDiv(h, rps) /\ h \in Int /\ rps \in Nat \ {0}
    BY DEF StripCount
<1>2. n \in Int /\ 0 < n
    <2>1. 0 * rps < h
        OBVIOUS
    <2>. QED BY <1>1, <2>1, CeilIs, CeilAbove
<1>3. ASSUME NEW y \in Nat, y < h PROVE y \div rps \in 0 .. n - 1
    <2>. DEFINE q == y \div rps
    <2>1. q \in Nat /\ q * rps <= y
        BY <1>1, TileOf
    <2>. HIDE DEF q
    <2>2. q * rps < h
        BY <1>1, <1>3, <2>1
    <2>3. q < n
        BY <1>1, <2>1, <2>2, CeilAbove
    <2>. QED BY <1>2, <2>1, <2>3 DEF q
<1>4. ASSUME NEW i \in 1 .. n
      PROVE  /\ (i - 1) * rps \in Nat /\ (i - 1) * rps < h
             /\ Smaller(i * rps, h) - (i - 1) * rps = Smaller(rps, h - (i - 1) * rps)
    <2>. DEFINE j == i - 1
                o == j * rps
    <2>1. j \in Nat /\ j < n
        BY <1>2
    <2>2. i * rps = o + rps
        BY <1>1, <1>2
    <2>. HIDE DEF j
    <2>3. o \in Nat /\ o < h
        BY <1>1, <2>1, CeilAbove
    <2>. HIDE DEF o
    <2>4. Smaller(o + rps, h) - o = Smaller(rps, h - o)
        BY <1>1, <2>3 DEF Smaller
    <2>. QED BY <2>2, <2>3, <2>4 DEF o, j
<1>. QED BY <1>2, <1>3, <1>4

\* The length of a sequence that a function makes.
LEMMA LengthIs ==
    ASSUME NEW m \in Nat, NEW s, DOMAIN s = 1 .. m, s = [p \in 1 .. m |-> s[p]]
    PROVE  Len(s) = m
<1>. DEFINE S == {s[p] : p \in 1 .. m}
<1>1. s \in [1 .. m -> S]
    OBVIOUS
<1>2. s \in Seq(S)
    BY <1>1
<1>. QED BY <1>2

\* What the product of a build that is done holds.
LEMMA ProductHolds ==
    ASSUME BuildInv, phase = "done", request.kind # "tiles", request.format = "gtiff"
    PROVE  /\ win \in Windows
           /\ DOMAIN Values = 0 .. (win.h * win.w) * Looks.spp - 1
           /\ Looks.spp \in Nat \ {0} /\ Looks.bits \in {8, 32}
<1>1. Reads
    BY DEF Reads
<1>2. Writable /\ Filled(Level, win, raster, {}) /\ (TwoBands => bands # <<>>)
    BY <1>1 DEF BuildInv, LevelInv
<1>3. Level.spp = Looks.spp
    <2>1. CASE TwoBands
        <3>1. red.levels[level].spp = 1 /\ Opened.levels[level].spp = 1
            BY <1>2, <2>1 DEF Writable
        <3>. QED BY <2>1, <3>1 DEF Level, Reading, Looks
    <2>2. CASE ~TwoBands
        BY <1>2, <2>2 DEF Writable, Looks
    <2>. QED BY <2>1, <2>2
<1>4. DOMAIN Values = DOMAIN raster
    BY DEF Values
<1>5. win \in Windows
    BY <1>1, LevelSound DEF Inside
<1>. QED BY <1>2, <1>3, <1>4, <1>5 DEF Filled, Looks

\* A sample of a strip is the one that a copy of it belongs to.
LEMMA StripPlace ==
    ASSUME NEW w \in Nat \ {0}, NEW spp \in Nat \ {0}, NEW o \in Nat,
           NEW x \in Int, NEW y \in Int, NEW b \in Int
    PROVE  o * (spp * w) + (((y - o) * w + x) * spp + b) = (y * w + x) * spp + b
<1>. DEFINE z == y - o
            ow == o * w
            zw == z * w
<1>1. z \in Int /\ ow \in Int /\ zw \in Int /\ y * w = zw + ow
    OBVIOUS
<1>2. o * (spp * w) = ow * spp
    OBVIOUS
<1>. HIDE DEF z, ow, zw
<1>3. (zw + x) * spp = zw * spp + x * spp /\ (zw + ow + x) * spp = zw * spp + ow * spp + x * spp
    BY <1>1
<1>4. zw * spp \in Int /\ ow * spp \in Int /\ x * spp \in Int
    BY <1>1
<1>5. o * (spp * w) + ((zw + x) * spp + b) = ((zw + ow) + x) * spp + b
    BY <1>1, <1>2, <1>3, <1>4
<1>. QED BY <1>1, <1>5 DEF z, zw

\* The cut of a product into strips.
LEMMA ProductIsCut ==
    ASSUME BuildInv, phase = "done", request.kind # "tiles", request.format = "gtiff",
           NEW row, row = Looks.spp * win.w, NEW n, n = StripCount(win.h, Rps)
    PROVE  /\ win.w \in Nat \ {0} /\ win.h \in Nat \ {0}
           /\ row \in Nat \ {0} /\ RowSamples = row
           /\ Rps \in 1 .. win.h
           /\ n \in Nat
           /\ \A y \in Nat : y < win.h => y \div Rps \in 0 .. n - 1
           /\ \A i \in 1 .. n :
                /\ (i - 1) * Rps \in Nat /\ (i - 1) * Rps < win.h
                /\ Smaller(i * Rps, win.h) - (i - 1) * Rps = Smaller(Rps, win.h - (i - 1) * Rps)
           /\ ProductStrips =
                [i \in 1 .. n |->
                    [p \in 1 .. (Smaller(i * Rps, win.h) - (i - 1) * Rps) * row |->
                        Values[(i - 1) * Rps * row + p - 1]]]
<1>. DEFINE w == win.w
            h == win.h
            spp == Looks.spp
            rps == Rps
<1>1. win \in Windows /\ spp \in Nat \ {0} /\ Looks.bits \in {8, 32}
    BY ProductHolds
<1>2. w \in Nat \ {0} /\ h \in Nat \ {0}
    BY <1>1 DEF Windows
<1>3. row \in Nat \ {0} /\ RowSamples = row
    <2>1. 0 * w < spp * w
        BY <1>1, <1>2, Products
    <2>. QED BY <1>1, <1>2, <2>1 DEF RowSamples
<1>4. rps \in 1 .. h
    <2>. DEFINE bytes == Looks.bits \div 8
                k == StripBytes \div (row * bytes)
    <2>1. bytes \in Nat \ {0}
        BY <1>1
    <2>2. row * bytes \in Nat \ {0}
        <3>. HIDE DEF bytes
        <3>1. 0 * bytes < row * bytes
            BY <1>3, <2>1, Products
        <3>. QED BY <1>3, <2>1, <3>1
    <2>3. k \in Int
        <3>. HIDE DEF bytes
        <3>. QED BY <2>2, StripBytesAssumption
    <2>4. rps = Smaller(IF k < 1 THEN 1 ELSE k, h)
        BY <1>3 DEF Rps, RowsPerStrip
    <2>. HIDE DEF k, rps, h
    <2>. QED BY <1>2, <2>3, <2>4 DEF Smaller
<1>5. /\ n \in Nat
      /\ \A y \in Nat : y < h => y \div rps \in 0 .. n - 1
      /\ \A i \in 1 .. n :
            /\ (i - 1) * rps \in Nat /\ (i - 1) * rps < h
            /\ Smaller(i * rps, h) - (i - 1) * rps = Smaller(rps, h - (i - 1) * rps)
    <2>1. n = StripCount(h, rps)
        OBVIOUS
    <2>. HIDE DEF h, rps
    <2>. QED BY <1>2, <1>4, <2>1, StripsCover
<1>6. ProductStrips =
        [i \in 1 .. n |->
            [p \in 1 .. (Smaller(i * rps, h) - (i - 1) * rps) * row |->
                Values[(i - 1) * rps * row + p - 1]]]
    BY <1>3 DEF ProductStrips, StripRows
<1>. QED BY <1>2, <1>3, <1>4, <1>5, <1>6

\* A number that is small enough is what a LONG or a SHORT tells.
LEMMA UintIs ==
    ASSUME NEW k \in Nat
    PROVE  /\ Uint32(k) \in Nat /\ Uint32(k) <= k /\ (k < Longs => Uint32(k) = k)
           /\ k < Shorts => Uint16(k) = k
<1>1. Longs \in Nat \ {0} /\ Shorts \in Nat \ {0}
    BY WidthsAssumption
<1>2. ASSUME NEW m \in Nat \ {0}
      PROVE  k % m \in Nat /\ k % m <= k /\ (k < m => k % m = k)
    <2>. DEFINE q == k \div m
                r == k % m
    <2>1. r \in 0 .. m - 1 /\ q \in Nat /\ k = m * q + r
        OBVIOUS
    <2>2. CASE k < m
        <3>1. q = 0
            BY <2>2
        <3>. QED BY <2>1, <3>1
    <2>3. CASE ~(k < m)
        <3>1. r <= k
            BY <2>1, <2>3
        <3>. QED BY <2>1, <2>3, <3>1
    <2>. QED BY <2>2, <2>3
<1>. QED BY <1>1, <1>2 DEF Uint32, Uint16

LEMMA CeilBelow ==
    ASSUME NEW a \in Nat, NEW b \in Nat \ {0}
    PROVE  CeilDiv(a, b) <= a
<1>1. a <= a * b
    <2>. DEFINE c == b - 1
                ac == a * c
    <2>1. ac \in Nat /\ a * b = ac + a
        OBVIOUS
    <2>. HIDE DEF ac
    <2>. QED BY <2>1
<1>. DEFINE q == CeilDiv(a, b)
            ab == a * b
<1>2. q \in Int /\ (a < q <=> ab < a) /\ ab \in Int /\ a <= ab
    BY <1>1, CeilIs, CeilAbove
<1>. HIDE DEF q, ab
<1>3. q <= a
    BY <1>2
<1>. QED BY <1>3 DEF q

\* The tags of a product of less than 2^32 columns and rows tell its sizes.
LEMMA SidesAreTold ==
    ASSUME BuildInv, phase = "done", request.kind # "tiles", request.format = "gtiff",
           win.w < Longs, win.h < Longs,
           NEW n, n = StripCount(win.h, Rps)
    PROVE  Uint32(win.w) = win.w /\ Uint32(win.h) = win.h /\ Uint32(Rps) = Rps /\ Uint32(n) = n
<1>. DEFINE row == Looks.spp * win.w
            w == win.w
            h == win.h
            rps == Rps
<1>1. row = Looks.spp * win.w
    OBVIOUS
<1>. HIDE DEF row
<1>2. w \in Nat \ {0} /\ h \in Nat \ {0} /\ rps \in 1 .. h /\ n \in Nat
    BY <1>1, ProductIsCut
<1>3. n = CeilDiv(h, rps) /\ w < Longs /\ h < Longs
    BY DEF StripCount
<1>. HIDE DEF w, h, rps
<1>4. n <= h /\ rps \in Nat /\ rps <= h
    BY <1>2, <1>3, CeilBelow
<1>5. n < Longs /\ rps < Longs
    BY <1>2, <1>3, <1>4, WidthsAssumption
<1>6. Uint32(w) = w /\ Uint32(h) = h /\ Uint32(rps) = rps /\ Uint32(n) = n
    BY <1>2, <1>3, <1>4, <1>5, UintIs
<1>. QED BY <1>6 DEF w, h, rps

LEMMA ProductReadsBack ==
    ASSUME BuildInv, phase = "done", request.kind # "tiles", request.format = "gtiff",
           win.w < Longs, win.h < Longs
    PROVE  StripsReadBack(ProductStrips)
<1>. DEFINE strips == ProductStrips
            d == ProductImage(strips)
            values == Values
            w == win.w
            h == win.h
            spp == Looks.spp
            rps == Rps
            n == StripCount(h, rps)
            row == spp * w
            First(i) == (i - 1) * rps
            Copied(i) == Copies(AllOfIt, <<0, i - 1>>, w, Rows(d, i - 1), TileHeight(d), d.spp)
<1>1. /\ win \in Windows /\ DOMAIN values = 0 .. (h * w) * spp - 1
      /\ spp \in Nat \ {0} /\ Looks.bits \in {8, 32}
    BY ProductHolds
<1>2. /\ w \in Nat \ {0} /\ h \in Nat \ {0}
      /\ row \in Nat \ {0} /\ RowSamples = row /\ rps \in 1 .. h
    <2>1. row = Looks.spp * win.w /\ n = StripCount(win.h, Rps)
        OBVIOUS
    <2>. HIDE DEF row, n
    <2>. QED BY <2>1, ProductIsCut
<1>3. /\ n \in Nat
      /\ \A y \in Nat : y < h => y \div rps \in 0 .. n - 1
      /\ \A i \in 1 .. n :
            /\ First(i) \in Nat /\ First(i) < h
            /\ Smaller(i * rps, h) - First(i) = Smaller(rps, h - First(i))
    <2>. HIDE DEF h, rps
    <2>1. n = StripCount(h, rps)
        OBVIOUS
    <2>. HIDE DEF n
    <2>. QED BY <1>2, <2>1, StripsCover
<1>4. /\ TileHeight(d) = rps /\ d.spp = spp
      /\ \A i \in 1 .. n : Rows(d, i - 1) = Smaller(rps, h - First(i))
    <2>1. d.layout = "strips" /\ d.height = h /\ d.th = rps /\ d.spp = spp
        <3>1. n = StripCount(win.h, Rps)
            OBVIOUS
        <3>. HIDE DEF n
        <3>2. d.layout = "strips" /\ d.height = Uint32(win.h) /\ d.th = Uint32(Rps) /\ d.spp = spp
            BY DEF ProductImage
        <3>. HIDE DEF d
        <3>3. Uint32(win.h) = win.h /\ Uint32(Rps) = Rps
            BY <3>1, SidesAreTold
        <3>. QED BY <3>2, <3>3
    <2>. HIDE DEF d, h, rps, spp
    <2>2. TileHeight(d) = rps
        BY <1>2, <2>1 DEF TileHeight
    <2>3. \A i \in 1 .. n : Rows(d, i - 1) = Smaller(rps, h - First(i))
        BY <2>1, <2>2 DEF Rows
    <2>. QED BY <2>1, <2>2, <2>3
<1>5. /\ DOMAIN strips = 1 .. n
      /\ \A i \in 1 .. n :
            strips[i] = [p \in 1 .. (Smaller(i * rps, h) - First(i)) * row |->
                            values[First(i) * row + p - 1]]
    <2>. HIDE DEF row
    <2>. QED BY <1>2 DEF ProductStrips, StripRows
<1>6. AllOfIt \in Windows /\ Pixels(AllOfIt) = 0 .. w - 1 /\ Lines(AllOfIt) = 0 .. h - 1
    <2>1. AllOfIt = [ok |-> TRUE, x0 |-> 0, y0 |-> 0, w |-> w, h |-> h]
        BY DEF AllOfIt
    <2>. HIDE DEF w, h
    <2>. QED BY <1>2, <2>1 DEF Windows, Pixels, Lines
<1>7. AllOfIt.w = w /\ AllOfIt.h = h /\ AllOfIt.x0 = 0 /\ AllOfIt.y0 = 0
    BY DEF AllOfIt
<1>. HIDE DEF strips, d, values, w, h, spp, rps, n
<1>8. ASSUME NEW i \in 1 .. n, NEW c \in Copied(i)
       PROVE  /\ c.src < Len(strips[i]) /\ strips[i][c.src + 1] = values[c.dst]
              /\ c.dst \in DOMAIN values
    <2>. DEFINE o == First(i)
                rows == Smaller(rps, h - o)
                all == AllOfIt
                tile == <<0, i - 1>>
    <2>1. o \in Nat /\ o < h /\ rows \in 1 .. rps /\ rps \in Nat \ {0}
        <3>1. o \in Nat /\ o < h
            BY <1>3
        <3>. HIDE DEF o
        <3>. QED BY <1>2, <3>1 DEF Smaller
    <2>2. c \in Copies(all, tile, w, rows, rps, spp)
        BY <1>4
    <2>3. tile \in Nat \X Nat /\ tile[1] = 0 /\ tile[2] = i - 1 /\ tile[2] * rps = o
        BY <1>3
    <2>. DEFINE size == (rows * w) * spp
    <2>4. c.src \in 0 .. size - 1 /\ c.dst \in 0 .. (h * w) * spp - 1
        <3>1. rows \in 0 .. rps
            BY <2>1
        <3>. HIDE DEF rows, tile, all, o
        <3>2. all \in Windows /\ all.w = w /\ all.h = h
            BY <1>6, <1>7 DEF all
        <3>. QED BY <1>1, <1>2, <2>1, <2>2, <2>3, <3>1, <3>2, CopiesInBounds
    <2>5. size \in Nat /\ rows * row = size
        <3>1. rows \in Nat
            BY <2>1
        <3>. HIDE DEF rows
        <3>. QED BY <1>1, <1>2, <3>1
    <2>6. strips[i] = [p \in 1 .. size |-> values[o * row + p - 1]]
        <3>1. Smaller(i * rps, h) - o = rows
            BY <1>3
        <3>. HIDE DEF rows, row, o
        <3>. QED BY <1>5, <2>5, <3>1 DEF o
    <2>7. Len(strips[i]) = size
        <3>. HIDE DEF size, o, row
        <3>. DEFINE s == strips[i]
        <3>1. DOMAIN s = 1 .. size /\ s = [p \in 1 .. size |-> s[p]]
            BY <2>6
        <3>. HIDE DEF s
        <3>2. Len(s) = size
            BY <2>5, <3>1, LengthIs
        <3>. QED BY <3>2 DEF s
    <2>8. PICK x \in Int, y \in Int, b \in Int :
            c = [src |-> ((y - o) * w + x) * spp + b, dst |-> (y * w + x) * spp + b]
        <3>. DEFINE ty == tile[2] * rps
                    tx == tile[1] * w
        <3>1. ty = o /\ tx = 0 /\ all.x0 = 0 /\ all.y0 = 0 /\ all.w = w
            BY <1>2, <1>7, <2>3
        <3>2. PICK x \in Larger(all.x0, tx) .. Smaller(all.x0 + all.w, tx + w) - 1,
                   y \in Larger(all.y0, ty) .. Smaller(all.y0 + all.h, ty + rows) - 1,
                   b \in 0 .. spp - 1 :
                c = [src |-> ((y - ty) * w + (x - tx)) * spp + b,
                     dst |-> ((y - all.y0) * all.w + (x - all.x0)) * spp + b]
            <4>. HIDE DEF all, tile, rows
            <4>. QED BY <2>2 DEF Copies
        <3>. HIDE DEF ty, tx, o, all
        <3>3. x \in Int /\ y \in Int /\ b \in Int /\ x - tx = x /\ y - all.y0 = y /\ x - all.x0 = x
            BY <3>1, <3>2
        <3>. QED BY <3>1, <3>2, <3>3
    <2>9. o * row + c.src = c.dst
        <3>. HIDE DEF o
        <3>. QED BY <1>1, <1>2, <2>1, <2>8, StripPlace
    <2>10. c.src < Len(strips[i]) /\ c.src + 1 \in 1 .. size /\ o * row \in Int
        <3>1. c.src \in Int /\ c.src < size /\ c.src >= 0
            <4>. HIDE DEF size
            <4>. QED BY <2>4, <2>5
        <3>2. o * row \in Int
            <4>. HIDE DEF o, row
            <4>. QED BY <1>2, <2>1
        <3>. HIDE DEF size, o, row
        <3>. QED BY <2>5, <2>7, <3>1, <3>2
    <2>11. strips[i][c.src + 1] = values[o * row + (c.src + 1) - 1]
        <3>. HIDE DEF size, o, row
        <3>. QED BY <2>6, <2>10
    <2>12. o * row + (c.src + 1) - 1 = c.dst
        <3>1. c.src \in Int
            <4>. HIDE DEF size
            <4>. QED BY <2>4, <2>5
        <3>. HIDE DEF o, row
        <3>. QED BY <2>9, <2>10, <3>1
    <2>. HIDE DEF size, o, row
    <2>. QED BY <1>1, <2>4, <2>10, <2>11, <2>12
<1>9. ASSUME NEW j \in DOMAIN values
       PROVE  \E i \in 1 .. n : \E c \in Copied(i) : c.dst = j
    <2>. DEFINE p == j \div spp
                b == j % spp
                x == p % w
                y == p \div w
                i == y \div rps + 1
                o == First(i)
                rows == Smaller(rps, h - o)
                tile == <<x \div w, y \div rps>>
                all == AllOfIt
                hw == h * w
    <2>1. hw \in Nat /\ j \in 0 .. hw * spp - 1
        BY <1>1, <1>2
    <2>2. p \in Nat /\ b \in 0 .. spp - 1 /\ j = p * spp + b /\ p < hw
        <3>. HIDE DEF hw
        <3>1. j \in Nat /\ hw * spp \in Nat
            BY <1>1, <2>1
        <3>4. spp \in Nat \ {0}
            BY <1>1
        <3>2. p \in Nat /\ b \in 0 .. spp - 1 /\ j = p * spp + b
            <4>2. b = j % spp /\ b \in 0 .. spp - 1
                BY <3>1, <3>4
            <4>3. j = p * spp + b
                BY <3>1, <3>4
            <4>4. p \in Nat
                BY <3>1, <3>4
            <4>. QED BY <4>2, <4>3, <4>4
        <3>. HIDE DEF p, b
        <3>3. p * spp < hw * spp
            BY <1>1, <2>1, <3>1, <3>2
        <3>. QED BY <1>1, <2>1, <3>2, <3>3, Products
    <2>. HIDE DEF p, b
    <2>3. x \in 0 .. w - 1 /\ y \in Nat /\ p = y * w + x /\ y < h
        <3>1. x \in 0 .. w - 1 /\ y \in Nat /\ p = y * w + x
            BY <1>2, <2>2
        <3>. HIDE DEF x, y
        <3>2. y * w < h * w
            BY <1>2, <2>2, <3>1
        <3>. QED BY <1>2, <3>1, <3>2, Products
    <2>. HIDE DEF x, y
    <2>4. i \in 1 .. n /\ i - 1 = y \div rps
        <3>1. y \div rps \in 0 .. n - 1
            BY <1>3, <2>3
        <3>. QED BY <1>3, <3>1
    <2>5. o = (y \div rps) * rps /\ o \in Nat /\ o < h
        <3>1. First(i) \in Nat /\ First(i) < h /\ First(i) = (i - 1) * rps
            BY <1>3, <2>4
        <3>. QED BY <2>4, <3>1
    <2>6. rows \in 1 .. rps /\ y < o + rows /\ rps \in Nat \ {0}
        <3>1. y < o + rps /\ rps \in Nat \ {0}
            <4>1. rps \in Nat \ {0}
                BY <1>2
            <4>2. y < (y \div rps) * rps + rps
                BY <2>3, <4>1, TileOf
            <4>. QED BY <2>5, <4>1, <4>2
        <3>. HIDE DEF o
        <3>. QED BY <1>2, <2>3, <2>5, <3>1 DEF Smaller
    <2>7. x \div w = 0
        BY <1>2, <2>3, TileOf
    <2>8. tile = <<0, i - 1>>
        BY <2>4, <2>7
    <2>. DEFINE c == [src |-> Within(tile, w, rps, spp, x, y, b), dst |-> PlaceOf(all, spp, x, y, b)]
    <2>9. c \in Copies(all, tile, w, rows, rps, spp)
        <3>1. all \in Windows /\ x \in Pixels(all) /\ y \in Lines(all) /\ x \in Nat /\ rows \in 0 .. rps
            BY <1>2, <1>6, <2>3, <2>6
        <3>2. y < (y \div rps) * rps + rows
            BY <2>5, <2>6
        <3>. HIDE DEF all, rows, o, i
        <3>. QED BY <1>1, <1>2, <2>2, <2>3, <2>6, <3>1, <3>2, SampleIsCopied
    <2>10. c \in Copied(i)
        <3>1. Rows(d, i - 1) = rows /\ TileHeight(d) = rps /\ d.spp = spp
            BY <1>4, <2>4
        <3>. HIDE DEF c, i, rows, o, tile
        <3>. QED BY <2>8, <2>9, <3>1
    <2>11. c.dst = j
        <3>1. c.dst = ((y - 0) * w + (x - 0)) * spp + b
            BY <1>7 DEF PlaceOf
        <3>2. y - 0 = y /\ x - 0 = x
            BY <2>3
        <3>. HIDE DEF c
        <3>. QED BY <2>2, <2>3, <3>1, <3>2
    <2>. HIDE DEF c, i
    <2>. QED BY <2>4, <2>10, <2>11
<1>10. {c.dst : c \in UNION {Copied(i) : i \in 1 .. n}} = DOMAIN values
    <2>. HIDE DEF Copied
    <2>. DEFINE U == UNION {Copied(i) : i \in 1 .. n}
    <2>1. ASSUME NEW c \in U PROVE c.dst \in DOMAIN values
        <3>1. PICK i \in 1 .. n : c \in Copied(i)
            OBVIOUS
        <3>. QED BY <1>8, <3>1
    <2>2. ASSUME NEW j \in DOMAIN values PROVE \E c \in U : c.dst = j
        <3>1. PICK i \in 1 .. n : \E c \in Copied(i) : c.dst = j
            BY <1>9
        <3>2. PICK c \in Copied(i) : c.dst = j
            BY <3>1
        <3>3. c \in U
            OBVIOUS
        <3>. QED BY <3>2, <3>3
    <2>. HIDE DEF U
    <2>3. {c.dst : c \in U} = DOMAIN values
        BY <2>1, <2>2
    <2>. QED BY <2>3 DEF U
<1>11. d = ProductImage(strips)
    BY DEF d, strips
<1>12. StripsReadBack(strips) <=>
        /\ \A i \in DOMAIN strips : \A c \in Copied(i) :
            c.src < Len(strips[i]) /\ strips[i][c.src + 1] = values[c.dst]
        /\ {c.dst : c \in UNION {Copied(i) : i \in DOMAIN strips}} = DOMAIN values
    BY <1>11 DEF StripsReadBack, values, w
<1>13. \A i \in DOMAIN strips : \A c \in Copied(i) :
            c.src < Len(strips[i]) /\ strips[i][c.src + 1] = values[c.dst]
    <2>. HIDE DEF Copied
    <2>. QED BY <1>5, <1>8
<1>14. {c.dst : c \in UNION {Copied(i) : i \in DOMAIN strips}} = DOMAIN values
    <2>. HIDE DEF Copied
    <2>. QED BY <1>5, <1>10
<1>15. StripsReadBack(strips)
    <2>. HIDE DEF Copied
    <2>. QED BY <1>12, <1>13, <1>14
<1>. QED BY <1>15 DEF strips

\* Reading the strips of a GeoTIFF the service writes, as it reads those of a
\* scene, stays within each of them and gives all samples back, for strips of
\* every size and products whose sides their tags can tell.
THEOREM StripsHold ==
    Spec => [](phase = "done" /\ request.kind # "tiles" /\ request.format = "gtiff"
                    /\ win.w < Longs /\ win.h < Longs
                    => StripsReadBack(ProductStrips))
BY BuildInvHolds, ProductReadsBack, PTL

-----------------------------------------------------------------------------
(* The layout of a file.                                                   *)

\* The numbers of a set in ascending order are its numbers, each once.
LEMMA AscendingIs ==
    ASSUME NEW n \in Nat, NEW S, S \subseteq 0 .. n - 1, NEW s, s = Ascending(S)
    PROVE  /\ Cardinality(S) \in Nat /\ DOMAIN s = 1 .. Cardinality(S)
           /\ \A i \in DOMAIN s : s[i] \in S
           /\ \A i, j \in DOMAIN s : i # j => s[i] # s[j]
           /\ \A x \in S : \E i \in DOMAIN s : s[i] = x
<1>. DEFINE Below(x) == {y \in S : y < x}
            C(x) == Cardinality(Below(x))
            m == Cardinality(S)
<1>0. \A x \in S : x \in Nat /\ x >= 0 /\ x < n
    BY SMT
<1>1. IsFiniteSet(S) /\ m \in Nat
    <2>1. IsFiniteSet(0 .. n - 1)
        BY FS_Interval
    <2>. QED BY <2>1, FS_Subset, FS_CardinalityType
<1>2. ASSUME NEW x \in Nat PROVE IsFiniteSet(Below(x)) /\ C(x) \in Nat /\ C(x) <= m
    <2>1. Below(x) \subseteq S
        OBVIOUS
    <2>. HIDE DEF Below
    <2>. QED BY <1>1, <2>1, FS_Subset, FS_CardinalityType
<1>3. C(0) = 0 /\ C(n) = m
    <2>1. Below(0) = {}
        <3>1. \A y \in S : ~(y < 0)
            BY <1>0
        <3>. QED BY <3>1
    <2>2. Below(n) = S
        BY <1>0
    <2>. HIDE DEF Below
    <2>. QED BY <2>1, <2>2, FS_EmptySet
<1>4. ASSUME NEW x \in Nat
      PROVE  C(x + 1) = IF x \in S THEN C(x) + 1 ELSE C(x)
    <2>1. CASE x \in S
        <3>1. Below(x + 1) = Below(x) \cup {x} /\ x \notin Below(x)
            <4>1. \A y \in S : y < x + 1 <=> (y < x \/ y = x)
                BY <1>0
            <4>2. ~(x < x)
                OBVIOUS
            <4>. QED BY <2>1, <4>1, <4>2
        <3>2. IsFiniteSet(Below(x))
            BY <1>2
        <3>. HIDE DEF Below
        <3>3. Cardinality(Below(x + 1)) = Cardinality(Below(x)) + 1
            BY <3>1, <3>2, FS_AddElement
        <3>. QED BY <2>1, <3>3
    <2>2. CASE x \notin S
        <3>1. Below(x + 1) = Below(x)
            <4>1. \A y \in S : y < x + 1 <=> y < x
                BY <1>0, <2>2
            <4>. QED BY <4>1
        <3>. HIDE DEF Below
        <3>. QED BY <2>2, <3>1
    <2>. QED BY <2>1, <2>2
<1>5. ASSUME NEW x \in Nat, NEW y \in Nat, x <= y PROVE C(x) <= C(y)
    <2>1. Below(x) \subseteq Below(y) /\ IsFiniteSet(Below(y))
        <3>1. \A z \in S : z < x => z < y
            BY <1>0, <1>5
        <3>2. Below(x) \subseteq Below(y)
            BY <3>1
        <3>3. IsFiniteSet(Below(y))
            BY <1>2
        <3>. QED BY <3>2, <3>3
    <2>. HIDE DEF Below
    <2>. QED BY <2>1, FS_Subset
<1>. HIDE DEF C, m
<1>6. ASSUME NEW i \in 1 .. m PROVE \E x \in S : C(x) = i - 1
    <2>. DEFINE Reached == {k \in Nat : C(k) >= i}
    <2>1. n \in Reached
        BY <1>1, <1>3
    <2>2. PICK k \in Reached : \A j \in Reached : k <= j
        <3>1. Reached \subseteq Nat
            OBVIOUS
        <3>. HIDE DEF Reached
        <3>. QED BY <2>1, <3>1, LeastNumber
    <2>3. k \in Nat /\ C(k) >= i /\ k # 0
        BY <1>3
    <2>. DEFINE x == k - 1
    <2>4. x \in Nat /\ x + 1 = k /\ ~(C(x) >= i)
        BY <2>2, <2>3
    <2>. HIDE DEF x
    <2>5. C(x + 1) = IF x \in S THEN C(x) + 1 ELSE C(x)
        BY <1>4, <2>4
    <2>6. C(x) \in Nat
        BY <1>2, <2>4 DEF C
    <2>7. x \in S /\ C(x) = i - 1
        BY <2>3, <2>4, <2>5, <2>6
    <2>. QED BY <2>7
<1>7. DOMAIN s = 1 .. m /\ \A i \in 1 .. m : s[i] \in S /\ C(s[i]) = i - 1
    <2>1. s = [i \in 1 .. m |-> CHOOSE x \in S : C(x) = i - 1]
        BY DEF Ascending, m, C
    <2>. QED BY <1>6, <2>1
<1>8. ASSUME NEW x \in S, NEW y \in S, x < y PROVE C(x) < C(y)
    <2>1. x \in Nat /\ y \in Nat /\ x + 1 \in Nat /\ x + 1 <= y
        BY <1>8
    <2>2. C(x + 1) = C(x) + 1 /\ C(x + 1) <= C(y) /\ C(x) \in Nat /\ C(y) \in Nat
        <3>1. C(x) \in Nat /\ C(y) \in Nat
            BY <1>2, <2>1 DEF C
        <3>. QED BY <1>4, <1>5, <2>1, <3>1
    <2>. QED BY <2>2
<1>9. ASSUME NEW x \in S PROVE \E i \in 1 .. m : s[i] = x
    <2>. DEFINE i == C(x) + 1
    <2>1. x \in Nat /\ x + 1 \in Nat
        OBVIOUS
    <2>2. C(x) \in Nat /\ C(x + 1) = C(x) + 1 /\ C(x + 1) <= m
        <3>1. C(x) \in Nat /\ C(x + 1) <= m
            BY <1>2, <2>1 DEF C
        <3>. QED BY <1>4, <2>1, <3>1
    <2>3. i \in 1 .. m /\ i - 1 = C(x)
        BY <1>1, <2>2 DEF m
    <2>4. s[i] \in S /\ C(s[i]) = C(x)
        BY <1>7, <2>3
    <2>. HIDE DEF i
    <2>. DEFINE z == s[i]
    <2>5. z \in S /\ C(z) = C(x) /\ z \in Nat
        BY <1>0, <2>4
    <2>. HIDE DEF z
    <2>6. z = x
        <3>1. ~(z < x) /\ ~(x < z)
            BY <1>8, <2>2, <2>5
        <3>. QED BY <2>1, <2>5, <3>1
    <2>. QED BY <2>3, <2>6 DEF z
<1>10. ASSUME NEW i \in 1 .. m, NEW j \in 1 .. m, s[i] = s[j] PROVE i = j
    <2>1. C(s[i]) = i - 1 /\ C(s[j]) = j - 1
        BY <1>7
    <2>. QED BY <1>10, <2>1
<1>. QED BY <1>1, <1>7, <1>9, <1>10 DEF m

LEMMA EvenIs ==
    ASSUME NEW k \in Nat
    PROVE  Even(k) \in Nat /\ k <= Even(k)
BY DEF Even

\* What holds of 0, and of a number when it holds of the one before.
LEMMA UpTo ==
    ASSUME NEW n \in Nat, NEW P, 0 \in P, \A i \in 1 .. n : i - 1 \in P => i \in P
    PROVE  \A i \in 0 .. n : i \in P
<1>. DEFINE Bad == {k \in 0 .. n : k \notin P}
<1>1. ASSUME Bad # {} PROVE FALSE
    <2>1. PICK k \in Bad : \A j \in Bad : k <= j
        <3>1. Bad \subseteq Nat
            OBVIOUS
        <3>. HIDE DEF Bad
        <3>. QED BY <1>1, <3>1, LeastNumber
    <2>2. k \in 1 .. n /\ k \notin P /\ k - 1 \in 0 .. n /\ ~(k <= k - 1)
        OBVIOUS
    <2>3. k - 1 \in P
        <3>1. k - 1 \notin Bad
            <4>. HIDE DEF Bad
            <4>. QED BY <2>1, <2>2
        <3>. QED BY <2>2, <3>1
    <2>. QED BY <2>2, <2>3
<1>. QED BY <1>1

\* n steps in T, each from what the one before has come to.
Steps(g, n, T, first, F) ==
    g \in [0 .. n -> T] /\ g[0] = first /\ \A i \in 1 .. n : g[i] = F[i][g[i - 1]]

LEMMA StepsExist ==
    ASSUME NEW n \in Nat, NEW T, NEW first \in T, NEW F,
           \A i \in 1 .. n : \A x \in T : F[i][x] \in T
    PROVE  \E g : Steps(g, n, T, first, F)
<1>. DEFINE To(k, g) == g \in [0 .. k -> T] /\ g[0] = first /\ \A i \in 1 .. k : g[i] = F[i][g[i - 1]]
            P == {k \in 0 .. n : \E g : To(k, g)}
<1>1. 0 \in P
    <2>. DEFINE g == [i \in 0 .. 0 |-> first]
    <2>1. To(0, g) /\ 0 \in 0 .. n
        OBVIOUS
    <2>. HIDE DEF To, g
    <2>. QED BY <2>1
<1>2. ASSUME NEW k \in 1 .. n, k - 1 \in P PROVE k \in P
    <2>1. PICK g : To(k - 1, g)
        <3>. HIDE DEF To
        <3>. QED BY <1>2
    <2>. DEFINE h == [i \in 0 .. k |-> IF i = k THEN F[k][g[k - 1]] ELSE g[i]]
    <2>2. h \in [0 .. k -> T]
        <3>1. g[k - 1] \in T
            BY <2>1
        <3>2. F[k][g[k - 1]] \in T
            BY <3>1
        <3>3. \A i \in 0 .. k : i # k => g[i] \in T
            BY <2>1
        <3>. QED BY <3>2, <3>3
    <2>3. h[0] = first
        BY <2>1
    <2>4. ASSUME NEW i \in 1 .. k PROVE h[i] = F[i][h[i - 1]]
        <3>1. h[i - 1] = g[i - 1]
            OBVIOUS
        <3>2. h[i] = F[i][g[i - 1]]
            BY <2>1
        <3>. HIDE DEF h
        <3>. QED BY <3>1, <3>2
    <2>5. To(k, h) /\ k \in 0 .. n
        <3>. HIDE DEF h
        <3>. QED BY <2>2, <2>3, <2>4
    <2>. HIDE DEF To, h
    <2>. QED BY <2>5
<1>3. \A k \in 0 .. n : k \in P
    <2>. HIDE DEF P
    <2>. QED BY <1>1, <1>2, UpTo
<1>4. \E g : To(n, g)
    <2>. HIDE DEF To
    <2>. QED BY <1>3
<1>. QED BY <1>4 DEF Steps

\* Things that are placed one after the other do not overlap.
Placed(n, offs, sizes, start, end) ==
    /\ DOMAIN offs = 1 .. n /\ end \in Nat /\ start <= end
    /\ \A i \in 1 .. n : offs[i] \in Nat /\ start <= offs[i] /\ offs[i] + sizes[i] <= end
    /\ \A i, j \in 1 .. n : i < j => offs[i] + sizes[i] <= offs[j]

LEMMA PlaceIs ==
    ASSUME NEW n \in Nat, NEW sizes \in [1 .. n -> Nat], NEW start \in Nat,
           NEW offs, offs = Place(sizes, start),
           NEW end, end = EndOf(offs, sizes, start)
    PROVE  Placed(n, offs, sizes, start, end)
<1>. DEFINE Ends(k, g) == g = [i \in 0 .. k |-> IF i = 0 THEN start ELSE Even(g[i - 1]) + sizes[i]]
<1>1. sizes \in Seq(Nat) /\ Len(sizes) = n /\ DOMAIN sizes = 1 .. n
    OBVIOUS
<1>2. \E g : Ends(n, g)
    <2>. DEFINE F == [i \in 1 .. n |-> [x \in Nat |-> Even(x) + sizes[i]]]
    <2>1. \A i \in 1 .. n : \A x \in Nat : F[i][x] \in Nat
        <3>. TAKE i \in 1 .. n
        <3>. TAKE x \in Nat
        <3>. DEFINE y == Even(x)
        <3>1. F[i][x] = y + sizes[i] /\ sizes[i] \in Nat
            OBVIOUS
        <3>. HIDE DEF y, F
        <3>2. y \in Nat
            BY EvenIs DEF y
        <3>. QED BY <3>1, <3>2
    <2>. HIDE DEF F
    <2>2. PICK g : Steps(g, n, Nat, start, F)
        BY <2>1, StepsExist
    <2>3. \A i \in 0 .. n : g[i] = IF i = 0 THEN start ELSE Even(g[i - 1]) + sizes[i]
        <3>1. ASSUME NEW i \in 1 .. n PROVE g[i] = Even(g[i - 1]) + sizes[i]
            <4>1. g[i - 1] \in Nat /\ g[i] = F[i][g[i - 1]]
                BY <2>2 DEF Steps
            <4>2. \A x \in Nat : F[i][x] = Even(x) + sizes[i]
                BY DEF F
            <4>. QED BY <4>1, <4>2
        <3>. QED BY <2>2, <3>1 DEF Steps
    <2>4. g = [i \in 0 .. n |-> g[i]]
        BY <2>2 DEF Steps
    <2>. QED BY <2>3, <2>4
<1>. DEFINE at == CHOOSE g : Ends(n, g)
<1>3. Ends(n, at)
    <2>. HIDE DEF Ends
    <2>. QED BY <1>2
<1>4. offs = [i \in 1 .. n |-> Even(at[i - 1])]
    BY <1>1 DEF Place
<1>. HIDE DEF at
<1>5. at[0] = start /\ \A i \in 1 .. n : at[i] = Even(at[i - 1]) + sizes[i]
    BY <1>3
<1>. HIDE DEF Ends
<1>6. \A j \in 0 .. n : at[j] \in Nat /\ \A i \in 0 .. j : at[i] \in Nat /\ at[i] <= at[j]
    <2>. DEFINE P == {j \in 0 .. n : at[j] \in Nat /\ \A i \in 0 .. j : at[i] \in Nat /\ at[i] <= at[j]}
    <2>1. 0 \in P
        BY <1>5
    <2>2. ASSUME NEW k \in 1 .. n, k - 1 \in P PROVE k \in P
        <3>. DEFINE a == at[k - 1]
        <3>1. a \in Nat /\ \A i \in 0 .. k - 1 : at[i] \in Nat /\ at[i] <= a
            BY <2>2
        <3>2. at[k] = Even(a) + sizes[k] /\ sizes[k] \in Nat
            BY <1>5
        <3>. HIDE DEF a
        <3>3. Even(a) \in Nat /\ a <= Even(a)
            BY <3>1, EvenIs
        <3>4. at[k] \in Nat /\ a <= at[k]
            BY <3>1, <3>2, <3>3
        <3>5. \A i \in 0 .. k : at[i] \in Nat /\ at[i] <= at[k]
            BY <3>1, <3>4
        <3>. QED BY <3>4, <3>5
    <2>3. \A j \in 0 .. n : j \in P
        <3>. HIDE DEF P
        <3>. QED BY <2>1, <2>2, UpTo
    <2>. QED BY <2>3
<1>7. ASSUME NEW i \in 1 .. n
      PROVE  offs[i] \in Nat /\ at[i - 1] <= offs[i] /\ offs[i] + sizes[i] = at[i] /\ at[i] \in Nat
    <2>1. offs[i] = Even(at[i - 1]) /\ at[i - 1] \in Nat /\ at[i] \in Nat
        BY <1>4, <1>6
    <2>. QED BY <1>5, <2>1, EvenIs
<1>8. end = at[n]
    <2>1. CASE n = 0
        <3>1. sizes = <<>>
            BY <1>1, <2>1
        <3>. QED BY <1>5, <2>1, <3>1 DEF EndOf
    <2>2. CASE n # 0
        <3>1. sizes # <<>> /\ n \in 1 .. n
            BY <1>1, <2>2
        <3>. QED BY <1>1, <1>7, <3>1 DEF EndOf
    <2>. QED BY <2>1, <2>2
<1>9. ASSUME NEW i \in 1 .. n
      PROVE  offs[i] \in Nat /\ start <= offs[i] /\ offs[i] + sizes[i] <= end
    <2>1. at[0] <= at[i - 1] /\ at[i] <= at[n] /\ at[i - 1] \in Nat
        BY <1>6
    <2>. QED BY <1>5, <1>6, <1>7, <1>8, <2>1
<1>10. ASSUME NEW i \in 1 .. n, NEW j \in 1 .. n, i < j PROVE offs[i] + sizes[i] <= offs[j]
    <2>1. at[i] <= at[j - 1] /\ at[j - 1] \in Nat
        BY <1>6, <1>10
    <2>2. at[j - 1] <= offs[j] /\ offs[j] \in Nat
        BY <1>7
    <2>3. offs[i] + sizes[i] = at[i] /\ at[i] \in Nat
        BY <1>7
    <2>. QED BY <2>1, <2>2, <2>3
<1>11. end \in Nat /\ start <= end
    <2>1. at[n] \in Nat /\ at[0] <= at[n]
        BY <1>6
    <2>. QED BY <1>5, <1>8, <2>1
<1>. QED BY <1>4, <1>9, <1>10, <1>11 DEF Placed

\* What an image of a file may be: its tags are numbers below some limit, and
\* their values and its segments have some size.
SoundImage(spec) ==
    /\ \E n \in Nat : DOMAIN spec.tags \cup spec.places \subseteq 0 .. n - 1
    /\ \A t \in DOMAIN spec.tags : spec.tags[t] \in Nat
    /\ spec.segs \in Seq(Nat)

\* A directory as it lies in a file: its table, its values behind it, and its end.
LaidOut(d) ==
    /\ d.off \in Nat /\ d.len \in Nat /\ d.len >= 6
    /\ d.end \in Nat /\ d.off + d.len <= d.end
    /\ \A t \in DOMAIN d.vals :
        /\ d.vals[t][1] \in Nat /\ d.vals[t][2] \in Nat
        /\ d.off + d.len <= d.vals[t][1] /\ d.vals[t][1] <= d.vals[t][2] /\ d.vals[t][2] <= d.end
    /\ \A t, u \in DOMAIN d.vals :
        t = u \/ d.vals[t][2] <= d.vals[u][1] \/ d.vals[u][2] <= d.vals[t][1]

\* The table of a directory and its values follow each other.
LEMMA DirectoryIs ==
    ASSUME NEW spec, SoundImage(spec), NEW start \in Nat, NEW d, d = Directory(spec, start)
    PROVE  LaidOut(d) /\ d.off = start
<1>. DEFINE T == DOMAIN spec.tags \cup spec.places
            tags == [t \in T |-> IF t \in spec.places THEN 4 * Len(spec.segs) ELSE spec.tags[t]]
            S == {t \in DOMAIN tags : tags[t] > 4}
            outline == Ascending(S)
            sizes == [i \in DOMAIN outline |-> tags[outline[i]]]
            len == 2 + 12 * Cardinality(DOMAIN tags) + 4
            offs == Place(sizes, start + len)
            at(t) == CHOOSE i \in DOMAIN outline : outline[i] = t
            vals == [t \in ToSet(outline) |-> <<offs[at(t)], offs[at(t)] + tags[t]>>]
            end == EndOf(offs, sizes, start + len)
            m == Cardinality(S)
<1>1. d.off = start /\ d.len = len /\ d.vals = vals /\ d.end = end
    <2>1. d = [off |-> start, len |-> len, vals |-> vals, end |-> end]
        BY Zenon DEF Directory
    <2>. HIDE DEF len, vals, end
    <2>. QED BY <2>1
<1>2. PICK n \in Nat : T \subseteq 0 .. n - 1
    BY DEF SoundImage
<1>3. DOMAIN tags = T
    OBVIOUS
<1>4. ASSUME NEW t \in T PROVE tags[t] \in Nat
    <2>1. CASE t \in spec.places
        <3>1. tags[t] = 4 * Len(spec.segs) /\ Len(spec.segs) \in Nat
            BY <2>1 DEF SoundImage
        <3>. HIDE DEF tags
        <3>. QED BY <3>1
    <2>2. CASE t \notin spec.places
        <3>1. tags[t] = spec.tags[t] /\ t \in DOMAIN spec.tags
            BY <2>2
        <3>. HIDE DEF tags
        <3>. QED BY <3>1 DEF SoundImage
    <2>. QED BY <2>1, <2>2
<1>. HIDE DEF T, tags
<1>5. len \in Nat /\ len >= 6
    <2>. DEFINE c == Cardinality(T)
    <2>1. c \in Nat
        <3>1. IsFiniteSet(0 .. n - 1)
            BY FS_Interval
        <3>. QED BY <1>2, <3>1, FS_Subset, FS_CardinalityType
    <2>2. len = 2 + 12 * c + 4
        BY <1>3
    <2>. HIDE DEF c, len
    <2>. QED BY <2>1, <2>2
<1>6. S \subseteq T /\ S \subseteq 0 .. n - 1
    BY <1>2, <1>3
<1>. HIDE DEF S, len
<1>7. /\ m \in Nat /\ DOMAIN outline = 1 .. m
      /\ \A i \in DOMAIN outline : outline[i] \in S
      /\ \A i, j \in DOMAIN outline : i # j => outline[i] # outline[j]
    BY <1>6, AscendingIs
<1>. HIDE DEF outline, m
<1>8. sizes \in [1 .. m -> Nat] /\ start + len \in Nat
    <2>1. \A i \in 1 .. m : tags[outline[i]] \in Nat
        BY <1>4, <1>6, <1>7
    <2>. QED BY <1>5, <1>7, <2>1
<1>9. \A i \in 1 .. m : sizes[i] = tags[outline[i]]
    BY <1>7
<1>. HIDE DEF sizes
<1>10. Placed(m, offs, sizes, start + len, end)
    BY <1>7, <1>8, PlaceIs
<1>. HIDE DEF offs, end
<1>11. ASSUME NEW t \in DOMAIN vals
       PROVE  at(t) \in 1 .. m /\ outline[at(t)] = t /\ vals[t] = <<offs[at(t)], offs[at(t)] + sizes[at(t)]>>
    <2>1. \E i \in DOMAIN outline : outline[i] = t
        BY DEF ToSet
    <2>2. at(t) \in DOMAIN outline /\ outline[at(t)] = t
        BY <2>1
    <2>3. vals[t] = <<offs[at(t)], offs[at(t)] + tags[t]>>
        OBVIOUS
    <2>. HIDE DEF at, vals
    <2>. QED BY <1>7, <1>9, <2>2, <2>3
<1>. HIDE DEF at, vals
<1>12. ASSUME NEW t \in DOMAIN vals
       PROVE  /\ vals[t][1] \in Nat /\ vals[t][2] \in Nat
              /\ start + len <= vals[t][1] /\ vals[t][1] <= vals[t][2] /\ vals[t][2] <= end
    <2>. DEFINE k == at(t)
    <2>1. k \in 1 .. m /\ vals[t][1] = offs[k] /\ vals[t][2] = offs[k] + sizes[k]
        BY <1>11
    <2>. HIDE DEF k
    <2>. QED BY <1>8, <1>10, <2>1 DEF Placed
<1>13. ASSUME NEW t \in DOMAIN vals, NEW u \in DOMAIN vals, t # u
       PROVE  vals[t][2] <= vals[u][1] \/ vals[u][2] <= vals[t][1]
    <2>. DEFINE k == at(t)
                l == at(u)
    <2>1. /\ k \in 1 .. m /\ vals[t][1] = offs[k] /\ vals[t][2] = offs[k] + sizes[k] /\ outline[k] = t
          /\ l \in 1 .. m /\ vals[u][1] = offs[l] /\ vals[u][2] = offs[l] + sizes[l] /\ outline[l] = u
        BY <1>11
    <2>. HIDE DEF k, l
    <2>2. k < l \/ l < k
        BY <1>7, <1>13, <2>1
    <2>. QED BY <1>10, <2>1, <2>2 DEF Placed
<1>. QED BY <1>1, <1>5, <1>10, <1>12, <1>13 DEF LaidOut, Placed

\* Sequences of numbers are put together to one.
LEMMA FlattenIs ==
    ASSUME NEW n \in Nat \ {0}, NEW s \in [1 .. n -> Seq(Nat)]
    PROVE  FlattenSeq(s) \in Seq(Nat)
<1>. DEFINE Joins(k, g) == g = [i \in 1 .. k |-> IF i = 1 THEN s[i] ELSE g[i - 1] \o s[i]]
<1>1. Len(s) = n /\ DOMAIN s = 1 .. n
    OBVIOUS
<1>2. \E g : Joins(n, g)
    <2>. DEFINE F == [i \in 1 .. n |-> [x \in Seq(Nat) |-> x \o s[i]]]
    <2>1. \A i \in 1 .. n : \A x \in Seq(Nat) : F[i][x] \in Seq(Nat)
        OBVIOUS
    <2>. HIDE DEF F
    <2>2. PICK g : Steps(g, n, Seq(Nat), <<>>, F)
        <3>1. <<>> \in Seq(Nat) /\ n \in Nat
            OBVIOUS
        <3>. QED BY <2>1, <3>1, StepsExist
    <2>. DEFINE h == [i \in 1 .. n |-> g[i]]
    <2>3. \A i \in 1 .. n : g[i] = IF i = 1 THEN s[i] ELSE h[i - 1] \o s[i]
        <3>1. ASSUME NEW i \in 1 .. n PROVE g[i - 1] \in Seq(Nat) /\ g[i] = g[i - 1] \o s[i]
            <4>1. g[i - 1] \in Seq(Nat) /\ g[i] = F[i][g[i - 1]]
                <5>. DEFINE T == Seq(Nat)
                <5>1. g \in [0 .. n -> T]
                    BY <2>2 DEF Steps
                <5>2. i - 1 \in 0 .. n
                    OBVIOUS
                <5>3. g[i] = F[i][g[i - 1]]
                    BY <2>2 DEF Steps
                <5>. HIDE DEF T
                <5>4. g[i - 1] \in T
                    BY <5>1, <5>2
                <5>. QED BY <5>3, <5>4 DEF T
            <4>2. \A x \in Seq(Nat) : F[i][x] = x \o s[i]
                BY DEF F
            <4>. QED BY <4>1, <4>2
        <3>2. g[1] = s[1]
            <4>1. 1 \in 1 .. n /\ s[1] \in Seq(Nat) /\ 1 - 1 = 0
                OBVIOUS
            <4>2. g[1] = <<>> \o s[1]
                BY <2>2, <3>1, <4>1 DEF Steps
            <4>3. \A x \in Seq(Nat) : <<>> \o x = x
                OBVIOUS
            <4>. QED BY <4>1, <4>2, <4>3
        <3>3. \A i \in 1 .. n : i # 1 => h[i - 1] = g[i - 1]
            OBVIOUS
        <3>. HIDE DEF h
        <3>. QED BY <3>1, <3>2, <3>3
    <2>4. Joins(n, h)
        BY <2>3
    <2>. HIDE DEF Joins, h
    <2>. QED BY <2>4
<1>. DEFINE flatten == CHOOSE g : Joins(n, g)
<1>3. Joins(n, flatten)
    <2>. HIDE DEF Joins
    <2>. QED BY <1>2
<1>4. FlattenSeq(s) = flatten[n]
    BY <1>1 DEF FlattenSeq
<1>. HIDE DEF flatten
<1>5. \A i \in 1 .. n : flatten[i] = IF i = 1 THEN s[i] ELSE flatten[i - 1] \o s[i]
    BY <1>3
<1>. HIDE DEF Joins
<1>6. \A k \in 0 .. n : k = 0 \/ flatten[k] \in Seq(Nat)
    <2>. DEFINE P == {k \in 0 .. n : k = 0 \/ flatten[k] \in Seq(Nat)}
    <2>1. 0 \in P
        OBVIOUS
    <2>2. ASSUME NEW k \in 1 .. n, k - 1 \in P PROVE k \in P
        <3>1. k = 1 \/ flatten[k - 1] \in Seq(Nat)
            BY <2>2
        <3>2. s[k] \in Seq(Nat)
            OBVIOUS
        <3>3. flatten[k] \in Seq(Nat)
            <4>1. CASE k = 1
                BY <1>5, <3>2, <4>1
            <4>2. CASE k # 1
                <5>. DEFINE x == flatten[k - 1]
                            y == s[k]
                <5>1. x \in Seq(Nat) /\ y \in Seq(Nat) /\ flatten[k] = x \o y
                    BY <1>5, <3>1, <3>2, <4>2
                <5>. HIDE DEF x, y
                <5>. QED BY <5>1
            <4>. QED BY <4>1, <4>2
        <3>. QED BY <3>3
    <2>3. \A k \in 0 .. n : k \in P
        <3>. HIDE DEF P
        <3>. QED BY <2>1, <2>2, UpTo
    <2>. QED BY <2>3
<1>. QED BY <1>4, <1>6

\* The directories of a file follow each other behind its header, and their
\* segments follow the last one.
LEMMA WriteFileIs ==
    ASSUME NEW n \in Nat \ {0}, NEW specs, DOMAIN specs = 1 .. n, Len(specs) = n,
           \A i \in 1 .. n : SoundImage(specs[i]),
           NEW w, w = WriteFile(specs)
    PROVE  /\ DOMAIN w.dirs = 1 .. n /\ Len(w.dirs) = n /\ w.dirs[1].off = 8
           /\ \A i \in 1 .. n :
                LaidOut(w.dirs[i]) /\ 8 <= w.dirs[i].off /\ w.dirs[i].end <= w.dirs[n].end
           /\ \A i, j \in 1 .. n : i < j => w.dirs[i].end <= w.dirs[j].off
           /\ w.size \in Nat /\ w.dirs[n].end <= w.size
           /\ \A j \in DOMAIN w.segs :
                /\ w.segs[j][1] \in Nat /\ w.segs[j][2] \in Nat
                /\ w.dirs[n].end <= w.segs[j][1] /\ w.segs[j][1] <= w.segs[j][2] /\ w.segs[j][2] <= w.size
           /\ \A j \in DOMAIN w.segs : w.segs[j] = <<w.segs[j][1], w.segs[j][2]>>
           /\ \A j, k \in DOMAIN w.segs :
                j = k \/ w.segs[j][2] <= w.segs[k][1] \/ w.segs[k][2] <= w.segs[j][1]
           /\ \A i \in 1 .. n : w.next[i] = IF i < n THEN Uint32(w.dirs[i + 1].off) ELSE 0
           /\ \A j \in DOMAIN w.segs :
                w.told[j] = <<Uint32(w.segs[j][1]), Uint32(w.segs[j][2] - w.segs[j][1])>>
<1>. DEFINE Dirs(g) == g = [i \in DOMAIN specs |-> Directory(specs[i], IF i = 1 THEN 8 ELSE g[i - 1].end)]
            dirs == CHOOSE g : Dirs(g)
            own == [i \in DOMAIN specs |-> specs[i].segs]
            sizes == FlattenSeq(own)
            base == dirs[Len(specs)].end
            offs == Place(sizes, base)
            segs == [j \in DOMAIN offs |-> <<offs[j], offs[j] + sizes[j]>>]
            size == EndOf(offs, sizes, base)
            next == [i \in DOMAIN specs |-> IF i < Len(specs) THEN Uint32(dirs[i + 1].off) ELSE 0]
            told == [j \in DOMAIN offs |-> <<Uint32(offs[j]), Uint32(sizes[j])>>]
<1>1. w.dirs = dirs /\ w.segs = segs /\ w.size = size /\ w.next = next /\ w.told = told
    <2>1. w = [dirs |-> dirs, segs |-> segs, size |-> size, next |-> next, told |-> told]
        BY Zenon DEF WriteFile
    <2>. HIDE DEF dirs, segs, size, next, told
    <2>. QED BY <2>1
<1>2. \A i \in 1 .. n : \A x \in Nat :
        /\ LaidOut(Directory(specs[i], x)) /\ Directory(specs[i], x).off = x
        /\ Directory(specs[i], x).end \in Nat
    <2>1. ASSUME NEW i \in 1 .. n, NEW x \in Nat, NEW d, d = Directory(specs[i], x)
          PROVE  LaidOut(d) /\ d.off = x /\ d.end \in Nat
        <3>1. SoundImage(specs[i])
            OBVIOUS
        <3>2. LaidOut(d) /\ d.off = x
            BY <2>1, <3>1, DirectoryIs
        <3>. QED BY <3>2 DEF LaidOut
    <2>. QED BY <2>1
<1>3. \E g : Dirs(g)
    <2>. DEFINE F == [i \in 1 .. n |-> [x \in Nat |-> Directory(specs[i], x).end]]
    <2>1. \A i \in 1 .. n : \A x \in Nat : F[i][x] \in Nat
        BY <1>2
    <2>2. \A i \in 1 .. n : \A x \in Nat : F[i][x] = Directory(specs[i], x).end
        OBVIOUS
    <2>. HIDE DEF F
    <2>3. PICK g : Steps(g, n, Nat, 8, F)
        BY <2>1, StepsExist
    <2>. DEFINE h == [i \in 1 .. n |-> Directory(specs[i], g[i - 1])]
    <2>4. ASSUME NEW i \in 1 .. n PROVE g[i - 1] = IF i = 1 THEN 8 ELSE h[i - 1].end
        <3>1. CASE i = 1
            BY <2>3, <3>1 DEF Steps
        <3>2. CASE i # 1
            <4>1. i - 1 \in 1 .. n /\ i - 1 - 1 \in 0 .. n /\ g \in [0 .. n -> Nat]
                BY <2>3, <3>2 DEF Steps
            <4>2. g[i - 1] = Directory(specs[i - 1], g[i - 1 - 1]).end
                BY <2>2, <2>3, <4>1 DEF Steps
            <4>3. h[i - 1] = Directory(specs[i - 1], g[i - 1 - 1])
                BY <4>1
            <4>. HIDE DEF h
            <4>. QED BY <3>2, <4>2, <4>3
        <3>. QED BY <3>1, <3>2
    <2>5. \A i \in 1 .. n : h[i] = Directory(specs[i], IF i = 1 THEN 8 ELSE h[i - 1].end)
        <3>1. \A i \in 1 .. n : h[i] = Directory(specs[i], g[i - 1])
            OBVIOUS
        <3>. HIDE DEF h
        <3>. QED BY <2>4, <3>1
    <2>6. h = [i \in 1 .. n |-> h[i]]
        OBVIOUS
    <2>. HIDE DEF h
    <2>7. Dirs(h)
        BY <2>5, <2>6
    <2>. HIDE DEF Dirs
    <2>. QED BY <2>7
<1>4. Dirs(dirs)
    <2>. HIDE DEF Dirs
    <2>. QED BY <1>3
<1>. HIDE DEF dirs
<1>5. DOMAIN dirs = 1 .. n /\ \A i \in 1 .. n : dirs[i] = Directory(specs[i], IF i = 1 THEN 8 ELSE dirs[i - 1].end)
    BY <1>4
<1>17. Len(dirs) = n
    <2>1. dirs = [i \in 1 .. n |-> dirs[i]]
        BY <1>4
    <2>. HIDE DEF Dirs
    <2>. QED BY <1>5, <2>1, LengthIs
<1>. HIDE DEF Dirs
<1>18. \A i \in 1 .. n : next[i] = IF i < n THEN Uint32(dirs[i + 1].off) ELSE 0
    OBVIOUS
<1>. HIDE DEF next
<1>6. /\ dirs[1].off = 8 /\ LaidOut(dirs[1])
      /\ \A i \in 1 .. n : i # 1 /\ LaidOut(dirs[i - 1]) =>
            LaidOut(dirs[i]) /\ dirs[i].off = dirs[i - 1].end
    <2>1. 1 \in 1 .. n /\ dirs[1] = Directory(specs[1], 8)
        BY <1>5
    <2>2. ASSUME NEW i \in 1 .. n, i # 1, LaidOut(dirs[i - 1])
          PROVE  LaidOut(dirs[i]) /\ dirs[i].off = dirs[i - 1].end
        <3>1. dirs[i] = Directory(specs[i], dirs[i - 1].end) /\ dirs[i - 1].end \in Nat
            BY <1>5, <2>2 DEF LaidOut
        <3>. QED BY <1>2, <3>1
    <2>. QED BY <1>2, <2>1, <2>2
<1>7. \A k \in 1 .. n :
        /\ LaidOut(dirs[k]) /\ 8 <= dirs[k].off
        /\ \A i \in 1 .. k - 1 : dirs[i].end \in Nat /\ dirs[i].end <= dirs[k].off
    <2>. DEFINE Q(k) == /\ LaidOut(dirs[k]) /\ 8 <= dirs[k].off
                        /\ \A i \in 1 .. k - 1 : dirs[i].end \in Nat /\ dirs[i].end <= dirs[k].off
                P == {k \in 0 .. n : k = 0 \/ Q(k)}
    <2>1. ASSUME NEW k \in 1 .. n, k = 1 \/ Q(k - 1) PROVE Q(k)
        <3>1. CASE k = 1
            BY <1>6, <3>1
        <3>2. CASE k # 1
            <4>. DEFINE b == dirs[k - 1]
                        d == dirs[k]
            <4>1. LaidOut(b) /\ 8 <= b.off /\ LaidOut(d) /\ d.off = b.end
                BY <1>6, <2>1, <3>2
            <4>2. \A i \in 1 .. k - 1 : i = k - 1 \/ (dirs[i].end \in Nat /\ dirs[i].end <= b.off)
                BY <2>1, <3>2
            <4>3. dirs[k - 1].end = b.end
                OBVIOUS
            <4>. HIDE DEF b
            <4>4. /\ b.off \in Nat /\ b.end \in Nat /\ b.off <= b.end /\ 8 <= b.end
                BY <4>1 DEF LaidOut
            <4>5. \A i \in 1 .. k - 1 : dirs[i].end \in Nat /\ dirs[i].end <= b.end
                BY <4>2, <4>3, <4>4
            <4>. QED BY <4>1, <4>4, <4>5
        <3>. QED BY <3>1, <3>2
    <2>. HIDE DEF Q
    <2>2. 0 \in P /\ \A k \in 1 .. n : k - 1 \in P => k \in P
        BY <2>1
    <2>3. \A k \in 0 .. n : k \in P
        <3>. HIDE DEF P
        <3>. QED BY <2>2, UpTo
    <2>4. \A k \in 1 .. n : Q(k)
        BY <2>3
    <2>. QED BY <2>4 DEF Q
<1>8. \A i \in 1 .. n : dirs[i].end \in Nat /\ dirs[i].end <= dirs[n].end
    <2>. DEFINE d == dirs[n]
    <2>1. LaidOut(d) /\ \A i \in 1 .. n : i = n \/ (dirs[i].end \in Nat /\ dirs[i].end <= d.off)
        BY <1>7
    <2>2. dirs[n].end = d.end
        OBVIOUS
    <2>. HIDE DEF d
    <2>3. d.off \in Nat /\ d.end \in Nat /\ d.off <= d.end
        BY <2>1 DEF LaidOut
    <2>. QED BY <2>1, <2>2, <2>3
<1>9. base \in Nat /\ base = dirs[n].end
    BY <1>8
<1>10. sizes \in Seq(Nat)
    <2>1. own \in [1 .. n -> Seq(Nat)]
        <3>. DEFINE T == Seq(Nat)
        <3>1. \A i \in 1 .. n : specs[i].segs \in T
            BY DEF SoundImage
        <3>. HIDE DEF T
        <3>2. own \in [1 .. n -> T]
            BY <3>1
        <3>. QED BY <3>2 DEF T
    <2>. HIDE DEF own
    <2>. QED BY <2>1, FlattenIs
<1>. HIDE DEF sizes, base
<1>. DEFINE m == Len(sizes)
<1>11. m \in Nat /\ sizes \in [1 .. m -> Nat]
    BY <1>10
<1>. HIDE DEF m
<1>12. Placed(m, offs, sizes, base, size)
    BY <1>9, <1>11, PlaceIs
<1>. HIDE DEF offs, size
<1>19. \A j \in 1 .. m : told[j] = <<Uint32(offs[j]), Uint32(sizes[j])>>
    BY <1>12 DEF Placed
<1>. HIDE DEF told
<1>13. DOMAIN segs = 1 .. m /\ \A j \in 1 .. m : segs[j] = <<offs[j], offs[j] + sizes[j]>>
    BY <1>12 DEF Placed
<1>. HIDE DEF segs
<1>14. \A j \in 1 .. m :
        /\ segs[j][1] \in Nat /\ segs[j][2] \in Nat
        /\ base <= segs[j][1] /\ segs[j][1] <= segs[j][2] /\ segs[j][2] <= size
    BY <1>11, <1>12, <1>13 DEF Placed
<1>15. ASSUME NEW j \in 1 .. m, NEW k \in 1 .. m
       PROVE  j = k \/ segs[j][2] <= segs[k][1] \/ segs[k][2] <= segs[j][1]
    <2>1. j = k \/ j < k \/ k < j
        BY <1>11
    <2>. QED BY <1>12, <1>13, <2>1 DEF Placed
<1>16. \A i, j \in 1 .. n : i < j => dirs[i].end <= dirs[j].off
    <2>1. \A i, j \in 1 .. n : i < j => i \in 1 .. j - 1
        OBVIOUS
    <2>. QED BY <1>7, <2>1
<1>20. \A j \in 1 .. m : told[j] = <<Uint32(segs[j][1]), Uint32(segs[j][2] - segs[j][1])>>
    <2>1. \A j \in 1 .. m : segs[j][1] = offs[j] /\ segs[j][2] - segs[j][1] = sizes[j]
        BY <1>11, <1>12, <1>13 DEF Placed
    <2>. QED BY <1>19, <2>1
<1>. HIDE DEF m
<1>21. DOMAIN segs = 1 .. m /\ \A j \in 1 .. m : segs[j] = <<segs[j][1], segs[j][2]>>
    BY <1>13
<1>. QED BY <1>1, <1>5, <1>6, <1>7, <1>8, <1>9, <1>12, <1>14, <1>15, <1>16, <1>17, <1>18, <1>20, <1>21 DEF Placed

\* Below 4 GiB the tables tell the truth of the places.
LEMMA WriteFileTells ==
    ASSUME NEW n \in Nat \ {0}, NEW specs, DOMAIN specs = 1 .. n, Len(specs) = n,
           \A i \in 1 .. n : SoundImage(specs[i]),
           NEW w, w = WriteFile(specs), w.size < Longs
    PROVE  TellsTrue(w) /\ \A i \in 1 .. n : w.next[i] = IF i < n THEN w.dirs[i + 1].off ELSE 0
<1>. DEFINE dirs == w.dirs
            segs == w.segs
            size == w.size
<1>1. /\ DOMAIN dirs = 1 .. n /\ Len(dirs) = n
      /\ \A i \in 1 .. n : LaidOut(dirs[i]) /\ dirs[i].end <= dirs[n].end
      /\ size \in Nat /\ dirs[n].end <= size
      /\ \A j \in DOMAIN segs :
            /\ segs[j][1] \in Nat /\ segs[j][2] \in Nat
            /\ segs[j][1] <= segs[j][2] /\ segs[j][2] <= size
      /\ \A i \in 1 .. n : w.next[i] = IF i < n THEN Uint32(dirs[i + 1].off) ELSE 0
      /\ \A j \in DOMAIN segs :
            w.told[j] = <<Uint32(segs[j][1]), Uint32(segs[j][2] - segs[j][1])>>
    BY WriteFileIs
<1>2. size < Longs /\ Longs \in Nat
    BY WidthsAssumption
<1>. HIDE DEF dirs, segs, size
<1>3. ASSUME NEW k \in Nat, k <= size PROVE Uint32(k) = k
    BY <1>1, <1>2, <1>3, UintIs
<1>4. ASSUME NEW i \in 1 .. n
      PROVE  /\ dirs[i].off \in Nat /\ dirs[i].off <= size
             /\ \A t \in DOMAIN dirs[i].vals : Uint32(dirs[i].vals[t][1]) = dirs[i].vals[t][1]
    <2>. DEFINE d == dirs[i]
                e == dirs[n]
    <2>1. LaidOut(d) /\ LaidOut(e) /\ d.end <= e.end /\ e.end <= size
        BY <1>1
    <2>. HIDE DEF d, e
    <2>2. d.off \in Nat /\ d.len \in Nat /\ d.off + d.len <= d.end /\ d.end \in Nat /\ d.end <= size
        BY <1>1, <2>1 DEF LaidOut
    <2>3. d.off <= size
        BY <1>1, <2>2
    <2>4. \A t \in DOMAIN d.vals :
            d.vals[t][1] \in Nat /\ d.vals[t][2] \in Nat /\ d.vals[t][1] <= d.vals[t][2] /\ d.vals[t][2] <= d.end
        BY <2>1 DEF LaidOut
    <2>5. ASSUME NEW t \in DOMAIN d.vals PROVE d.vals[t][1] \in Nat /\ d.vals[t][1] <= size
        <3>. DEFINE a == d.vals[t][1]
                    b == d.vals[t][2]
        <3>1. a \in Nat /\ b \in Nat /\ a <= b /\ b <= d.end
            BY <2>4
        <3>. HIDE DEF a, b
        <3>2. a \in Nat /\ a <= size
            BY <1>1, <2>2, <3>1
        <3>. QED BY <3>2 DEF a
    <2>6. \A t \in DOMAIN d.vals : Uint32(d.vals[t][1]) = d.vals[t][1]
        BY <1>3, <2>5
    <2>. QED BY <2>2, <2>3, <2>6 DEF d
<1>5. \A i \in 1 .. n : w.next[i] = IF i < n THEN dirs[i + 1].off ELSE 0
    <2>1. ASSUME NEW i \in 1 .. n, i < n PROVE Uint32(dirs[i + 1].off) = dirs[i + 1].off
        <3>1. i + 1 \in 1 .. n
            BY <2>1
        <3>. QED BY <1>3, <1>4, <3>1
    <2>. QED BY <1>1, <2>1
<1>6. ASSUME NEW j \in DOMAIN segs
      PROVE  <<w.told[j][1], w.told[j][1] + w.told[j][2]>> = segs[j]
    <2>. DEFINE a == segs[j][1]
                b == segs[j][2]
    <2>1. a \in Nat /\ b \in Nat /\ a <= b /\ b <= size /\ w.told[j] = <<Uint32(a), Uint32(b - a)>>
        BY <1>1
    <2>2. segs[j] = <<a, b>>
        BY WriteFileIs DEF segs
    <2>. HIDE DEF a, b
    <2>3. b - a \in Nat /\ b - a <= size /\ a <= size /\ a + (b - a) = b
        BY <1>1, <2>1
    <2>4. w.told[j] = <<a, b - a>>
        BY <1>3, <2>1, <2>3
    <2>. QED BY <2>2, <2>3, <2>4
<1>7. TellsTrue(w)
    <2>1. /\ \A i \in DOMAIN dirs : w.next[i] = IF i < Len(dirs) THEN dirs[i + 1].off ELSE 0
          /\ \A i \in DOMAIN dirs : \A t \in DOMAIN dirs[i].vals :
                Uint32(dirs[i].vals[t][1]) = dirs[i].vals[t][1]
        BY <1>1, <1>4, <1>5
    <2>. QED BY <1>6, <2>1 DEF TellsTrue, dirs, segs
<1>. QED BY <1>5, <1>7 DEF dirs

\* No two parts of a file that writeFile has laid out overlap, and all lie within
\* it behind its header: for any number of directories, whatever tags they have
\* and whatever the lengths of their segments.  If the file is smaller than 4 GiB,
\* its tables tell where the parts are: the LONGs that offsets and lengths are
\* written as are then what the buffer's ints were.
THEOREM WriteFileIsApart ==
    ASSUME NEW n \in Nat \ {0}, NEW specs, DOMAIN specs = 1 .. n, Len(specs) = n,
           \A i \in 1 .. n : SoundImage(specs[i])
    PROVE  /\ Apart(WriteFile(specs))
           /\ WriteFile(specs).size < Longs => TellsTrue(WriteFile(specs))
<1>. DEFINE w == WriteFile(specs)
            dirs == w.dirs
            segs == w.segs
            Seg(p) == \E j \in DOMAIN segs : p = <<<<0, j>>, segs[j]>>
            Table(p, i) == p = <<<<i, 0>>, <<dirs[i].off, dirs[i].off + dirs[i].len>>>>
            Value(p, i) == \E t \in DOMAIN dirs[i].vals : p = <<<<i, t>>, dirs[i].vals[t]>>
            Off(p, q) == p[1] = q[1] \/ p[2][2] <= q[2][1] \/ q[2][2] <= p[2][1]
<1>1. /\ DOMAIN dirs = 1 .. n /\ dirs[1].off = 8
      /\ \A i \in 1 .. n :
            LaidOut(dirs[i]) /\ 8 <= dirs[i].off /\ dirs[i].end <= dirs[n].end
      /\ \A i, j \in 1 .. n : i < j => dirs[i].end <= dirs[j].off
      /\ w.size \in Nat /\ dirs[n].end <= w.size
      /\ \A j \in DOMAIN segs :
            /\ segs[j][1] \in Nat /\ segs[j][2] \in Nat
            /\ dirs[n].end <= segs[j][1] /\ segs[j][1] <= segs[j][2] /\ segs[j][2] <= w.size
      /\ \A j, k \in DOMAIN segs :
            j = k \/ segs[j][2] <= segs[k][1] \/ segs[k][2] <= segs[j][1]
    BY WriteFileIs
<1>2. \A p \in Parts(w) : Seg(p) \/ \E i \in 1 .. n : Table(p, i) \/ Value(p, i)
    <2>1. DOMAIN dirs = 1 .. n
        BY <1>1
    <2>. HIDE DEF w
    <2>. QED BY <2>1 DEF Parts
<1>. HIDE DEF w, dirs, segs
<1>3. ASSUME NEW p, NEW i \in 1 .. n, Table(p, i) \/ Value(p, i)
      PROVE  /\ p[2][1] \in Nat /\ p[2][2] \in Nat
             /\ 8 <= p[2][1] /\ dirs[i].off <= p[2][1] /\ p[2][2] <= dirs[i].end
    <2>. DEFINE d == dirs[i]
    <2>1. LaidOut(d) /\ 8 <= d.off
        BY <1>1
    <2>2. CASE Table(p, i)
        <3>1. p[2][1] = d.off /\ p[2][2] = d.off + d.len
            BY <2>2
        <3>. HIDE DEF d
        <3>. QED BY <2>1, <3>1 DEF LaidOut, d
    <2>3. CASE Value(p, i)
        <3>1. PICK t \in DOMAIN d.vals : p[2] = d.vals[t]
            BY <2>3
        <3>. HIDE DEF d
        <3>. QED BY <2>1, <3>1 DEF LaidOut, d
    <2>. QED BY <1>3, <2>2, <2>3
<1>4. ASSUME NEW p, NEW q, NEW i \in 1 .. n,
             Table(p, i) \/ Value(p, i), Table(q, i) \/ Value(q, i)
      PROVE  Off(p, q)
    <2>. DEFINE d == dirs[i]
    <2>1. LaidOut(d)
        BY <1>1
    <2>2. CASE Table(p, i) /\ Table(q, i)
        BY <2>2
    <2>3. CASE Table(p, i) /\ Value(q, i)
        <3>1. PICK t \in DOMAIN d.vals : q[2] = d.vals[t]
            BY <2>3
        <3>2. p[2][2] = d.off + d.len
            BY <2>3
        <3>. HIDE DEF d
        <3>. QED BY <2>1, <3>1, <3>2 DEF LaidOut
    <2>4. CASE Value(p, i) /\ Table(q, i)
        <3>1. PICK t \in DOMAIN d.vals : p[2] = d.vals[t]
            BY <2>4
        <3>2. q[2][2] = d.off + d.len
            BY <2>4
        <3>. HIDE DEF d
        <3>. QED BY <2>1, <3>1, <3>2 DEF LaidOut
    <2>5. CASE Value(p, i) /\ Value(q, i)
        <3>1. PICK t \in DOMAIN d.vals : p = <<<<i, t>>, d.vals[t]>>
            BY <2>5
        <3>2. PICK u \in DOMAIN d.vals : q = <<<<i, u>>, d.vals[u]>>
            BY <2>5
        <3>. HIDE DEF d
        <3>. QED BY <2>1, <3>1, <3>2 DEF LaidOut
    <2>. QED BY <1>4, <2>2, <2>3, <2>4, <2>5
<1>5. ASSUME NEW p, NEW q, NEW i \in 1 .. n, NEW j \in 1 .. n, i < j,
             Table(p, i) \/ Value(p, i), Table(q, j) \/ Value(q, j)
      PROVE  Off(p, q) /\ Off(q, p)
    <2>1. p[2][2] \in Nat /\ p[2][2] <= dirs[i].end /\ q[2][1] \in Nat /\ dirs[j].off <= q[2][1]
        BY <1>3, <1>5
    <2>2. dirs[i].end <= dirs[j].off /\ dirs[i].end \in Nat /\ dirs[j].off \in Nat
        BY <1>1, <1>5 DEF LaidOut
    <2>3. p[2][2] <= q[2][1]
        BY <2>1, <2>2
    <2>. QED BY <2>3
<1>6. ASSUME NEW p, NEW q, NEW i \in 1 .. n, Seg(p), Table(q, i) \/ Value(q, i)
      PROVE  Off(p, q) /\ Off(q, p)
    <2>1. q[2][2] \in Nat /\ q[2][2] <= dirs[i].end
        BY <1>3, <1>6
    <2>2. dirs[i].end <= dirs[n].end /\ dirs[i].end \in Nat /\ dirs[n].end \in Nat
        BY <1>1 DEF LaidOut
    <2>3. p[2][1] \in Nat /\ dirs[n].end <= p[2][1]
        BY <1>1, <1>6
    <2>4. q[2][2] <= p[2][1]
        BY <2>1, <2>2, <2>3
    <2>. QED BY <2>4
<1>7. ASSUME NEW p, NEW q, Seg(p), Seg(q) PROVE Off(p, q)
    <2>1. PICK j \in DOMAIN segs : p = <<<<0, j>>, segs[j]>>
        BY <1>7
    <2>2. PICK k \in DOMAIN segs : q = <<<<0, k>>, segs[k]>>
        BY <1>7
    <2>. QED BY <1>1, <2>1, <2>2
<1>8. ASSUME NEW p \in Parts(w), NEW q \in Parts(w) PROVE Off(p, q)
    <2>1. CASE Seg(p) /\ Seg(q)
        BY <1>7, <2>1
    <2>2. CASE Seg(p) /\ ~Seg(q)
        <3>. HIDE DEF Seg, Table, Value, Off
        <3>. QED BY <1>2, <1>6, <2>2
    <2>3. CASE ~Seg(p) /\ Seg(q)
        <3>. HIDE DEF Seg, Table, Value, Off
        <3>. QED BY <1>2, <1>6, <2>3
    <2>4. CASE ~Seg(p) /\ ~Seg(q)
        <3>. HIDE DEF Seg, Table, Value, Off
        <3>1. PICK i \in 1 .. n : Table(p, i) \/ Value(p, i)
            BY <1>2, <2>4
        <3>2. PICK j \in 1 .. n : Table(q, j) \/ Value(q, j)
            BY <1>2, <2>4
        <3>3. i = j \/ i < j \/ j < i
            OBVIOUS
        <3>. QED BY <1>4, <1>5, <3>1, <3>2, <3>3
    <2>. QED BY <2>1, <2>2, <2>3, <2>4
<1>9. ASSUME NEW p \in Parts(w) PROVE p[2][1] >= 8 /\ p[2][2] <= w.size
    <2>1. CASE Seg(p)
        <3>1. PICK j \in DOMAIN segs : p[2] = segs[j]
            BY <2>1
        <3>2. 8 <= dirs[n].end /\ dirs[n].end \in Nat
            BY <1>1 DEF LaidOut
        <3>. QED BY <1>1, <3>1, <3>2
    <2>2. CASE ~Seg(p)
        <3>1. PICK i \in 1 .. n : Table(p, i) \/ Value(p, i)
            <4>. HIDE DEF Seg, Table, Value
            <4>. QED BY <1>2, <2>2
        <3>2. p[2][1] \in Nat /\ p[2][2] \in Nat /\ 8 <= p[2][1] /\ p[2][2] <= dirs[i].end
            BY <1>3, <3>1
        <3>3. dirs[i].end <= dirs[n].end /\ dirs[i].end \in Nat /\ dirs[n].end \in Nat
            BY <1>1 DEF LaidOut
        <3>. QED BY <1>1, <3>2, <3>3
    <2>. QED BY <2>1, <2>2
<1>10. Apart(w)
    BY <1>8, <1>9 DEF Apart
<1>11. w.size < Longs => TellsTrue(w)
    BY WriteFileTells DEF w
<1>. QED BY <1>10, <1>11 DEF w

LEMMA OverIs ==
    ASSUME NEW f, NEW g
    PROVE  /\ DOMAIN Over(f, g) = DOMAIN f \cup DOMAIN g
           /\ \A x \in DOMAIN f : Over(f, g)[x] = f[x]
           /\ \A x \in DOMAIN g : x \notin DOMAIN f => Over(f, g)[x] = g[x]
BY DEF Over

\* The fields of a directory that buildIFD judges.
Judged == {"width", "height", "layout", "tw", "th", "compression", "planar", "bits",
           "format", "predictor", "spp", "offsets", "counts"}

LEMMA OverAccepted ==
    ASSUME NEW r, DOMAIN r = {"len", "next", "values", "geo"},
           NEW d, Judged \subseteq DOMAIN d, Accepts(d)
    PROVE  Accepts(Over(r, d))
<1>. DEFINE o == Over(r, d)
<1>1. \A x \in Judged : o[x] = d[x]
    <2>1. \A x \in Judged : x \in DOMAIN d /\ x \notin DOMAIN r
        BY DEF Judged
    <2>2. \A x \in DOMAIN d : x \notin DOMAIN r => o[x] = d[x]
        BY OverIs
    <2>. HIDE DEF o
    <2>. QED BY <2>1, <2>2
<1>2. /\ o.width = d.width /\ o.height = d.height /\ o.layout = d.layout
      /\ o.tw = d.tw /\ o.th = d.th /\ o.compression = d.compression /\ o.planar = d.planar
      /\ o.bits = d.bits /\ o.format = d.format /\ o.predictor = d.predictor
      /\ o.spp = d.spp /\ o.offsets = d.offsets /\ o.counts = d.counts
    BY <1>1 DEF Judged
<1>. HIDE DEF o
<1>3. TileWidth(o) = TileWidth(d) /\ TileHeight(o) = TileHeight(d)
    BY <1>2 DEF TileWidth, TileHeight
<1>4. Segments(o) = Segments(d)
    BY <1>2, <1>3 DEF Segments, Across
<1>5. Readable(o) = Readable(d)
    BY <1>2, <1>3 DEF Readable
<1>6. Accepts(o)
    BY <1>2, <1>4, <1>5 DEF Accepts
<1>. QED BY <1>6 DEF o

\* The values of a tag end no later than it is told: what a LONG tells of their
\* offset and of their number is not more.
LEMMA TellsEndIs ==
    ASSUME NEW t, NEW place, place[1] \in Nat, place[2] \in Nat, place[1] <= place[2]
    PROVE  TellsEnd(t, place) \in Nat /\ TellsEnd(t, place) <= place[2]
<1>. DEFINE a == place[1]
            b == place[2]
            u == UnitBytes(t)
            k == (b - a) \div u
            x == Uint32(a)
            y == Uint32(k)
<1>1. a \in Nat /\ b \in Nat /\ a <= b /\ TellsEnd(t, place) = x + u * y
    BY DEF TellsEnd
<1>2. u = 1 \/ u = 2 \/ u = 4 \/ u = 8
    BY DEF UnitBytes
<1>. HIDE DEF a, b, u
<1>3. k \in Nat /\ u * k <= b - a
    <2>. DEFINE l == b - a
    <2>1. l \in Nat
        BY <1>1
    <2>. HIDE DEF l
    <2>2. l \div u \in Nat /\ u * (l \div u) <= l
        BY <1>2, <2>1
    <2>. QED BY <2>2 DEF l
<1>. HIDE DEF k
<1>4. x \in Nat /\ x <= a /\ y \in Nat /\ y <= k
    BY <1>1, <1>3, UintIs
<1>. HIDE DEF x, y
<1>5. u * y <= u * k /\ u * y \in Nat /\ u * k \in Nat
    BY <1>2, <1>3, <1>4
<1>. HIDE DEF k
<1>6. x + u * y \in Nat /\ x + u * y <= b
    <2>. DEFINE uy == u * y
                uk == u * k
    <2>. HIDE DEF uy, uk
    <2>1. uy <= uk /\ uy \in Nat /\ uk \in Nat /\ uk <= b - a
        BY <1>3, <1>5 DEF uy, uk
    <2>2. x + uy \in Nat /\ x + uy <= b
        BY <1>1, <1>4, <2>1
    <2>. QED BY <2>2 DEF uy
<1>. QED BY <1>1, <1>6 DEF b

\* Open finds the directories of a file of less than 4 GiB where writeFile has put
\* them, each value and each table within the header: it takes a file of images
\* that buildIFD accepts when its directories are not too many and lie within the
\* limit.
THEOREM WrittenIsRead ==
    ASSUME NEW n \in Nat \ {0}, NEW specs, DOMAIN specs = 1 .. n, Len(specs) = n,
           \A i \in 1 .. n : SoundImage(specs[i]),
           NEW w, w = WriteFile(specs), w.size < Longs, w.dirs[n].end <= HdrMax, n <= MaxIFDs,
           NEW images, DOMAIN images = 1 .. n, Len(images) = n,
           \A i \in 1 .. n : Accepts(images[i]) /\ Judged \subseteq DOMAIN images[i],
           NEW f, f = AsRead(w, images),
           NEW s, s = [i \in 1 .. n |-> w.dirs[i].off]
    PROVE  s \in Chains(f) /\ WellFormed(f, s)
<1>. DEFINE dirs == w.dirs
            at(o) == CHOOSE i \in DOMAIN dirs : dirs[i].off = o
            there(i, order) == Ascending({j \in DOMAIN order : order[j] \in DOMAIN dirs[i].vals})
            ends(i, order) ==
                [j \in DOMAIN there(i, order) |->
                    TellsEnd(order[there(i, order)[j]], dirs[i].vals[order[there(i, order)[j]]])]
            read(i) ==
                [len |-> dirs[i].len,
                 next |-> w.next[i],
                 values |-> ends(i, BuildOrder),
                 geo |-> IF i = 1 THEN ends(i, GeoOrder) ELSE <<>>]
<1>1. /\ DOMAIN dirs = 1 .. n /\ dirs[1].off = 8
      /\ \A i \in 1 .. n :
            LaidOut(dirs[i]) /\ 8 <= dirs[i].off /\ dirs[i].end <= dirs[n].end
      /\ \A i, j \in 1 .. n : i < j => dirs[i].end <= dirs[j].off
      /\ w.size \in Nat /\ dirs[n].end <= w.size
    BY WriteFileIs
<1>18. \A i \in 1 .. n : w.next[i] = IF i < n THEN dirs[i + 1].off ELSE 0
    BY WriteFileTells
<1>2. AsRead(w, images) =
            [size |-> w.size, magic |-> TRUE, first |-> 8,
             dirs |-> [o \in {dirs[i].off : i \in DOMAIN dirs} |-> Over(read(at(o)), images[at(o)])]]
    BY Zenon DEF AsRead
<1>3. f.size = w.size /\ f.magic = TRUE /\ f.first = 8
    <2>. HIDE DEF dirs, read, at
    <2>. QED BY <1>2
<1>4. f.dirs = [o \in {dirs[i].off : i \in DOMAIN dirs} |-> Over(read(at(o)), images[at(o)])]
    <2>. HIDE DEF read, at
    <2>. QED BY <1>2
<1>5. HdrMax \in Nat
    BY ChunkAssumption, HdrChunksAssumption DEF HdrMax
<1>6. \A i \in 1 .. n :
        /\ dirs[i].off \in Nat /\ dirs[i].len \in Nat /\ dirs[i].end \in Nat
        /\ dirs[i].off + 2 <= dirs[i].off + dirs[i].len /\ dirs[i].off + dirs[i].len <= dirs[i].end
        /\ dirs[i].end <= HdrMax /\ dirs[i].end <= w.size
    <2>1. ASSUME NEW i \in 1 .. n
          PROVE  /\ dirs[i].off \in Nat /\ dirs[i].len \in Nat /\ dirs[i].end \in Nat
                 /\ dirs[i].off + 2 <= dirs[i].off + dirs[i].len /\ dirs[i].off + dirs[i].len <= dirs[i].end
                 /\ dirs[i].end <= HdrMax /\ dirs[i].end <= w.size
        <3>. DEFINE d == dirs[i]
                    e == dirs[n]
        <3>1. LaidOut(d) /\ LaidOut(e) /\ d.end <= e.end /\ e.end <= w.size /\ e.end <= HdrMax /\ w.size \in Nat
            BY <1>1
        <3>. HIDE DEF d, e
        <3>2. d.off \in Nat /\ d.len \in Nat /\ d.len >= 6 /\ d.end \in Nat /\ d.off + d.len <= d.end
            BY <3>1 DEF LaidOut
        <3>3. e.end \in Nat
            BY <3>1 DEF LaidOut
        <3>4. d.off + 2 <= d.off + d.len /\ d.end <= HdrMax /\ d.end <= w.size
            BY <1>5, <3>1, <3>2, <3>3
        <3>. QED BY <3>2, <3>4 DEF d
    <2>. QED BY <2>1
<1>7. \A i, j \in 1 .. n : dirs[i].off = dirs[j].off => i = j
    <2>1. ASSUME NEW i \in 1 .. n, NEW j \in 1 .. n, i < j PROVE dirs[i].off < dirs[j].off
        <3>1. /\ dirs[i].end <= dirs[j].off /\ dirs[i].off + 2 <= dirs[i].off + dirs[i].len
              /\ dirs[i].off + dirs[i].len <= dirs[i].end
            BY <1>1, <1>6, <2>1
        <3>2. dirs[i].off \in Nat /\ dirs[i].len \in Nat /\ dirs[i].end \in Nat /\ dirs[j].off \in Nat
            BY <1>6
        <3>. DEFINE a == dirs[i].off
                    l == dirs[i].len
                    e == dirs[i].end
                    b == dirs[j].off
        <3>. HIDE DEF a, l, e, b
        <3>3. e <= b /\ a + 2 <= a + l /\ a + l <= e /\ a \in Nat /\ l \in Nat /\ e \in Nat /\ b \in Nat
            BY <3>1, <3>2 DEF a, l, e, b
        <3>4. a < b
            BY <3>3
        <3>. QED BY <3>4 DEF a, b
    <2>. QED BY <1>6, <2>1
<1>8. ASSUME NEW i \in 1 .. n
      PROVE  s[i] = dirs[i].off /\ s[i] \in DOMAIN f.dirs /\ f.dirs[s[i]] = Over(read(i), images[i])
    <2>1. s[i] = dirs[i].off /\ i \in DOMAIN dirs
        BY <1>1
    <2>2. at(s[i]) = i
        BY <1>1, <1>7, <2>1
    <2>. HIDE DEF read, at
    <2>. QED BY <1>4, <2>1, <2>2
<1>9. ASSUME NEW i \in 1 .. n, NEW order, NEW m \in Nat, DOMAIN order = 1 .. m
      PROVE  \A j \in DOMAIN ends(i, order) : Fits(f, ends(i, order)[j])
    <2>. DEFINE S == {j \in DOMAIN order : order[j] \in DOMAIN dirs[i].vals}
                a == Ascending(S)
    <2>1. S \subseteq 0 .. (m + 1) - 1 /\ m + 1 \in Nat
        BY <1>9
    <2>2. \A j \in DOMAIN a : a[j] \in S
        <3>. HIDE DEF S
        <3>. QED BY <2>1, AscendingIs
    <2>3. \A j \in DOMAIN ends(i, order) :
            \E t \in DOMAIN dirs[i].vals : ends(i, order)[j] = TellsEnd(t, dirs[i].vals[t])
        BY <2>2
    <2>4. \A t \in DOMAIN dirs[i].vals : Fits(f, TellsEnd(t, dirs[i].vals[t]))
        <3>. DEFINE d == dirs[i]
        <3>1. LaidOut(d) /\ d.end \in Nat /\ d.end <= HdrMax /\ d.end <= w.size /\ w.size \in Nat
            BY <1>1, <1>6
        <3>2. f.size = w.size
            BY <1>3
        <3>. HIDE DEF d
        <3>3. ASSUME NEW t \in DOMAIN d.vals PROVE Fits(f, TellsEnd(t, d.vals[t]))
            <4>. DEFINE place == d.vals[t]
                        e == TellsEnd(t, place)
            <4>1. place[1] \in Nat /\ place[2] \in Nat /\ place[1] <= place[2] /\ place[2] <= d.end
                BY <3>1 DEF LaidOut
            <4>. HIDE DEF place
            <4>2. e <= place[2] /\ e \in Int
                BY <4>1, TellsEndIs
            <4>. HIDE DEF e
            <4>3. e <= f.size /\ e <= HdrMax
                BY <1>5, <3>1, <3>2, <4>1, <4>2
            <4>. QED BY <4>3 DEF Fits, e, place
        <3>. QED BY <3>3 DEF d
    <2>. HIDE DEF ends
    <2>. QED BY <2>3, <2>4
<1>10. ASSUME NEW i \in 1 .. n
      PROVE  /\ \A j \in DOMAIN read(i).values : Fits(f, read(i).values[j])
             /\ \A j \in DOMAIN read(i).geo : Fits(f, read(i).geo[j])
    <2>. DEFINE none == <<>>
    <2>1. DOMAIN BuildOrder = 1 .. 6 /\ DOMAIN GeoOrder = 1 .. 5 /\ DOMAIN none = {}
        BY DEF BuildOrder, GeoOrder
    <2>2. read(i).values = ends(i, BuildOrder) /\ read(i).geo = IF i = 1 THEN ends(i, GeoOrder) ELSE none
        OBVIOUS
    <2>. HIDE DEF none, read, ends
    <2>. QED BY <1>9, <2>1, <2>2
<1>11. \A i \in 1 .. n :
        /\ DOMAIN read(i) = {"len", "next", "values", "geo"}
        /\ read(i).len = dirs[i].len
        /\ read(i).next = IF i < n THEN dirs[i + 1].off ELSE 0
    <2>. HIDE DEF ends, dirs
    <2>. QED BY <1>18
<1>. HIDE DEF read, dirs, at, ends
<1>12. ASSUME NEW i \in 1 .. n
       PROVE  /\ f.dirs[s[i]].next = IF i < n THEN s[i + 1] ELSE 0
              /\ SoundDir(f, s[i])
              /\ \A j \in DOMAIN f.dirs[s[i]].geo : Fits(f, f.dirs[s[i]].geo[j])
    <2>. DEFINE r == read(i)
                d == Over(r, images[i])
    <2>1. f.dirs[s[i]] = d /\ DOMAIN r = {"len", "next", "values", "geo"}
        BY <1>8, <1>11
    <2>2. Accepts(d)
        <3>1. Accepts(images[i]) /\ Judged \subseteq DOMAIN images[i]
            OBVIOUS
        <3>. HIDE DEF r
        <3>. QED BY <2>1, <3>1, OverAccepted
    <2>3. d.len = r.len /\ d.next = r.next /\ d.values = r.values /\ d.geo = r.geo
        <3>1. \A x \in DOMAIN r : d[x] = r[x]
            BY OverIs
        <3>. HIDE DEF r, d
        <3>. QED BY <2>1, <3>1
    <2>4. r.len = dirs[i].len /\ r.next = IF i < n THEN s[i + 1] ELSE 0
        BY <1>8, <1>11
    <2>5. /\ \A j \in DOMAIN r.values : Fits(f, r.values[j])
          /\ \A j \in DOMAIN r.geo : Fits(f, r.geo[j])
        BY <1>10
    <2>6. Fits(f, s[i] + 2) /\ Fits(f, s[i] + r.len)
        <3>1. f.size = w.size /\ s[i] = dirs[i].off
            BY <1>3, <1>8
        <3>2. /\ dirs[i].off \in Nat /\ dirs[i].len \in Nat /\ dirs[i].end \in Nat /\ w.size \in Nat
              /\ dirs[i].off + 2 <= dirs[i].off + dirs[i].len /\ dirs[i].off + dirs[i].len <= dirs[i].end
              /\ dirs[i].end <= HdrMax /\ dirs[i].end <= w.size
            BY <1>1, <1>6
        <3>3. /\ dirs[i].off + 2 <= w.size /\ dirs[i].off + 2 <= HdrMax
              /\ dirs[i].off + dirs[i].len <= w.size /\ dirs[i].off + dirs[i].len <= HdrMax
            <4>. DEFINE o == dirs[i].off
                        l == dirs[i].len
                        e == dirs[i].end
            <4>1. /\ o \in Nat /\ l \in Nat /\ e \in Nat /\ w.size \in Nat
                  /\ o + 2 <= o + l /\ o + l <= e /\ e <= HdrMax /\ e <= w.size
                BY <3>2
            <4>. HIDE DEF o, l, e
            <4>2. o + 2 <= w.size /\ o + 2 <= HdrMax /\ o + l <= w.size /\ o + l <= HdrMax
                BY <1>5, <4>1
            <4>. QED BY <4>2 DEF o, l
        <3>4. Fits(f, dirs[i].off + 2) /\ Fits(f, dirs[i].off + dirs[i].len)
            BY <3>1, <3>3 DEF Fits
        <3>. HIDE DEF r
        <3>. QED BY <2>4, <3>1, <3>4
    <2>. HIDE DEF r, d
    <2>. QED BY <2>1, <2>2, <2>3, <2>4, <2>5, <2>6 DEF SoundDir
<1>13. Len(s) = n /\ DOMAIN s = 1 .. n /\ s # <<>> /\ s[1] = 8
    BY <1>1, <1>8
<1>14. Chain(f, s)
    <2>1. f.first = s[1]
        BY <1>3, <1>13
    <2>2. f.dirs[s[n]].next = 0
        <3>1. n \in 1 .. n /\ ~(n < n)
            OBVIOUS
        <3>. QED BY <1>12, <3>1
    <2>3. \A i \in 1 .. n - 1 : f.dirs[s[i]].next = s[i + 1]
        <3>1. \A i \in 1 .. n - 1 : i \in 1 .. n /\ i < n
            OBVIOUS
        <3>. QED BY <1>12, <3>1
    <2>. QED BY <1>13, <2>1, <2>2, <2>3 DEF Chain
<1>15. Fits(f, 8)
    BY <1>1, <1>3, <1>5, <1>6 DEF Fits
<1>16. WellFormed(f, s)
    <2>1. f.magic
        BY <1>3
    <2>2. \A i \in 1 .. n : SoundDir(f, s[i])
        BY <1>12
    <2>3. \A j \in DOMAIN f.dirs[s[1]].geo : Fits(f, f.dirs[s[1]].geo[j])
        <3>1. 1 \in 1 .. n
            OBVIOUS
        <3>. QED BY Zenon, <1>12, <3>1
    <2>. QED BY <1>13, <1>14, <1>15, <2>1, <2>2, <2>3 DEF WellFormed
<1>17. s \in Chains(f)
    <2>1. s \in [1 .. n -> DOMAIN f.dirs]
        BY <1>8
    <2>2. n \in 1 .. MaxIFDs
        BY MaxIFDsAssumption
    <2>. QED BY <2>1, <2>2 DEF Chains
<1>. QED BY <1>16, <1>17

LEMMA CeilPositive ==
    ASSUME NEW a \in Nat \ {0}, NEW b \in Nat \ {0}
    PROVE  CeilDiv(a, b) \in Nat \ {0}
<1>1. CeilDiv(a, b) \in Int /\ a <= CeilDiv(a, b) * b
    BY CeilIs
<1>2. 0 * b < a
    OBVIOUS
<1>3. 0 < CeilDiv(a, b)
    BY <1>2, CeilAbove
<1>. QED BY <1>1, <1>3

LEMMA TagBytesIs ==
    ASSUME NEW t, NEW spp \in Nat, NEW geo, geo.keys \in Nat, geo.ascii \in Nat, geo.noData \in Nat
    PROVE  TagBytes(t, spp, geo) \in Nat
BY DEF TagBytes

\* The numbers of the tags are below a bound.
Bounded(S) == \E n \in Nat : S \subseteq 0 .. n - 1

LEMMA TagsBelow ==
    ASSUME NEW S, \A t \in S : t \in ImageTags \cup {278, 317, 322, 323, 254, 273, 279, 324, 325}
                                            \cup {33550, 33922, 34735, 34737, 42113}
    PROVE  Bounded(S)
<1>. DEFINE n == 50000
<1>1. \A t \in S : t \in 0 .. n - 1
    BY DEF ImageTags
<1>2. n \in Nat
    OBVIOUS
<1>. HIDE DEF n
<1>. QED BY <1>1, <1>2 DEF Bounded

LEMMA StripTagsBelow ==
    ASSUME NEW spp, NEW geo
    PROVE  Bounded(DOMAIN StripTags(spp, geo) \cup {273, 279})
<1>1. DOMAIN StripTags(spp, geo) = ImageTags \cup {278} \cup GeoTags(geo)
    BY Zenon DEF StripTags
<1>. DEFINE D == DOMAIN StripTags(spp, geo) \cup {273, 279}
<1>2. \A t \in D : t \in ImageTags \cup {278, 317, 322, 323, 254, 273, 279, 324, 325}
                                  \cup {33550, 33922, 34735, 34737, 42113}
    BY <1>1 DEF GeoTags
<1>. HIDE DEF D
<1>3. Bounded(D)
    BY <1>2, TagsBelow
<1>. QED BY <1>3 DEF D

\* The size of a level, and how many tiles it has.
LEMMA LevelIs ==
    ASSUME NEW spec, CogSpec(spec), NEW i \in DOMAIN spec.factors,
           NEW w, w = LevelSize(spec, i).w, NEW h, h = LevelSize(spec, i).h
    PROVE  /\ w \in Nat \ {0} /\ h \in Nat \ {0} /\ w <= spec.w /\ h <= spec.h
           /\ LevelTiles(spec, i) = TileCount(w, h, spec.ts) /\ LevelTiles(spec, i) \in Nat
<1>. DEFINE k == spec.factors[i]
            ts == spec.ts
            a == CeilDiv(w, ts)
            b == CeilDiv(h, ts)
<1>1. k \in Nat \ {0} /\ ts \in Nat \ {0} /\ spec.w \in Nat \ {0} /\ spec.h \in Nat \ {0}
    BY DEF CogSpec
<1>2. w = CeilDiv(spec.w, k) /\ h = CeilDiv(spec.h, k)
    BY DEF LevelSize
<1>. HIDE DEF k, ts
<1>3. w \in Nat \ {0} /\ h \in Nat \ {0} /\ w <= spec.w /\ h <= spec.h
    BY <1>1, <1>2, CeilPositive, CeilBelow
<1>4. a \in Nat \ {0} /\ b \in Nat \ {0}
    BY <1>1, <1>3, CeilPositive
<1>5. LevelTiles(spec, i) = TileCount(w, h, spec.ts) /\ LevelTiles(spec, i) = a * b
    BY DEF LevelTiles, TileCount, ts
<1>. HIDE DEF a, b
<1>6. a * b \in Nat
    BY <1>4
<1>. QED BY <1>3, <1>5, <1>6

\* What the tags tell of a level when they can.
LEMMA LevelIsTold ==
    ASSUME NEW spec, CogSpec(spec), CogFits(spec), NEW i \in DOMAIN spec.factors,
           NEW d, d = CogImage(spec, i)
    PROVE  /\ d.width = LevelSize(spec, i).w /\ d.height = LevelSize(spec, i).h
           /\ d.width \in Nat \ {0} /\ d.height \in Nat \ {0}
           /\ d.tw = spec.ts /\ d.th = spec.ts
           /\ d.offsets = TileCount(d.width, d.height, spec.ts)
           /\ d.counts = TileCount(d.width, d.height, spec.ts)
<1>. DEFINE w == LevelSize(spec, i).w
            h == LevelSize(spec, i).h
            m == LevelTiles(spec, i)
<1>1. /\ w \in Nat \ {0} /\ h \in Nat \ {0} /\ w <= spec.w /\ h <= spec.h
      /\ m = TileCount(w, h, spec.ts) /\ m \in Nat
    BY LevelIs
<1>2. /\ d.width = Uint32(w) /\ d.height = Uint32(h) /\ d.tw = Uint16(spec.ts) /\ d.th = Uint16(spec.ts)
      /\ d.offsets = Uint32(m) /\ d.counts = Uint32(m)
    BY DEF CogImage
<1>. HIDE DEF w, h, m
<1>3. /\ spec.w \in Nat /\ spec.h \in Nat /\ spec.ts \in Nat /\ Longs \in Nat
      /\ spec.w < Longs /\ spec.h < Longs /\ spec.ts < Shorts /\ m < Longs
    BY WidthsAssumption DEF CogSpec, CogFits, m
<1>4. w < Longs /\ h < Longs
    BY <1>1, <1>3
<1>5. Uint32(w) = w /\ Uint32(h) = h /\ Uint16(spec.ts) = spec.ts /\ Uint32(m) = m
    BY <1>1, <1>3, <1>4, UintIs
<1>. QED BY <1>1, <1>2, <1>5 DEF w, h

LEMMA TileBytes ==
    ASSUME NEW ts \in Nat \ {0}, NEW spp \in {1, 3, 4}, NEW bits \in {8, 16}
    PROVE  (ts * ts * spp * bits) \div 8 - 1 \in Nat
<1>. DEFINE a == ts * ts
            b == a * spp
<1>1. a \in Nat \ {0}
    <2>1. 0 * ts < ts * ts
        BY Products
    <2>. QED BY <2>1
<1>. HIDE DEF a
<1>2. b \in Nat \ {0}
    BY <1>1
<1>3. ts * ts * spp * bits = b * bits
    BY DEF a
<1>. HIDE DEF b
<1>4. (b * bits) \div 8 - 1 \in Nat
    <2>1. CASE bits = 8
        BY <1>2, <2>1
    <2>2. CASE bits = 16
        BY <1>2, <2>2
    <2>. QED BY <2>1, <2>2
<1>. QED BY <1>3, <1>4

\* The images of a COG are sound.
LEMMA CogSound ==
    ASSUME NEW spec, CogSpec(spec), NEW n, n = Len(spec.factors)
    PROVE  /\ n \in Nat \ {0} /\ DOMAIN spec.factors = 1 .. n
           /\ \E specs :
                /\ CogWritten(spec) = WriteFile(specs)
                /\ DOMAIN specs = 1 .. n /\ Len(specs) = n
                /\ \A i \in 1 .. n : SoundImage(specs[i])
<1>. DEFINE tile == (spec.ts * spec.ts * spec.spp * spec.bits) \div 8 - 1
            absent(i) == IF i = 1 THEN spec.sparse ELSE {}
            segs(i) == [j \in 1 .. LevelTiles(spec, i) |-> IF j - 1 \in absent(i) THEN 0 ELSE tile]
            tags(i) == TileTags(spec.spp, i = 1, spec.geo)
            one(i) == [tags |-> tags(i), places |-> {324, 325}, segs |-> segs(i)]
            specs == [i \in DOMAIN spec.factors |-> one(i)]
<1>1. CogWritten(spec) = WriteFile(specs)
    BY DEF CogWritten
<1>2. n \in Nat \ {0} /\ DOMAIN spec.factors = 1 .. n
    <2>. DEFINE s == spec.factors
    <2>1. s \in Seq(Nat \ {0}) /\ s # <<>> /\ n = Len(s)
        BY DEF CogSpec
    <2>. HIDE DEF s
    <2>2. n \in Nat \ {0} /\ DOMAIN s = 1 .. n
        BY <2>1
    <2>. QED BY <2>2 DEF s
<1>3. tile \in Nat
    BY TileBytes DEF CogSpec
<1>. HIDE DEF tile
<1>4. ASSUME NEW i \in 1 .. n PROVE segs(i) \in Seq(Nat)
    <2>. DEFINE m == LevelTiles(spec, i)
    <2>1. m \in Nat
        BY <1>2, LevelIs
    <2>. HIDE DEF absent
    <2>2. segs(i) = [j \in 1 .. m |-> IF j - 1 \in absent(i) THEN 0 ELSE tile]
        OBVIOUS
    <2>. HIDE DEF m, segs
    <2>. QED BY <1>3, <2>1, <2>2
<1>5. ASSUME NEW i \in 1 .. n, NEW t \in DOMAIN tags(i) PROVE tags(i)[t] \in Nat
    <2>1. spec.spp \in Nat /\ spec.geo.keys \in Nat /\ spec.geo.ascii \in Nat /\ spec.geo.noData \in Nat
        BY DEF CogSpec
    <2>2. tags(i)[t] = TagBytes(t, spec.spp, spec.geo)
        BY DEF TileTags
    <2>. HIDE DEF tags
    <2>. QED BY <2>1, <2>2, TagBytesIs
<1>6. ASSUME NEW i \in 1 .. n PROVE SoundImage(one(i))
    <2>. HIDE DEF segs
    <2>1. Bounded(DOMAIN tags(i) \cup {324, 325})
        <3>. DEFINE D == DOMAIN tags(i) \cup {324, 325}
        <3>1. DOMAIN tags(i) =
                ImageTags \cup {317, 322, 323} \cup (IF i = 1 THEN GeoTags(spec.geo) ELSE {254})
            BY Zenon DEF TileTags
        <3>2. \A t \in D : t \in ImageTags \cup {278, 317, 322, 323, 254, 273, 279, 324, 325}
                                          \cup {33550, 33922, 34735, 34737, 42113}
            <4>. HIDE DEF tags
            <4>. QED BY <3>1 DEF GeoTags
        <3>. HIDE DEF D
        <3>3. Bounded(D)
            BY <3>2, TagsBelow
        <3>. QED BY <3>3 DEF D
    <2>. HIDE DEF tags
    <2>2. one(i).tags = tags(i) /\ one(i).places = {324, 325} /\ one(i).segs = segs(i)
        OBVIOUS
    <2>3. segs(i) \in Seq(Nat) /\ \A t \in DOMAIN tags(i) : tags(i)[t] \in Nat
        BY <1>4, <1>5
    <2>. DEFINE d == one(i)
                a == tags(i)
                b == segs(i)
                c == {324, 325}
    <2>4. /\ d.tags = a /\ d.places = c /\ d.segs = b
          /\ b \in Seq(Nat) /\ \A t \in DOMAIN a : a[t] \in Nat
          /\ \E k \in Nat : DOMAIN a \cup c \subseteq 0 .. k - 1
        BY <2>1, <2>2, <2>3 DEF Bounded
    <2>. HIDE DEF a, b, c, d
    <2>5. SoundImage(d)
        BY <2>4 DEF SoundImage
    <2>. QED BY <2>5 DEF d
<1>. HIDE DEF one
<1>7. DOMAIN specs = 1 .. n /\ specs = [i \in 1 .. n |-> specs[i]] /\ \A i \in 1 .. n : specs[i] = one(i)
    BY <1>2
<1>. HIDE DEF specs
<1>8. Len(specs) = n
    BY <1>2, <1>7, LengthIs
<1>. QED BY <1>1, <1>2, <1>6, <1>7, <1>8

\* buildIFD takes every image of a COG whose tiles are not too large.
LEMMA CogAccepted ==
    ASSUME NEW spec, CogSpec(spec), CogFits(spec), NEW i \in DOMAIN spec.factors,
           NEW d, d = CogImage(spec, i), TileWidth(d) <= 2^14
    PROVE  Accepts(d) /\ Judged \subseteq DOMAIN d
<1>1. /\ d.width \in Nat \ {0} /\ d.height \in Nat \ {0} /\ d.tw = spec.ts /\ d.th = spec.ts
      /\ d.offsets = TileCount(d.width, d.height, spec.ts)
      /\ d.counts = TileCount(d.width, d.height, spec.ts)
    BY LevelIsTold
<1>2. /\ d.layout = "tiles"
      /\ d.compression = "deflate" /\ d.planar = 1 /\ d.bits = spec.bits /\ d.format = "uint"
      /\ d.predictor = 2 /\ d.spp = spec.spp
      /\ Judged \subseteq DOMAIN d
    BY DEF CogImage, Judged
<1>3. spec.ts \in Nat \ {0} /\ spec.spp \in {1, 3, 4} /\ spec.bits \in {8, 16}
    BY DEF CogSpec
<1>4. TileWidth(d) = spec.ts /\ TileHeight(d) = spec.ts
    BY <1>1, <1>2 DEF TileWidth, TileHeight
<1>5. 2^14 \in Nat
    OBVIOUS
<1>6. spec.ts \in 1 .. 2^14
    BY <1>3, <1>4, <1>5
<1>7. Readable(d)
    BY <1>1, <1>2, <1>3, <1>4, <1>6 DEF Readable
<1>8. d.offsets = Segments(d) /\ d.counts = Segments(d)
    BY <1>1, <1>4 DEF Segments, Across, TileCount
<1>. QED BY <1>2, <1>7, <1>8 DEF Accepts

\* The parts of a file that WriteCOG has made lie apart, for images, tiles and
\* decimations of every size.  If the tags can tell them (a file of less than
\* 4 GiB, a tile of less than 2^16 pixels a side), the tables tell where the parts
\* are, and Open takes the file when it is within its limits.
THEOREM CogIsRead ==
    ASSUME NEW spec, CogSpec(spec)
    PROVE  /\ Apart(CogWritten(spec))
           /\ CogFits(spec) => TellsTrue(CogWritten(spec))
           /\ CogFits(spec) /\ InReach(CogWritten(spec), CogImages(spec)) =>
                \E s \in Chains(WriteCog(spec)) : WellFormed(WriteCog(spec), s)
<1>. DEFINE n == Len(spec.factors)
            images == CogImages(spec)
            w == CogWritten(spec)
            s == [i \in 1 .. n |-> w.dirs[i].off]
<1>1. n \in Nat \ {0} /\ DOMAIN spec.factors = 1 .. n
    BY CogSound
<1>2. PICK specs : /\ w = WriteFile(specs) /\ DOMAIN specs = 1 .. n /\ Len(specs) = n
                   /\ \A i \in 1 .. n : SoundImage(specs[i])
    BY CogSound
<1>3. DOMAIN images = 1 .. n /\ images = [i \in 1 .. n |-> images[i]]
      /\ \A i \in 1 .. n : images[i] = CogImage(spec, i)
    BY <1>1 DEF CogImages
<1>4. WriteCog(spec) = AsRead(w, images)
    BY DEF WriteCog
<1>. HIDE DEF n, images, w, s
<1>5. Len(images) = n
    BY <1>1, <1>3, LengthIs
<1>6. Apart(w) /\ (w.size < Longs => TellsTrue(w))
    BY <1>1, <1>2, WriteFileIsApart
<1>8. CogFits(spec) => w.size < Longs
    BY DEF CogFits, w
<1>7. ASSUME CogFits(spec), InReach(w, images) PROVE \E x \in Chains(WriteCog(spec)) : WellFormed(WriteCog(spec), x)
    <2>1. /\ w.dirs[n].end <= HdrMax /\ n <= MaxIFDs
          /\ \A i \in 1 .. n : TileWidth(images[i]) <= 2^14
        BY <1>3, <1>5, <1>7 DEF InReach
    <2>2. \A i \in 1 .. n : Accepts(images[i]) /\ Judged \subseteq DOMAIN images[i]
        BY <1>1, <1>3, <1>7, <2>1, CogAccepted
    <2>3. s \in Chains(AsRead(w, images)) /\ WellFormed(AsRead(w, images), s)
        BY <1>1, <1>2, <1>3, <1>5, <1>7, <1>8, <2>1, <2>2, WrittenIsRead DEF s
    <2>. QED BY <1>4, <2>3
<1>. QED BY <1>6, <1>7, <1>8 DEF w, images

\* No strip is empty.
LEMMA StripLengths ==
    ASSUME BuildInv, phase = "done", request.kind # "tiles", request.format = "gtiff",
           NEW n, n = StripCount(win.h, Rps)
    PROVE  /\ n \in Nat /\ DOMAIN ProductStrips = 1 .. n /\ Len(ProductStrips) = n
           /\ \A i \in 1 .. n : Len(ProductStrips[i]) \in Nat \ {0}
<1>. DEFINE row == Looks.spp * win.w
            h == win.h
            rps == Rps
            strips == ProductStrips
            rows(i) == Smaller(i * rps, h) - (i - 1) * rps
            Strip(i) == [p \in 1 .. rows(i) * row |-> Values[(i - 1) * rps * row + p - 1]]
<1>1. /\ h \in Nat \ {0} /\ row \in Nat \ {0} /\ rps \in 1 .. h /\ n \in Nat
      /\ \A i \in 1 .. n :
            (i - 1) * rps \in Nat /\ (i - 1) * rps < h /\ rows(i) = Smaller(rps, h - (i - 1) * rps)
      /\ strips = [i \in 1 .. n |-> Strip(i)]
    BY ProductIsCut
<1>. HIDE DEF row, h, rps, strips
<1>2. \A i \in 1 .. n : rows(i) \in Nat \ {0}
    <2>1. TAKE i \in 1 .. n
    <2>. DEFINE o == (i - 1) * rps
    <2>2. o \in Nat /\ o < h /\ rows(i) = Smaller(rps, h - o)
        BY <1>1
    <2>. HIDE DEF o, rows
    <2>. QED BY <1>1, <2>2 DEF Smaller
<1>3. ASSUME NEW i \in 1 .. n PROVE Len(strips[i]) \in Nat \ {0}
    <2>. DEFINE m == rows(i) * row
    <2>1. m \in Nat \ {0}
        <3>1. rows(i) \in Nat \ {0}
            BY <1>2
        <3>. HIDE DEF rows
        <3>2. 0 * row < rows(i) * row
            BY <1>1, <3>1, Products
        <3>. QED BY <1>1, <3>1, <3>2
    <2>2. strips[i] = [p \in 1 .. m |-> Values[(i - 1) * rps * row + p - 1]]
        BY <1>1
    <2>. HIDE DEF m
    <2>3. DOMAIN strips[i] = 1 .. m /\ strips[i] = [p \in 1 .. m |-> strips[i][p]]
        BY <2>2
    <2>4. Len(strips[i]) = m
        BY <2>1, <2>3, LengthIs
    <2>. QED BY <2>1, <2>4
<1>4. DOMAIN strips = 1 .. n /\ strips = [i \in 1 .. n |-> strips[i]]
    <2>. HIDE DEF Strip
    <2>. QED BY <1>1
<1>5. Len(strips) = n
    BY <1>1, <1>4, LengthIs
<1>. QED BY <1>1, <1>3, <1>4, <1>5 DEF strips

\* The image of a product is one that buildIFD takes when it is not too large.
LEMMA ProductAccepted ==
    ASSUME BuildInv, phase = "done", request.kind # "tiles", request.format = "gtiff",
           win.w < Longs, win.h < Longs,
           NEW d, d = ProductImage(ProductStrips), TileWidth(d) <= 2^14, TileHeight(d) <= 2^14
    PROVE  Accepts(d) /\ Judged \subseteq DOMAIN d
<1>. DEFINE n == StripCount(win.h, Rps)
            row == Looks.spp * win.w
<1>1. /\ win.w \in Nat \ {0} /\ win.h \in Nat \ {0} /\ Rps \in 1 .. win.h
    <2>1. row = Looks.spp * win.w /\ n = StripCount(win.h, Rps)
        OBVIOUS
    <2>. HIDE DEF n, row
    <2>. QED BY <2>1, ProductIsCut
<1>2. Len(ProductStrips) = n
    <2>1. n = StripCount(win.h, Rps)
        OBVIOUS
    <2>. HIDE DEF n
    <2>. QED BY <2>1, StripLengths
<1>3. /\ d.width = win.w /\ d.height = win.h /\ d.layout = "strips" /\ d.tw = 0 /\ d.th = Rps
      /\ d.compression = "deflate" /\ d.planar = 1 /\ d.bits = Looks.bits /\ d.format = Looks.format
      /\ d.predictor = 1 /\ d.spp = Looks.spp /\ d.offsets = n /\ d.counts = n
      /\ Judged \subseteq DOMAIN d
    <2>1. n = StripCount(win.h, Rps)
        OBVIOUS
    <2>. HIDE DEF n
    <2>2. Uint32(win.w) = win.w /\ Uint32(win.h) = win.h /\ Uint32(Rps) = Rps /\ Uint32(n) = n
        BY <2>1, SidesAreTold
    <2>. QED BY <1>2, <2>2 DEF ProductImage, Judged
<1>. HIDE DEF n
<1>4. TileWidth(d) = win.w /\ TileHeight(d) = Rps
    BY <1>1, <1>3 DEF TileWidth, TileHeight
<1>5. Across(d) = 1
    <2>. DEFINE w == win.w
    <2>1. Across(d) = CeilDiv(w, w)
        BY <1>3, <1>4 DEF Across
    <2>2. w \in Nat \ {0}
        BY <1>1
    <2>. HIDE DEF w
    <2>. DEFINE q == CeilDiv(w, w)
    <2>3. q \in Int
        BY <2>2, CeilIs
    <2>4. (0 < q <=> 0 * w < w) /\ (1 < q <=> 1 * w < w)
        BY <2>2, CeilAbove
    <2>. HIDE DEF q
    <2>5. q = 1
        BY <2>2, <2>3, <2>4
    <2>6. CeilDiv(w, w) = 1
        BY <2>5 DEF q
    <2>. QED BY <2>1, <2>6
<1>6. Segments(d) = n
    <2>1. Segments(d) = 1 * CeilDiv(win.h, Rps)
        BY <1>3, <1>4, <1>5 DEF Segments
    <2>2. CeilDiv(win.h, Rps) \in Int
        <3>. DEFINE h == win.h
                    rps == Rps
        <3>1. h \in Int /\ rps \in Nat \ {0}
            BY <1>1
        <3>. HIDE DEF h, rps
        <3>2. CeilDiv(h, rps) \in Int
            BY <3>1, CeilIs
        <3>. QED BY <3>2 DEF h, rps
    <2>. QED BY <2>1, <2>2 DEF n, StripCount
<1>7. <<d.bits, d.format>> \in {<<8, "uint">>, <<32, "float">>} /\ d.spp \in {1, 3}
    BY <1>3 DEF Looks
<1>8. TileWidth(d) \in 1 .. 2^14 /\ TileHeight(d) \in 1 .. 2^14
    <2>1. 2^14 \in Nat
        OBVIOUS
    <2>. QED BY <1>1, <1>4, <2>1
<1>9. Readable(d)
    BY <1>1, <1>3, <1>7, <1>8 DEF Readable
<1>. QED BY <1>3, <1>6, <1>9 DEF Accepts

\* The file of a product: its parts lie apart, and if its size fits a classic TIFF
\* its tables tell where they are and Open takes it within its limits.
LEMMA ProductLaidOut ==
    ASSUME BuildInv, phase = "done", request.kind # "tiles", request.format = "gtiff",
           NEW written, written = GeoTiff(ProductStrips),
           NEW images, images = <<ProductImage(ProductStrips)>>
    PROVE  /\ Apart(written)
           /\ ProductFits(written) => TellsTrue(written)
           /\ ProductFits(written) /\ InReach(written, images) =>
                WellFormed(AsRead(written, images), <<8>>)
<1>. DEFINE n == StripCount(win.h, Rps)
            strips == ProductStrips
            geo == [scale |-> ProductGrid.scaleX, keys |-> request.tags.keys,
                    ascii |-> request.tags.ascii,
                    noData |-> IF TwoBands THEN Len("nan") ELSE request.tags.noData]
            tags == StripTags(Looks.spp, geo)
            segs == [i \in DOMAIN strips |-> Len(strips[i]) * (Looks.bits \div 8) - 1]
            one == [tags |-> tags, places |-> {273, 279}, segs |-> segs]
            specs == <<one>>
<1>1. written = WriteFile(specs)
    BY DEF GeoTiff
<1>2. segs \in Seq(Nat)
    <2>1. n \in Nat /\ DOMAIN strips = 1 .. n /\ \A i \in 1 .. n : Len(strips[i]) \in Nat \ {0}
        <3>1. n = StripCount(win.h, Rps)
            OBVIOUS
        <3>. HIDE DEF n
        <3>. QED BY <3>1, StripLengths
    <2>2. Looks.bits \div 8 \in Nat \ {0}
        BY ProductHolds
    <2>. DEFINE bytes == Looks.bits \div 8
                len(i) == Len(strips[i])
                one1(i) == len(i) * bytes - 1
    <2>3. \A i \in 1 .. n : one1(i) \in Nat
        <3>1. TAKE i \in 1 .. n
        <3>2. len(i) \in Nat \ {0} /\ bytes \in Nat \ {0}
            BY <2>1, <2>2
        <3>. HIDE DEF len, bytes
        <3>3. 0 * bytes < len(i) * bytes
            BY <3>2, Products
        <3>. QED BY <3>2, <3>3
    <2>4. segs = [i \in 1 .. n |-> one1(i)]
        BY <2>1
    <2>. HIDE DEF one1, segs, n
    <2>. QED BY <2>1, <2>3, <2>4
<1>3. \A t \in DOMAIN tags : tags[t] \in Nat
    <2>1. geo.keys \in Nat /\ geo.ascii \in Nat /\ geo.noData \in Nat
        <3>1. request.tags.keys \in Nat /\ request.tags.ascii \in Nat /\ request.tags.noData \in Nat
            BY CasesAssumption DEF BuildInv, BuildTypes
        <3>2. Len("nan") \in Nat
            OBVIOUS
        <3>. QED BY <3>1, <3>2
    <2>2. Looks.spp \in Nat
        BY DEF Looks
    <2>. HIDE DEF geo
    <2>3. \A t \in DOMAIN tags : tags[t] = TagBytes(t, Looks.spp, geo)
        BY DEF StripTags
    <2>. HIDE DEF tags
    <2>. QED BY <2>1, <2>2, <2>3, TagBytesIs
<1>4. Bounded(DOMAIN tags \cup {273, 279})
    <2>. HIDE DEF geo
    <2>. QED BY StripTagsBelow
<1>5. SoundImage(one)
    <2>. DEFINE c == {273, 279}
    <2>1. one.tags = tags /\ one.places = c /\ one.segs = segs
        OBVIOUS
    <2>2. Bounded(DOMAIN tags \cup c)
        BY <1>4
    <2>. HIDE DEF tags, c, segs, one
    <2>. QED BY <1>2, <1>3, <2>1, <2>2 DEF SoundImage, Bounded
<1>. HIDE DEF n, strips, one
<1>. DEFINE k == 1
<1>6. k \in Nat \ {0} /\ DOMAIN specs = 1 .. k /\ Len(specs) = k /\ \A i \in 1 .. k : SoundImage(specs[i])
    BY <1>5
<1>. HIDE DEF specs, k
<1>7. Apart(written) /\ (ProductFits(written) => TellsTrue(written))
    BY <1>1, <1>6, WriteFileIsApart DEF ProductFits
<1>8. ASSUME ProductFits(written), InReach(written, images) PROVE WellFormed(AsRead(written, images), <<8>>)
    <2>. DEFINE d == ProductImage(strips)
                f == AsRead(written, images)
                s == [i \in 1 .. k |-> written.dirs[i].off]
    <2>1. images = <<d>>
        BY DEF strips
    <2>2. /\ written.dirs[k].end <= HdrMax /\ k <= MaxIFDs
          /\ TileWidth(d) <= 2^14 /\ TileHeight(d) <= 2^14
        <3>. HIDE DEF d
        <3>1. Len(images) = k /\ 1 \in DOMAIN images /\ images[1] = d
            BY <2>1 DEF k
        <3>. QED BY <1>8, <3>1 DEF InReach
    <2>3. Accepts(d) /\ Judged \subseteq DOMAIN d
        BY <1>8, <2>2, ProductAccepted DEF strips, ProductFits
    <2>. HIDE DEF d
    <2>4. DOMAIN images = 1 .. k /\ Len(images) = k
          /\ \A i \in 1 .. k : Accepts(images[i]) /\ Judged \subseteq DOMAIN images[i]
        BY <2>1, <2>3 DEF k
    <2>5. WellFormed(f, s)
        <3>1. f = AsRead(written, images) /\ s = [i \in 1 .. k |-> written.dirs[i].off]
            OBVIOUS
        <3>2. written.size < Longs
            BY <1>8 DEF ProductFits
        <3>. HIDE DEF f, s
        <3>. QED BY <1>1, <1>6, <2>2, <2>4, <3>1, <3>2, WrittenIsRead
    <2>6. s = <<8>>
        <3>1. written.dirs[1].off = 8
            BY <1>1, <1>6, WriteFileIs
        <3>. QED BY <3>1 DEF k
    <2>. QED BY <2>5, <2>6
<1>. QED BY <1>7, <1>8

-----------------------------------------------------------------------------
(* What is written can be read.                                            *)

\* A build that failed of a header was opening one of its files, and the verdict
\* on it still stands.
VerdictInv ==
    /\ phase # "error" => why # "header"
    /\ why = "header" => stage = "failed"
    /\ file \in {request.file} \cup (IF request.kind = "ndvi" THEN {request.nir} ELSE {})

LEMMA FileStays ==
    ASSUME HeaderNext
    PROVE  file' = file
BY DEF HeaderNext, Buffering, Refuse, ReadRange, ReadCut, ReadFails, Asking, Take, Fail,
       ReadMagic, ReadCount, ReadTable, ReadValue, Judge, GeoDone, NextIFD, bufferVars

LEMMA VerdictStep ==
    ASSUME BuildInv, VerdictInv, [Next]_vars
    PROVE  VerdictInv'
<1>1. CASE OpenStep
    <2>1. phase = "open" /\ UNCHANGED <<request, phase, why>> /\ file' = file
        BY <1>1, FileStays DEF OpenStep, buildVars
    <2>. QED BY <2>1 DEF VerdictInv
<1>2. CASE OpenFails
    <2>1. stage = "failed" /\ phase' = "error" /\ UNCHANGED <<request, file, stage>>
        BY <1>2 DEF OpenFails, End, headerVars
    <2>. QED BY <2>1 DEF VerdictInv
<1>3. CASE OpenNir
    <2>1. /\ phase = "open" /\ request.kind = "ndvi" /\ file' = request.nir
          /\ UNCHANGED <<request, phase, why>>
        BY <1>3 DEF OpenNir, Reopen, TwoBands
    <2>. QED BY <2>1 DEF VerdictInv
<1>4. ASSUME UNCHANGED <<request, file, stage>>,
             UNCHANGED <<phase, why>> \/ (phase # "error" /\ why' # "header")
      PROVE  VerdictInv'
    BY <1>4 DEF VerdictInv
<1>5. CASE PickWindow
    <2>. DEFINE f == Placing
                full == FullWindow(f)
                i == LevelOf(f)
                w == LevelWindow(f, i, request.box)
    <2>1. phase = "open" /\ UNCHANGED headerVars
        BY <1>5 DEF PickWindow
    <2>2. \/ End("error", "outside") \/ End("error", "grids") \/ End("error", "bounds")
          \/ StartLevel(i, w, f.levels[i])
        BY <1>5 DEF PickWindow, FullWindow, LevelOf
    <2>. HIDE DEF i, w, f
    <2>3. UNCHANGED request /\ why' \in {why, "outside", "grids", "bounds"}
        BY <2>2 DEF End, StartLevel, StartRead
    <2>4. UNCHANGED <<file, stage>>
        BY <2>1 DEF headerVars
    <2>. QED BY <1>4, <2>1, <2>3, <2>4 DEF VerdictInv
<1>6. CASE NextBand
    BY <1>4, <1>6 DEF NextBand, StartLevel, StartRead, headerVars, VerdictInv
<1>7. CASE CutMosaic
    <2>1. /\ phase = "mosaic" /\ UNCHANGED <<request, file, stage>>
          /\ why' \in {why, "antimeridian", "latitude", "empty", "zoom", "outside"}
        BY <1>7 DEF CutMosaic, End, StartRead, headerVars
    <2>. QED BY <1>4, <2>1 DEF VerdictInv
<1>8. ASSUME NEW tile \in todoTiles, ReadTile(tile) \/ DrawTile(tile) \/ SkipTile(tile)
      PROVE  VerdictInv'
    <2>1. phase = "read" /\ UNCHANGED <<request, file, stage>> /\ why' \in {why, "index"}
        BY <1>8 DEF ReadTile, End, DrawTile, SkipTile, headerVars
    <2>. QED BY <1>4, <2>1 DEF VerdictInv
<1>9. CASE ReadTileFails \/ Write
    <2>1. phase = "read" /\ UNCHANGED <<request, file, stage>> /\ why' \in {why, "tile", "format"}
        BY <1>9 DEF ReadTileFails, Write, End, headerVars
    <2>. QED BY <1>4, <2>1 DEF VerdictInv
<1>10. CASE UNCHANGED vars
    BY <1>4, <1>10 DEF vars, buildVars, headerVars
<1>. QED BY <1>1, <1>2, <1>3, <1>5, <1>6, <1>7, <1>8, <1>9, <1>10 DEF Next

LEMMA VerdictInvHolds == Spec => [](BuildInv /\ VerdictInv)
<1>1. Init => VerdictInv
    BY DEF Init, VerdictInv
<1>2. BuildInv /\ VerdictInv /\ [Next]_vars => VerdictInv'
    BY VerdictStep
<1>. QED BY <1>1, <1>2, BuildInvHolds, PTL DEF Spec

\* A file of WriteCOG that Open does not take is beyond its limits.
LEMMA RefusedIsTooLarge ==
    ASSUME BuildInv, VerdictInv, why = "header", request.cog # {}, ~trouble
    PROVE  \E spec \in request.cog : ~InReach(CogWritten(spec), CogImages(spec))
<1>1. request \in Cases
    BY DEF BuildInv, BuildTypes
<1>2. file \in {WriteCog(spec) : spec \in request.cog} /\ \A spec \in request.cog : CogSpec(spec)
    BY <1>1, CasesAssumption DEF VerdictInv
<1>3. PICK spec \in request.cog : file = WriteCog(spec) /\ CogSpec(spec)
    BY <1>2
<1>4. \A s \in Chains(file) : ~WellFormed(file, s)
    BY HeaderVerdict DEF BuildInv, VerdictInv, OpensWhatItShould
<1>5. ~InReach(CogWritten(spec), CogImages(spec))
    <2>1. CogFits(spec)
        BY <1>1, CasesAssumption
    <2>. QED BY <1>3, <1>4, <2>1, CogIsRead
<1>. QED BY <1>5

LEMMA ReadableHolds ==
    ASSUME BuildInv, VerdictInv
    PROVE  ProductReadable
<1>1. ASSUME NEW spec \in request.cog PROVE Apart(CogWritten(spec)) /\ TellsTrue(CogWritten(spec))
    <2>1. CogSpec(spec) /\ CogFits(spec)
        BY CasesAssumption DEF BuildInv, BuildTypes
    <2>. QED BY <2>1, CogIsRead
<1>2. ASSUME phase = "done", request.kind # "tiles", request.format = "gtiff",
             NEW strips, strips = ProductStrips,
             NEW images, images = <<ProductImage(strips)>>,
             NEW written, written = GeoTiff(strips)
      PROVE  /\ Apart(written) /\ BoxIsWhole
             /\ ProductFits(written) =>
                    /\ TellsTrue(written)
                    /\ InReach(written, images) => WellFormed(AsRead(written, images), <<8>>)
                    /\ StripsReadBack(strips)
    <2>1. written = GeoTiff(ProductStrips) /\ images = <<ProductImage(ProductStrips)>>
        BY <1>2
    <2>2. /\ Apart(written)
          /\ ProductFits(written) => TellsTrue(written)
          /\ ProductFits(written) /\ InReach(written, images) =>
                WellFormed(AsRead(written, images), <<8>>)
        BY <1>2, <2>1, ProductLaidOut
    <2>3. ProductFits(written) => StripsReadBack(strips)
        BY <1>2, ProductReadsBack DEF ProductFits
    <2>. QED BY <1>2, <2>2, <2>3, ProductPlaced
<1>. QED BY <1>1, <1>2, RefusedIsTooLarge DEF ProductReadable

\* A GeoTIFF that the service writes is one that it reads: its parts lie apart
\* (stripSpec, writeFile) and its grid finds the box again; and if its size fits a
\* classic TIFF, the tables tell where the parts are, Open takes it unless it is
\* beyond its limits, and its strips give the samples back.  The same of the
\* layout of WriteCOG's files.
THEOREM ProductsAreReadable == Spec => []ProductReadable
BY VerdictInvHolds, ReadableHolds, PTL

=============================================================================
