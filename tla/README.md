# Verification of satfetch

TLA+ models of satfetch, the Go service in this repository that answers HTTP
requests for satellite imagery: what TLC checks about them on small instances,
and what TLAPS proves about them for all values of their constants. Each definition that models
code is tied to its source lines in `PROJECT.json` ("map").

## 1. The system

| Part | Code | State | Operations |
|---|---|---|---|
| Single-flight and build slots | `satfetch.go` `buildCached`, `build*` | `s.flight` (key to channel) under `s.mu`, the semaphore `s.sem` | look up, join or start a flight, wait, take a slot, build, release, end the flight |
| Disk cache | `internal/cache` | files with mtimes, temporaries, `done`/`closed` | `New`, `Get`, `Put`, `evict`, `loop`, `Close` |
| Tile worker pool | `internal/cog/reader.go`, `internal/tiles` | raster, slots, first error, a cancelable context | `ReadWindow`, `Fetch` |
| Upstream requests | `earthsearch.go`, `cog/source.go`, `tiles.go`, `wms.go`, `arcgis.go` | attempt counter, streamed bytes | five copies of one retry loop |
| HTTP API and metrics | `internal/httpapi` | counters under a mutex | handlers, status mapping, recovery, `/metrics` |
| Token signer | `internal/pcsign` | token and expiry under a mutex | `Sign`, `get`, `fetch` |
| COG header and grid | `cog/tiff.go`, `cog/reader.go` | header buffer, levels, grid | `Open`, `ensure`, `Window`, `PickLevel` |
| Validation, source registry | `request.go`, `satfetch.go` `New` | source maps, set once | `normalize`, `claim`, dispatch |
| Tile mosaics | `internal/tiles` | the mosaic, under a mutex | `globalPx`, the covering tiles, `draw.Draw` |
| Writers, rendering, projection | `tiffw`, `render`, `geo`, `cog/predictor.go` | none | pure computations |
| Command | `cmd/satfetch` | none | flags, start, shutdown |

How they interact. A handler runs in its own goroutine and calls the service.
For products of a catalog the service first asks the catalog, whose items'
URLs may be signed on the way; then it asks the cache and, on a miss, builds.
A build takes a slot, gets a context with the build timeout, reads windows
through the worker pool or streams a server's answer straight into the file
that `Put` will rename. The eviction loop runs beside all of this on the same
files. The client's context reaches every wait.

What is hard: callers that race for a key, a channel closed in a step after
its map entry is removed, slots and temporaries on every failing path, an
eviction pass that decides from what it saw earlier, workers that are canceled
by their siblings, retries that append to a stream, errors that lose their
cause as they are wrapped, signatures that age in a queue, a file's header
that may point anywhere, windows that are rounded on two grids, keys that leave
something out, and the process ending anywhere. `PROJECT.json` lists these hazards at their lines, with the
properties that would catch them.

What makes each part correct:

- single-flight: one build per key at a time; every waiter is woken; nobody
  inherits another's failure; slots are returned on every path;
- cache: a product's path never shows a partial file, also after a crash; a
  finished `Put` keeps no temporary; a pass that believes the cache fits is
  right about what it could see, and removes in the order of use; the cap is
  reached in the end;
- pool: bounded workers, no write after the return, the first real error is
  the one returned, success means complete;
- retries: they stop, also for a canceled caller; bytes of two attempts never
  mix; an error says truly whether the context ended;
- API: counters agree with the requests and with each other; a status tells
  the cause; a product that is served is one for what was asked, whoever it was
  built for;
- header: whatever a file says, the buffer and the requests are bounded, `Open`
  ends, and its verdict is about the file;
- window and raster: the output is the part of the box that the file has, no
  coarser than the size asked for makes necessary; every sample comes from its
  place in the file;
- writer: the file's parts lie apart, and what is written reads back;
- signer: one token request for a burst of callers; a signature outlives the
  read it was made for.

## 2. Modules

| Module | Models | State and actions |
|---|---|---|
| `SingleFlight` | what `buildCached` promises, without map, channels or slots | `want`, `working`, `answer`, `store`; `Ask` ... `Return` |
| `BuildFlight` | `buildCached`, the select on `s.sem`, the build's end, eviction as seen from here | a program counter per caller; one action per step between two lock operations, channel operations or cache calls |
| `DiskCache` | `internal/cache` at the grain of file-system calls, with readers, writers, the evictor, `Close` and the process ending | `file`, `temp`, `junk` on disk; `now` is a local of `Get`; `snap`, `todo`, `total` are the locals of `evict`; `used`, `overtaken`, `late`, `unlisted`, `stuck` are history that only properties read |
| `Service` | `BuildFlight` over `DiskCache`: a caller is a reader when it looks up and a writer in `Put`; the handler's open; the end of the process | both modules' variables, with `cached` of the one being the files of the other; actions are conjunctions of theirs |
| `TilePool` | the loop, the workers and the join of `ReadWindow`/`tiles.Fetch` | a program counter per tile |
| `RetryFetch` | the five retry loops; one `Judge...` operator each says what an answer means | `attempt`, `sink` (attempts whose bytes are in the file), `ctxDone` |
| `ProductRequest` | a request through its stages, with every way each can fail, the sentinel class of the error, the status and the counters | `stage`, `cause`, `class`, `status`, counters |
| `RequestKey` | what the request asks for: the query, `params`, `normalize`, the dispatch on the source, the resolved scene, the cache key and the product served | `asked`, `taken`, `scene`, `shelf`; its actions are those of `ProductRequest`, guarded by the data |
| `Signer` | `pcsign` and the life of a signature until its asset was read | clock, `mu`, `token`, `sig`, `handed`, `since` |
| `CogHeader` | `cog.Open`: `ensure`, `parseIFD`, `tagData`, the checks of `buildIFD`, `parseGeo` | `hdr`, `eof`, the present offset, the values still to read, the directories taken |
| `ImageWindow` | operators: `Window`, `Decimation`, `PickLevel`, `LevelGrid`, the covering tiles, the samples `readTile` copies, the mosaic's window and zoom | none |
| `TiffFile` | operators: the strips and the layout of `tiffw`, its fixture builder, the predictor and its inverse | none |
| `ImageBuild` | a build on top of these three: open, choose level and window, copy tile by tile, second band, mosaic, product | `phase`, `level`, `win`, `raster`, `todoTiles`, `bands` |
| `Rounding` | integer quotients as Go and `math` round them | none |

`MC*.tla` have the symmetry set and the inputs of the runs that need them; `*Proofs.tla` hold
the theorems. `BuildFlight` instantiates `SingleFlight` under a refinement
mapping (`Promise`). Operators called "Faulty variant" in comments are not part
of any specification: each is a definition of the module with a plausible bug,
kept to show that the property named in `PROJECT.json` ("mutants") notices.

Correspondence that is not obvious:

- A channel of `s.flight` is named by the caller that made it. Its close
  rewrites the channel of every waiter to `Closed`; Go's random choice between
  a closed channel and a done context is two enabled actions.
- `BuildFlight` keeps a panic as an action of its own: the deferred release of
  the slot runs, the removal of the flight (not deferred) does not.
- `DiskCache`: `Get` reads the clock (`ReadClock`) and sets the mtime to what
  it read (`Touch`) in two steps, so a stamp may go back. `Visit` reads a file's
  mtime when the walk reaches it; a file that came after the walk began may be
  missed, as `WalkDir` lists directories as it goes (`NotListed`). The errors
  that the code ignores are outcomes of their steps: `os.Chtimes` (`Touch`),
  the deferred `os.Remove` of a temporary (`RemoveTemp`), a directory or file
  that the walk cannot read (`VisitFails`); those it looks at are actions
  (`WriteFail`, `RenameFail`, `PruneFail`). Every product counts one unit of the
  cap. Time stamps beyond `MaxTime` tie.
- `RetryFetch`: an attempt begun under a dead context fails in `client.Do`. A
  body may come whole, cut short, broken, or be of another kind than asked.
- `ProductRequest`: a failure is a pair of its cause and the class that
  `errors.Is` can still find; the failures of each stage are read off the
  call's wrapping (`%w: %v` keeps the first and drops the second). What
  `http.ServeContent` may answer about a product is `Served`, the 412 of a
  failed precondition included.
- `Signer`: the token request happens with the mutex held. Limits on requests
  and builds are kept by not letting time pass beyond them; the wait for a
  build slot has no limit, as in the code.
- `Service`: both modules keep their own actions; a step of the whole is one of
  them with the other's variables unchanged, or a joint step: `Hit` is `StatHit`
  with `CacheHit`, `Publish` is `Rename` with `BuildOK`, `Fail` ends a `Put` and
  its build, `Evict` is `Prune` with `Evict`, and `Return` of a built product is
  `CloseFlight` with `OpenBuilt`: the handler opens the path it was given. A
  client matters only where a select looks at its context.
- `CogHeader`: a file is what its bytes mean to `Open`: for every offset, the
  length of the table there, where its values end, the next offset and the
  fields `buildIFD` judges. Values are fetched in the order of the code.
- `ImageWindow`: coordinates are integers in a fraction of a pixel, so a box may
  begin anywhere in one, and quotients are exact where the code rounds floats.
  The zoom of a mosaic is reckoned from the size asked for, as in `pickZoom`,
  and not from the box, which `AOIDegrees` makes a little higher.
- `TiffFile`: what the code converts to `uint16` or `uint32` loses what does not
  fit (`Uint16`, `Uint32`). The widths are constants, `Shorts` for 2^16 and
  `Longs` for 2^32, so that TLC can count with them.
- `ImageBuild`: a worker's copy is one action, in any order; the samples of a
  file are a function of their place that tells them apart. An index out of
  range is the phase "panic". That a worker leaves its tile without an error when
  its context is done is in `TilePool`; here such a raster is never complete.
  `CutMosaic` has the refusals on the way to a mosaic: the antimeridian by
  `AOIDegrees`; the latitudes, an empty box and the 24 zoom levels by `validate`;
  an empty window by `Fetch`.
- `RequestKey`: numbers are integers one digit finer than the key prints them,
  and three values stand for an absent parameter, one that is no number, and
  NaN. A key is the sequence of its fields; the code joins them with `|`.
  The look-up and the start of a flight are one step (`BuildFlight` and `Service`
  have the steps between): a product that is built once more is the same product.
  The zoom of a mosaic, which the code reckons from the size before it is rounded
  for the key, is not among what `ServedAsAsked` compares.

## 3. Runs

`tlc -config <run>.cfg <module>`; modules are in `PROJECT.json`.

| Run | Instance | Shows |
|---|---|---|
| `flight` | 2 callers, 2 keys, 1 slot, panics of one key | one build per key, exact slots, no lost wake-up, own outcomes, a builder for every flight, refinement of `SingleFlight`; every call returns unless products keep being lost |
| `flight_panic` | 2 callers, 1 key, panics | violated: the key of a panicked build is stuck |
| `cache` | 2 keys, cap 1, 1 writer, 1 reader, 1 mishap (a crash or a temporary that stays) | whole products, no temporary kept by a finished `Put`, passes that fit do fit what they could see, eviction in the order of use up to two races; the cap is reached and kept |
| `service` | 2 callers, 2 keys, 1 slot, cap 1, panics, 1 mishap | a product that is there is not built again by who waited for it; temporaries are bounded by slots, crashes and failed removals |
| `cog` | 868 headers of up to 3 directories, 576 pyramids and boxes, 96 pairs of bands, 196 mosaics | `Open`'s bounds, verdict and end; the output is the box, to less than a pixel; every sample is in its place; the product reads back |
| `pool` | 4 tiles, 2 slots | completeness, root cause, no late write, return |
| `pool_partial` | 2 tiles, 1 slot | violated: a raster with missing tiles is a success when the context ends between two requests |
| `retry` | all five loops, 4 attempts | no mixed bodies, prompt stop, honest errors, return |
| `retry_short` | range reads | violated: a dropped connection is taken for the end of the file |
| `request` | 54 pairs of requests of all 6 kinds, 5 sources, 2 scenes | counters, the meaning of 404, what the key tells apart, the two copies of the limits |
| `request_timeout` | 1 request | violated: a build timeout is answered 502, not 504 |
| `signer` | 2 callers, margin 2, request and build limit 1, lives 1 and 4, clock to 8 | promptly read signatures live, one token request per margin, every `Sign` returns |

Why the bounds are enough to be interesting. Two callers on one key are a
builder and a waiter, or a newcomer that arrives between removal and close; the
second key makes them compete for the one slot; the theorems cover any number
of either. Two keys over a cap of one force every pass to choose, and one mishap
reaches every step of a `Put` and of a pass. In `cache` the products of an
earlier process have the stamp 0 and the clock goes to 1, so a use is later than
none at all; two uses of a key overlap as a hit and a `Put`. In `service`, where
the two callers both write, all time stamps tie (`MaxTime` 0), so any eviction
order happens; states are told apart by `MCView`, which leaves out what no step
and no property of that run looks at.
In `cog` the header limit is 4 chunks and 3 directories, so that chains just
within and just beyond both exist, circular ones and cut answers too; rasters
are smaller than 10 x 10 with tiles of 3 and 4 and strips of 2 rows, which has
every case of full, partial, padded, absent and last pieces; strips of the
product hold 24 bytes, so there are several. Boxes begin at every quarter of a
pixel that matters, inside, across and outside of the raster. Mosaics have
tiles of one and two times the size the zoom is reckoned with, at the map's
edges, over them and inside, and boxes that are higher than wide in the
proportion the code gives them. Files of some kilobytes fit `Longs`, 2^16 here;
beyond it the theorems say what is left. Four tiles on two slots leave two queued while one fails and
one is canceled. Four attempts are the code's number. Two requests interleave
between each other's counter updates and between look-up and publication; the
pairs of `request` differ in one parameter at a time, on both sides of the
key's rounding and of each limit. A life of 4 is twice the margin, a life of 1
is under it, and eight units of time let a token be issued, go stale and be
replaced. `MaxTime` and `MaxMishaps` bound the clocks, and the crashes and temporaries
that stay; nothing else is cut off. Deadlock is checked except where calls end for good
(`TilePool`, `RetryFetch`, `ProductRequest`, `RequestKey`, `ImageBuild`). The
types of `DiskCache` and `Signer` and the slots of `TilePool` are left to their
theorems.

Symmetry is used only in runs without liveness properties.

`ProductReadable` says that `Open` takes a written file only within the limits
that `Open` has (`InReach`): 4 MiB up to the end of the last directory, 32
directories, tiles and strips of at most 2^14 pixels a side. The writers know
none of them; a product more than 2^14 pixels wide would be written and refused.
Nor do they know the 4 GiB of a classic TIFF: `writeFile` would wrap its offsets
without an error. What the property says of reading back is therefore said of
products below that (`ProductFits`); 50 km at 10 m a pixel, the most that can be
asked for, are some 75 MB.

Fairness, and why the code justifies it:

- `BuildFlight`: goroutines run; a build ends because it has its own timeout;
  `AcquireSlot` is strongly fair because senders blocked on a Go channel are
  queued first in, first out.
- `DiskCache`: the loop's goroutine runs and the ticker fires; the process is
  started again (an assumption on its operator); some file can be removed when
  again and again one is due (an assumption on the file system). `EventuallyFits`
  assumes besides that walks no longer skip a product for an error; else the cap
  may never be seen to be exceeded, which the code lets happen.
- `TilePool`, `RetryFetch`, `ImageBuild`: goroutines run, timers fire, requests end by the
  client's timeout of two minutes (30 seconds for the catalog).
- `Signer`: the token request has its timeout; `sync.Mutex` starves nobody.

`CallsReturn` needs its escape: a waiter looks into the cache again when it is
woken, and if the build it waited for failed or its product was evicted, it
builds or waits anew. With infinitely many such losses it may wait forever,
which is what the code does.

## 4. Proofs

`tlapm <module>Proofs.tla`. Constants are arbitrary except for the named
assumptions in each module: finite sets of actors (keys and writers for the
cache), at least one slot, positive caps and attempts, `None` outside the sets
it marks absence from; for a build, strips and map tiles of positive size and
directories whose fields are numbers, sound or not, tags of some length, and
COGs of whatever `WriteCOG` takes (`CogSpec`); for the signer also that a
build's limit is within the refresh margin (one minute against five). The
theorems about files that are read again hold for files of less than `Longs`
bytes, COGs of tiles of less than `Shorts` pixels a side: below that the 32 and
16 bit fields tell what was written.

| Module | Proved | Argument |
|---|---|---|
| `BuildFlightProofs` | `TypeOK`, `AtMostOneBuild`, `SlotsCounted`, `NoLostWakeup`, `OutcomeIsOwn`, `FlightsHaveBuilder` (for keys whose builds do not panic), `KeepsPromise` | `AtMostOneBuild` is not inductive: what excludes a second builder is the map entry, so the invariant says that whoever is between registration and removal is the one the entry names (`Owns`). The refinement needs in addition that an outcome is undecided up to the end of the build and decided after (`Decided`) |
| `DiskCacheProofs` | `TypeOK`, `OnlyWholeProducts`, `NoTempLeak`, `FitsAfterPass`, `LruUpToRaces` | a product is whole because it was whole before the rename; a pass may trust its total because the total is never below the number of products it has walked past and left, or seen and not yet dealt with (`PassCounts`); the mtime the walk read is the last use of a file that was neither stamped since nor overtaken, and never more than the last use of any |
| `TilePoolProofs` | `TypeOK`, `SlotsCounted`, `OkIsComplete`, `RootCause`, `NoLateWrite` | a worker that ends without settling its tile leaves a reason: a reported error or a caller whose context is done (`LeftForReason`, `CanceledForReason`) |
| `RetryFetchProofs` | `TypeOK`, `NoMixedBody`, `StopsWhenCanceled`, `HonestResult` | a call that is still retrying has streamed nothing, and an attempt begun under a dead context is its last (`StreamedLast`, `LateIsLast`) |
| `RequestKeyProofs` | `TypeOK`, `TotalsMatch`, `BooksBalance`, `CoverageIs404`; `KeysAreRequests`: `RequestKey` implements `ProductRequest`, so these hold of it too; `ServedAsAsked`, `TakenAsGiven` | status and cause are tied when the answer is written (`Sound`); the two counters of a request are an action apart, and the requests in between are counted (`Balanced`). A product is served by its key only: the invariant says that whatever is in the cache was made for some request that was taken (`Genuine`), and a lemma that keys which are equal are of requests alike (`KeyTells`) |
| `SignerProofs` | `TypeOK`, `SurvivesPromptRead`, `OneFetchPerMargin` | the clock is bounded relative to the stamps of whoever is under way, and the token a fetching caller found stale is still the cached one (`StaleWhileFetching`) |
| `ServiceProofs` | `NoNeedlessBuild`, `TempsWithinSlots`; `ServiceIsDiskCache`: the composition implements `DiskCache`; with it `OnlyWholeProducts`, and over the files of ended processes `AtMostOneBuild`, `SlotsCounted`, `NoLostWakeup` | a `Put` is inside the build of its caller and for its key (`Link`), so a temporary is held by an owner of a slot; a caller that need not build waits or looks up, and its product is there (`ThereIsPresent`). The invariants of the parts are taken over by instantiating their proof modules |
| `ImageBuildProofs` | the header: `HeaderBounded`, `OpensWhatItShould`. The geometry: `WindowIsBox`, `CoveringIsNeeded`, `CopiesInBounds`, `SampleIsCopied`, `SampleIsCopiedOnce`, `OutputWithinPixel`. The predictor: `PredictorUndone`. The build: `RasterIsWindow`, `OutputHugsBox`. The files: `ProductReadable`, from `WriteFileIsApart`, `WrittenIsRead`, `CogIsRead`, `StripsHold` and `ProductsArePlaced` | see below |

The proof about a build, in the order of the module:

1. *Open.* The buffer is a whole number of chunks until an answer falls short
   (`BufferInv`); the directories taken are a sound chain from the first to the
   present one (`ChainInv`); and for any well-formed chain of the file, `Open` is
   at the head of what is left of it (`AlongInv`), so nothing but a failed or cut
   request makes it refuse. An opened file has levels, each with positive sizes
   and a tile of positive size (`Whole`, `Picture`).
2. *Geometry.* Floors and ceilings of quotients are placed between their
   neighbours; positions in rows of rows are one to one (`IndexOnce`), so every
   sample of the window is copied from one tile only, and nothing is copied from
   or to outside. A span on a grid k times as coarse has at most a k-th of the
   pixels, rounded up, and one (`SpanShrinks`), which is not there when it begins
   with a coarse pixel (`SpanCoarser`); and it has no fewer than a k-th
   (`SpanExceeds`), so a level that was passed over would have been too large.
3. *The data of a tile.* Undoing the predictor is a recursion along a row: the
   samples that were differenced satisfy it, and nothing else does, by the first
   position where another solution would differ (`PredictorUndone`). What `readTile` makes of a tile is then its pixels,
   zeros for an absent one (`DecodedIs`, `SampleInTile`).
4. *The invariant* (`BuildInv`). While a level is read, the files of the product
   are open, level and window are those `Service.window` picks, and the raster
   has the right sample at every place whose tile is not still to come
   (`Filled`; `Painted` for a mosaic, which is black where a tile is still to
   come or is not there). That the window lies in the second
   band's level too is why `buildNDVI` compares their sizes. A build that ended
   with "outside" has looked for a window and found none. `RasterIsWindow` alone
   is not inductive: it says nothing of a raster before it is complete.
5. *The output.* The pixels of a range on the level's grid begin in the first
   pixel of what the range and the raster have in common and end in the last
   (`SpanEnds`, `WindowSpans`), whatever the factor. That no finer level would
   have kept to the size, and where the picked one does, is the arithmetic of
   step 2 over the levels that `PickLevel` went past.
6. *The product.* The strips cut the rows without a gap (`StripsCover`), and a
   copy of a strip's sample adds up to its place in the product (`StripPlace`).
   A range is all of the pixels it touches when they are counted from the first
   of them (`SpanOfItself`), for the origin moves by whole pixels: the box, on
   the product's own grid, is the product.
7. *The layout.* The tags of a directory in ascending order are each of them
   once (`AscendingIs`). Whatever is placed one after the other lies apart and
   between the start and the end (`Placed`, `PlaceIs`); so a directory is its
   table and its values behind it (`LaidOut`, `DirectoryIs`), directories follow
   each other, and the segments of all of them follow those (`WriteFileIs`). Two
   parts of a file are then of one of a few kinds of pairs, and no pair overlaps
   (`WriteFileIsApart`). The offsets are recursive functions over the parts;
   that there are such functions, and that what one step keeps holds of all
   parts, is shown by the least number for which it would not be so
   (`StepsExist`, `UpTo`).
8. *Reading it again.* The directories are at different offsets, each with its
   own table, values and successor, all of which end within the header: their
   offsets are a chain, and a well-formed one if `buildIFD` accepts the images
   (`WrittenIsRead`). It accepts those of a product and of a COG, whose tiles and
   strips are as many as their sizes ask for (`ProductAccepted`, `CogAccepted`).
   By the first step, `Open` does not refuse such a file unless a request fails;
 `ProductReadable` needs in addition that the verdict of a build that failed
   still stands, on a file of its request (`VerdictInv`).

Only model-checked:

- liveness (`CallsReturn`, `EventuallyFits`, both `Returns`, `SignReturns`,
  `BuildEnds`), which is out of the prover's reach;
- the four violations.

## 5. Where code and documentation disagree

Four runs show a documented statement violated ("findings"). The models also
contain behaviours that are worth knowing and that no run singles out:

- A caller that missed the cache just before another build published builds
  the product again (`CacheMiss`, then `StartFlight` after `DeleteFlight`).
  `NoNeedlessBuild` says that only such callers do.
- "Products are evicted least-recently-used by file mtime", but by the mtimes
  of the walk, so a product hit later in the pass can be removed before one used
  longer ago (`Visit`, `Touch`, `Prune`); and by mtimes that a use may set back,
  if it had read the clock before a later one and sets the mtime after it
  (`ReadClock`, `Touch`). `LruUpToRaces` is what is left.
- A file that the walk cannot read does not count, and is not removed: the pass
  ends over the cap without a word (`VisitFails`).
- A product can be evicted between `Get` and the handler's open, which answers
  500 (`OpenHit`, `OpenPath`).
- Temporaries of a process that ended, and those whose own removal failed, are
  never removed, nor does a pass count them (`junk`). `TempsWithinSlots` says how
  many a crash or a failed removal can add; nothing bounds them over time.
- The output may exceed the size asked for, against `request.go:36`,
  `satfetch.go:629`, `reader.go:40` and `docs/SPEC.md:86-87` and `149-150`. Of a
  scene, the level is picked from the window at full resolution and cut on its
  own grid, which may give one pixel more; if no level is coarse enough, the
  coarsest is served at any size; and overviews larger than their rounded factor
  says can exceed it further. Of map tiles, a window that begins inside a pixel
  has one more; the height exceeds the size by 0.7% besides, for `AOIDegrees`
  makes a box higher (110.574 km a degree against 111.32) than the size `pickZoom`
  reckons with; and with tiles of 512 pixels both sides are twice as many, since
  the zoom is reckoned with 256. At zoom 0 there is no bound. `OutputHugsBox`
  says where the size is kept; it does not deny the excess.
- The georeference is that of the first directory, the full resolution the
  widest one: a file with an overview first is placed wrongly. Small rasters,
  where the rounded quotient of two widths is not the overview's factor, too.
  `OutputHugsBox` is about the files that are regular in both.
- `buildNDVI` compares the two bands at one level only: bands of different full
  resolution pass if their overviews agree.
- A four-band scene is an image as PNG and an error as GeoTIFF.
- A chain of exactly 32 directories opens and one of 33 does not; the limit is
  looked at after the directory was read.
- NaN passes every range check: for a coordinate it is caught by `checkPoint`,
  for a size or a cloud cover it is not. An explicit `max_cloud=0`, which is in
  the documented range, means 20 (`TakenAsGiven`).
- The key names a source and not its URL, layers or zoom: products of an older
  configuration are served until they are evicted.
- A scene in an unsupported CRS is answered 400 and a latitude outside the
  tile grid 502; failures of servers that are no catalog count as STAC errors
  (`WindowFailures`, `TileFailures`, `WriteError`).
- A signature is made before the wait for a build slot, which has no bound but
  the client: the premise of `SurvivesPromptRead` is not something the code
  ensures, and no property covers a signature that dies in the queue.
- `writeFile` would wrap its offsets beyond 4 GiB; no request is that large.

## 6. Not modelled

- The UTM series and the mercator formulas: TLA+ has no numbers for them. Boxes
  are given in the file's or the map's own coordinates. For the same reason a
  quotient that a float rounds across an integer is not in the models.
- The bytes of a header: that a tag is of the right type, and its inline value.
  Every file that `Open` refuses for its type is one more refused file.
- PNG and JPEG encoding, the colour ramp of the index, the decoding of a map
  tile of another size than it should have: pixel arithmetic without state.
- `/scenes`, `/sources`, `/healthz`: no state beyond the request counter.
- `satfetch_upstream_bytes_total` and `satfetch_build_seconds`: sums of
  measurements.
- The built-in source tables and the claims of `New`: data, and a loop over it.
- The order in which a catalog returns its scenes, and what it leaves out
  beyond the 50 that are asked for.

## 7. What is left

1. An abstract specification of the cache (a store that loses what it has) and
   `DiskCache` as its implementation, so that `SingleFlight` over it becomes
   the specification of `Service`.
2. `ScenesRequest` in `RequestKey`, with the catalog's page and order.
