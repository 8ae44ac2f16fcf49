# Verification of the search engine SE

This directory holds TLA+ models of SE, a search engine in C++: an index builder (`makeindex`), a search
server (`se`) and the scripts that rebuild and publish the index (`autoindex`). Paths and line numbers refer
to the repository's `src/`. `PROJECT.json` relates every definition to the lines it models.

## 1. Inventory

| Component | Code | State | Operations | Interacts with |
|---|---|---|---|---|
| Index manager | `se/bs/index_manager.cpp` | two slots (index, count, time), latest slot, thread's slot, version file | `init`, `update` every 5 s on the switch thread, `get_index_data`, `unref_index_data` | conf file written by `trans_index.sh`; search threads; version file read by `trans_index.sh` |
| Basic search (BS) | `se/bs/bs.cpp`, `heap.hpp` | per thread: cursors, heap, recalled objects, filters | `_prepare`, `_recall`, `filt`, `add_obj`, `_copy_result`, `_clean` | index manager, loaded index, tag file |
| Loaded index | `index/index_data.cpp` | term array, posting lists, briefs | `load`, `locate_term`, `load_index`, `get_brief` | files written by `makeindex` |
| Index builder | `makeindex/*.cpp` | object buffer, term map, object number, index/hit/term/brief files | `handle_line`, `add_field`, `finish_obj`, `flush` | merged data file, catalogs, tags, segmenter |
| Catalogs | `shared/catalog_data_reader.cpp` | objects, maps by name and id, sorted list | `load`, `get_id`, `get_catalog_id`, `get_catalog_name`, `get_parent_catalog_name` | `makeindex` (`get_catalog_id`), DA (`get_id`) |
| Tags | `shared/tag_data_reader.cpp` | maps name <-> id | `load`, `get_id`, `get_name` | `makeindex`, BS |
| Query analysis (DA) | `se/da/da.cpp` | per thread: segmenter | `query_analysis` | catalogs, segmenter |
| Advanced search (AS) | `se/as/as.cpp` | catalog infos | `init`, `advance_search` | DA, BS, `catalog_info.conf` |
| Service, thrift adapters | `se/service`, `se/server/thrift` | the three services | `init`, `search`, `_adapt_input`, `_adapt_response` | AS, BS, DA |
| Server | `se/main.cpp`, `NonBlockingServer` | `g_server`, `_server`, `_is_stop` | `run`, `stop`, signal handler | thrift library |
| Index pipeline | `autoindex/bin/run.sh`, `script/*.sh` | flag file, work directory, index directories, `index.conf` | get data, build, transfer, back up | `makeindex`, the server through `index.conf` and the version file |
| Data dump and merge | `dump_data.sh`, `merge_data.py` | a file per table, the merged file | four dumps, `merge_data` | database and the application that writes it; `makeindex` |

What is hard, and what must be right:

* **Index manager.** Search threads and the switch thread share slots, counts and the latest-slot number
  without a lock or an atomic. New searches must never see a slot that is being reloaded; no index may be
  deleted in use; an update must not be put off without reason, and not for ever; no rewrite of the conf
  file may be missed; the version file must name what is served.
* **Basic search.** A merge of posting lists by a heap with an early stop, in data that the thread keeps
  between searches. It must recall exactly the newest matching objects that pass the filters, each once and
  with all its hits.
* **Index builder.** Every step can fail in the middle of an object. Objects and briefs must correspond,
  lists must not go up, counts must match lists, and the index must be the inverse of the input.
* **Catalogs.** Lines come in any order; ranges in a sorted list stand for trees; two lookups answer the
  same question in two programs.
* **Request path.** In-place text normalisation, strings joined and split, arithmetic on pages in `int`,
  a thread-local segmenter that may have failed to be created.
* **Server.** A signal handler runs between any two steps of start-up, serving and stopping, on any thread,
  and may be interrupted by another one. A stop must not be lost once the loop runs; a start-up must end.
* **From data to answer.** That the objects recalled are the best ones depends on the order in which a script
  three programs earlier wrote its lines; makeindex hides its failures from the script that calls it, so that
  the server must refuse what they left.
* **Index pipeline.** No lock between runs, kills at any point, a handshake over two files with a server
  that may crash, removal of old directories.

The list `hazards` of `PROJECT.json` has each of these at its line, with the properties that cover it or
the reason why none does.

## 2. Modules

| Module | Models | Runs |
|---|---|---|
| `IndexService` | abstract: what the index manager promises | as a property of the `manager_*` runs |
| `IndexManager`, `MCIndexManager` | index manager with its search threads and its environment | `manager_*` |
| `Tags` | tag file and its lookups | used by the next ones |
| `Sorting` | `std::sort` over keys that differ, and over values that may repeat; what a sequence has at some of its places | used by the next ones |
| `IndexData` | what the server takes of an index directory, lookups in it | used by the next ones |
| `DumpData` | dump of the tables and merge to input lines | part of `engine` |
| `MakeIndex` | index builder | part of `engine` |
| `BasicSearch`, `MCBasicSearch` | searches on one thread | `search`, part of `engine` |
| `Engine`, `MCEngine` | `DumpData`, `MakeIndex`, `IndexData` and `BasicSearch` one after the other | `engine` |
| `Catalog`, `MCCatalog` | catalog file and lookups | `catalog*` |
| `QueryAnalysis` | query analysis as operators | used by the next |
| `SearchPath`, `MCSearchPath` | a request through the thread: DA, AS, adapters | `search_path*` |
| `AutoIndex`, `MCAutoIndex` | the pipeline and the server as it sees it | `autoindex*` |
| `Server`, `MCServer` | the life of the server's process: start-up, loop, signals | `server` |
| `IndexManagerProofs`, `AutoIndexProofs`, `MakeIndexProofs`, `BasicSearchProofs`, `EngineProofs`, `CatalogProofs` | theorems about the module of that name | - |
| `ServerProofs` | theorems about `Server` and about `SearchPath` | - |
| `DataLemmas` | lemmas about data that several proofs use | - |

### IndexManager

One action per access to memory or files that others see. `update()` is cut at the `stat`, the look at the
count, reading the conf file, `delete`, `new`, `load`, the stamp, the publication and the version file
(program counter `upc`); a search is cut at reading `_latest_version`, the increment, reading `.data`,
the work on the index and the decrement (`wpc[t]`). `++ref` and `--ref` are a load and a store each, as in
the code, and nothing keeps a thread from being slower than a sleep period of the switch thread. The version
file is emptied by `fopen` (`TruncateVersionFile`) and filled at `fclose` or never (`WriteVersionFile`).
`delete` frees the object but leaves the pointer, as in the code; objects are addresses with a life cycle
`free`, `loading`, `ready`, and an address can be used again.

How the process can die is kept in `dead`: a failed first `update()` or a switch thread that cannot be
created (`exit`), a search on a NULL index
(`null`: a missing conf file has time 0, so the boot takes it for served; a search without a token survives
it), the failing assertion (`assert`),
`fclose(NULL)` when no descriptor is left (`fclose`), and the count-down on slot `NO_VERSION` (`wild`).

Two things falsify the counts, and the code rules out neither: two counter updates that overlap, one of which
is lost, and a thread between reading `_latest_version` and counting itself there while the switch thread
publishes, sleeps a whole period and looks at the count again. `races` is a history variable that remembers
which of them has happened: `"inc"` or `"dec"` for an increment or decrement that was lost (`WillUndo`: another
thread has loaded the count and will store it), `"window"` for a count that was found 0 while a thread was on
its way. No action depends on `races` except through the bound `GoesOnAfter`. The properties say what is
left of the promise: `RefCounts` and `LeaseKept` which of these are harmful, `ImplementsService` that
`IndexService` holds until its promise lapses, which `lapsed` maps to the first increment that is lost or
late. `MonotonicServe`, `ServedComplete`, `ConfNotMissed` and `VersionFileNamesServed` hold regardless.

### MakeIndex and BasicSearch

A line of input has what `handle_line` takes from its JSON: type, two catalog names, tags, descriptions; the
`add_field` calls (`Calls`), the brief and the index entries are computed from it, with the field conf, the
tag file, the catalog lookup and the segmenter. The start-up can fail (`InitFails`) or fail and report success
(`InitBroken`, a `goto fail` with `ret` 0: the maker has no fields, refuses every line that has a field to
add, and crashes in `flush`). A line can be refused after any number of `add_field` calls. A turn of
the loop of `finish_obj` is an action, since a failure between two turns leaves what was linked so far;
`faulted` is a history variable that remembers where something failed. Hits count modulo `HitMod`
(2^11 in the code).

`BasicSearch` takes any index of a constant set, one of them with a brief missing, and runs one search after
the other, each with any index and any query: what is left in the thread's heap and vectors is there. Weights
are in tenths. What the properties compare with (`Best`, `Weight`, `Passes`) is defined without cursors:
`Weight(o)` is a sum over the set of hits of `o` (for which token, in which term, where in its list).

### DumpData and Engine

`DumpData` dumps four tables in the order of the script while the application inserts rows; `Files` are the
results that `merge_data` can have (tweets of one score come in the order of a Python dict; one without a
score, such as one of the future, is left out, `Scored`). A resource that a dumped tweet names and that is missing ends the merge.

`Engine` puts the parts in sequence: `GetData` (a step of `DumpData`), `Build` (a step of `MakeIndex`, which
reads the merged file from its first line to its last), `Load` (`IndexData!load` of the directory that was
built, whenever makeindex exits with 0, which is always unless it crashes), `BeginSearch` and
`ContinueSearch` (steps of `BasicSearch`, on the index that was built). It extends the three modules, and
`EngineInput` says that builder and server read the same tag file. Its properties compare the answer with the
lines (`MatchingLines`), without lists, terms, briefs or cursors in the definition. Names of the tag file that
share an id are one tag to the filter: `Named` counts a line's names of an id, as the code compares ids.
A brief file with a record cut off in its middle may be read out of step; the run ends before searching it.

### Catalog

`new catalog_t` leaves fields uninitialised (`Junk`); reading outside of the list is the outcome `Wild`.
Names are numbers in the order of the strings. `std::sort` with `<=` may put equal entries in any order:
`FinishLoad` takes any of `Orders` that is sorted. The loop over the sorted list and the loop of the binary
search are recursive functions (`Turns`, `Search`). `Orders` and `Insert` are written out where the library's
`Permutations` and `@@` would do, because the proof system does not have their definitions.

### QueryAnalysis and SearchPath

Queries are sequences of characters. The in-place loop of `normalize_query` is a recursive function over the
turns of the loop (`Turn`), each with the string and the place written last, and is compared with a definition
(`Normal`). The loop begins with a look at `query[-1]`, a byte that is not of the string: a space or not, at
the choice of `Analyse` (`ByteBefore`). Segmenter and catalog lookup are parameters. `int` arithmetic wraps behind `INT_MAX`. The loops of
`_adapt_input` (`TagString`), of `_fill_tag_filter` (`TagFilter`) and of `AS::init` (`catalog_info_dict`, with
`AddLine` for a line and the one `catalog_info` that serves all lines) are recursive functions too. What BS
finds is any number of results; `Result` is what `advance_search` makes of them. The specification is called
`RequestSpec`, so that `ServerProofs` can reason about it beside `Spec` of `Server`.

### AutoIndex

Two processes execute `run.sh`. `Killed` stops one anywhere; `ClearFlag` is the person who removes the flag
that a failed run left. The server loads what `index.conf` names, rewrites the version file in two steps
(`fopen` truncates), crashes and boots. A load that fails leaves the conf file to be tried again
(`StillFresh`); a rewrite in the second of the truncation is not newer than it (`WriteConf`). The build takes
minutes: `StartBuild` leaves a directory that is `"unfinished"`, and `BuildIndex` completes it, leaves a failed
build behind with the exit status that `makeindex` really has, 0 whenever it does not crash, or a crash. When
the run or makeindex dies in between, the directory stays unfinished.

### Server

One action per step of `main`, `SeService::init` (with the parts it starts) and `NonBlockingServer::run`, and
one per access of `handle_signal` and `stop()` to `g_server`, `_server` and `_is_stop`, and one per `LOG` of
`handle_signal`. `LOG` takes locks and allocates memory, which a handler must not do: `Signal` may leave a handler
`"stuck"` behind the lock of the thread it interrupted, and `wedged` says that this has happened. A handler
runs on main's thread, which then waits for it, or on another thread once there is one; handlers interleave with each
other. Every file of the start-up may be good, missing, or one that opens and cannot be read; the readers of
the tag and catalog files wait for the end of such a file for ever. The thrift library is external: `stop()`
ends the loop that runs, and before the loop it may be remembered or forgotten (`LoopHears`).

## 3. Runs

Deadlock is checked in `search`, where a thread can always begin another search, and not in the others
(`CHECK_DEADLOCK FALSE`): there the program really stops (the process has exited, the input is used up) or the
bound on time is reached.

| Run | Shows | Bounds |
|---|---|---|
| `manager_races` | the guarantees that survive every race and failure | 2 threads, 2 slots, 2 paths of which one cannot be loaded; the conf file may be missing or empty at boot; searches go on after every race |
| `manager_lease` | counts right until two updates overlap and never too low before an increment is lost or late, no use after delete before that, refinement of `IndexService`, descriptors, progress | 2 threads with plain counters, 2 paths, 3 time stamps, 2 objects whose addresses are used again; after a race searches go on but no new one begins (`GoesOnAfter`) |
| `manager_freed_in_use` | violation, see below | 2 threads with plain counters, which go on after every race |
| `engine` | from rows to answers: dump order, inverted index, alignment, runs of hits, refused builds, sound and complete answers | 13 databases of 2 tweets of 4 kinds, one without a score, 4 inserts at any time (a third tweet among them), 3 lines, each read, refused or cut short, every write and allocation failing, 4 queries, recall limit 2, counts modulo 2 |
| `search` | recall, merge order, weights and ranking | 3 objects, 2 terms, 10 kinds of queries, recall limit 2, all pairs of consecutive searches |
| `catalog` | ranges, names, both lookups | all files of up to 5 lines out of 8, every order |
| `catalog_two_objects` | violation | 2 lines |
| `search_path` | normalisation, tags, catalog choice, catalog infos, pages | all queries of up to 4 characters; 5-bit `int` |
| `search_path_second_lookup` | violation | |
| `autoindex` | directory kept, finished means served, own data, no interrupted build published, no rollback, a conf at rest is served | 2 processes, 3 starts, 1 poll, 2 directories kept |
| `autoindex_failed_build` | violation | 2 processes, 2 starts, 2 polls |
| `server` | what signals destroy or lose, stops that are heard, start-ups that end | 2 signals, all 3^5 combinations of files |

Why the bounds are enough for the cases that matter: two threads are what it takes to lose an update; three
switches go round the double buffer and reuse a slot and an address; two terms with common objects exercise
every branch of the merge, and a recall limit below the number of objects the early stop; five lines hold two
parents with two and one children in any order; three starts with two directories kept make `backup.sh`
remove one; the third tweet, its resource and its votes are inserted in four steps, so that they fall between
any two dumps; three lines against a recall limit of two make the search leave one out; two hits of a term
in one object reach the limit of the count; of two signals, one can be lost and one come after it.
`manager_races` uses symmetry of the threads, which is sound there: no liveness property is checked in it. It
also leaves `races` out of the fingerprint (`VIEW NoHistory`): with `GoesOnAfter` at its full value no action
and no property of the run reads it. In `manager_lease` the bound on searches after a race keeps the graph
small enough for liveness; that lost decrements are harmless however long searches go on is what the theorem
`LeaseIsKept` adds.

**Fairness.** `manager_lease`: weak fairness of the switch thread, which is an endless loop, and of every
search that has begun, which is a loop over finite data; `ConfServed` is about behaviours without a race,
since a count that is too high puts updates off for ever.
`server`: weak fairness of main and of every handler that has begun, which are threads of the operating
system, as long as no handler is stuck behind the lock of the thread it interrupted; from then on every thread
that logs may wait for that lock, and nothing is assumed of any. A thread that waits for the end of an
unreadable file takes no step of the model. `autoindex`: weak
fairness of the server alone, its switch thread and its being started again after a crash, for which the
repository has no script: `ConfReachesServer` says nothing of a server that nobody starts. Nothing is assumed
of clients, of whoever sends signals, of the runs of `run.sh` or of the writer of a conf file.

### Disagreements between the code and its text

Each of these has a run that TLC finds violated:

| Run | Code | Text |
|---|---|---|
| `manager_freed_in_use` | plain `++ref` from many threads (`index_manager.cpp:133`): an update is lost and an index is deleted in use, although every search was counted before the count was looked at (`CountsProtect`) | `index_manager.cpp:100` "still using, give up" |
| `catalog_two_objects` | a parent listed after its child becomes two objects (`catalog_data_reader.cpp:81`) | `catalog_data_reader.cpp:96` |
| `search_path_second_lookup` | second lookup with the same words (`da.cpp:118`) | `da.cpp:116` |
| `autoindex_failed_build` | `makeindex` always exits with 0 (`makeindex/main.cpp:25`) | `build_index.sh:31-35` |

These are in the models too, without a run of their own:

| Where | Code | Text |
|---|---|---|
| `IndexManager`, `Dec` | a lost decrement: an update is put off although no search uses the index | `index_manager.cpp:100` |
| `IndexManager`, `Throw` | an exception skips `_clean` (`bs.cpp:284-294`) and the next search ends in `dead = "assert"` | `assert` of `index_manager.cpp:131` |
| `MakeIndex`, `FinishFails` | a brief is written before an object that then fails (`makeindex.cpp:231`), and all later objects have the brief of another one; `Aligned` excludes it | `index_maker.cpp:280` |
| `Catalog`, without `NoEmptyTop` | a lookup below a catalog without children reads `catalog_list[-2]` (`get_id` is `Wild`) | `catalog_data_reader.cpp:182` |
| `AutoIndex`, without `FlagIsAtomic` | flag tested and touched in two steps (`run.sh:4`): two runs at once | `run.sh:7` |

`CatalogIdButFirst` (run `catalog`) records a further one that no text contradicts: `get_catalog_id` never
finds the catalog at position 0 of the sorted list, while `get_id` does.

## 4. Proofs

The theorems hold for every value of the constants under the assumptions named. TLC checks the same
properties on the instances of section 3; where a theorem has no property of a run in its row, it is a fact
that other proofs or other components rest on.

| Module | Theorem | Assumptions | Statement |
|---|---|---|---|
| `IndexManagerProofs` | `TypeCorrect` | - | `TypeOK`, and what program counters imply about files and workers |
| | `ServedCorrect`, `NothingMissed` | - | `ServedComplete`, `ConfNotMissed` |
| | `ServeIsMonotonic` | - | `MonotonicServe` |
| | `VersionFileTruthful` | - | `VersionFileNamesServed` |
| | `CountsHold`, `LeaseIsKept` | finitely many threads | `RefCounts`, `LeaseKept` |
| | `Implements` | finitely many threads | `IndexService` is implemented |
| | `ServiceGuarantee` | - | what `IndexService` guarantees until it lapses |
| | `DescriptorsBounded` | no load fails, `FdLimit > MaxTime > 0` | `OneDescriptorPerSwitch` |
| `MakeIndexProofs` | `TypeCorrect` | `BuilderInput` | `TypeOK` |
| | `ListsCorrect` | `BuilderInput` | `ListsDescend` |
| | `BriefsAligned` | `BuilderInput` | `Aligned` |
| | `IndexInverts`, `HitsCorrect` | `BuilderInput` | `InvertedIndex`, `HitRuns` |
| | `TermFileSorted` | `BuilderInput` | the term file has the terms, in rising order of their signs |
| `BasicSearchProofs` | `RecallsTheBest`, `ResultRanked` | `SearchInput` | `RecallExact`, `RankedByWeight` |
| `EngineProofs` | `FailureIsSeen` | `BuilderInput` | `FailedBuildRefused` |
| | `NamedAreDumped` | `ResourcesStored` | `ResourcesFound` |
| | `NoneTwice`, `AnswersMatch` | `BuilderInput`, `SearchInput`, `EngineInput` | `AnswersOnce`, `SearchSound` |
| | `AnswersAreBest` | these and `ResourcesStored`, `TidIsKey` | `SearchComplete` |
| `CatalogProofs` | `CatalogInvariance` | `CatalogAssumption` | objects, maps, list and ranges at every line |
| | `RangesAreExact`, `NamesAreKnown` | `CatalogAssumption` | `ChildRanges`, `NamesKnown` |
| | `GetIdFindsChild`, `OnlyFirstIsLost` | `CatalogAssumption` | `GetIdExact`, `CatalogIdButFirst` |
| `ServerProofs` | `TypeCorrect`, `KillsOnlyEarly`, `DeafOnlyEarly` | - | types, `KilledOnlyEarly`, `DeafOnlyIfEarly` |
| | `NormalizedIsNormal`, `FiltersMatch` | `SearchPathAssumption` | `NormalizeExact`, `FiltersOfRequest` |
| | `CatalogsDescribed`, `PagesPartition` | `SearchPathAssumption` | `DescribedByLine`, `PageExact` |
| `AutoIndexProofs` | `TypeCorrect`, `VersionTruthful` | - | types; a version file with a text names what is served |
| | `ConfDirKept`, `FinishServed`, `OwnData`, `NeverBack` | `FlagIsAtomic` | `ConfDirExists`, `FinishMeansServed`, `BuildsOwnData`, `NoRollback` |
| | `OnlyFinishedPublished` | `FlagIsAtomic` | `PublishedFinished` |

The assumptions:

* Nothing is assumed of the index manager's counters or of the speed of its threads; only that there are
  finitely many of them (`ThreadAssumption`), which makes their number a number.
* `FlagIsAtomic`: two processes do not test the flag file at the same moment (section 3, disagreements). Without
  it two runs work in one directory, and none of the four theorems that assume it holds.
* `BuilderInput`: texts have finitely many tokens, lines and confs have the types that the parsers leave.
  No token has the sign 0, which `finish_obj` takes for none: a 64-bit hash gives it to one text in 2^64, and
  what the builder then makes of it is left out.
* `SearchInput`: an index has a term or more, their signs rise, lists descend and are as long as counted. What
  load takes of a build is such an index (`BuiltIsOk` of `EngineProofs`); `search` gives TLC some by hand.
* `EngineInput`: builder and server read the same tag file. `ResourcesStored`: the application stores a
  resource before a tweet that names it. `TidIsKey`: no two rows have one tid, so that the dict of
  `merge_data.py` drops none.
* `CatalogAssumption`: ids and names of lines are positive numbers (0 is no parent, no name). What else a file
  has to be (distinct ids, two levels, parents first) is in the properties, not assumed.
* `SearchPathAssumption`: requests and the lines of `catalog_info.conf` have the types that thrift and `AS::init`
  give them. `INT_MAX` is any natural number.

The arguments.

*Index manager.* `TypeInv` adds to the types what a program counter implies (a thread that is counted has a
slot, `curr` is never later than the file's time, nothing runs before the boot is over). `ServedInv` is the
inductive form of `ServedComplete` and `ConfNotMissed`: while `update()` is between `delete` and the
publication, the other slot's object is not the served one, and the path that was read belongs to a file
time not before `curr`; without that, the stamp could cover a rewrite. `CountInv` says what holds
until the first race of each kind: a count, and the copy of it that a thread has loaded and will store, is not
below the number of threads that are counted there, and equal to it before any race (`RegisterInv` has the
copies, which `RefCounts` alone does not mention); while `update()` works on the other slot its count is 0 and
every thread that is on its way has chosen the latest (`WindowInv`); and the slot of a thread has a complete
object, which it uses (`LeaseInv`). `LeaseKept` alone is not inductive, since deleting is safe only because
nobody is counted on that slot or about to be. `MonotonicServe` and the refinement follow step by step from
these invariants; a step with which the promise lapses is `Lapse`.

*Builder.* `IInv` says what holds in the middle of an object, where none of the properties does: the sorted
infos that are left are not before `lastSign`, so that a sign that is behind does not come back; the list of
a sign has the finished objects and, for the signs behind `lastSign`, the current one (`Haves`, `Matches`);
the node has the fields that were handled of `lastSign`, and its run of hits goes to the end of the file. A
failure in `finish_obj` keeps the rest of it: `OrderInv` and `ListsInv` do not mention what failed.

*Search.* `SearchInv`: the cursors stay in their lists; what is in `obj` is what passes among the objects at
or above the last one taken, and everything that is still in the heap is not above it (`MergeOk`); the two
remembered objects `lastFilt` and `lastValid` are decided rightly; the weight of every object but the last is
complete. That a repeated object is always next to its last occurrence follows from the order of the pops.
The loops `locate_term` and `tag_filter` are recursive functions whose measure goes down, and one lemma
(`TailRecursion`) proves that such a recursion has a solution; what it computes follows by induction on the
measure. A weight is a sum over a set of hits: `Total` counts the elements of a set that has as many elements
for each hit as its score, so that sums of disjoint sets add up without induction over a fold.

*Engine.* `LoadInv` carries `IInv` to the loaded index; `AnswerInv` adds that a search which has begun works
on what the build left, and what its output is when it ends. `DumpInv` says which tables are dumped and that
what the tweets name is in the database, and in the dump once resources are dumped: the order of the script
is what makes it inductive. `DataInv` says that the lines of the merged file are rows by rising score and that
makeindex reads them in order. Then `SearchSound` and `SearchComplete` relate the answer to the lines: an
object in the list of a token is a line with the token (`FinishedLists`), a brief passes the filters iff its
line does (`PassesIsFilters`), objects are numbered in the order of the lines (`BriefIds`), so that the newest
objects are those of the highest scores.

*Catalogs.* `CatalogInv` has for every part the conditions that it needs of the lines read so far. `Entries`
is the strengthening: a pointer to a parent is what `id_cata` has for the parent's id, `id_cata` is injective,
and an id that is only a parent's has a placeholder that is not in the list. So completing a placeholder
changes no entry, and in the sorted list the entries of a parent follow each other. `LinkInv` is the invariant
of the loop over the list (`Turns`): a range has the children seen so far, and `last_parent` is the parent of
the entry before, if that has one. The search finds the first entry that is not below the name, by induction
on the distance of its ends; entries below one parent are sorted by name, which makes it exact.

*Request path.* `PathInv` says that the analysis of a request is there while it is searched, and that an answer
is `Result` of the request and some number of results. The rest is about the loops. `TurnInv` is the invariant
of `normalize_query`: what is behind the place written last is the normal form of what was read, what is not
yet read is unchanged, and the place written last is a space iff the character read last was blank (where
nothing is written or read yet, both are the byte before the string); it is this
last part that makes the test against the written text equal to one against the text that was read.
`ReadLoop` and `SaysLast`: after any number of lines the dict has, of every id, what the last line with fields
says. `TagPlaces` says where each tag is in the string that all make; `TagsReturn` follows the recursion of
`TagFilter` from one '^' to the next, which has found the tags between (`FoundIn`). A page is an interval of positions, and `Quotient` turns its ends
into a quotient by the size of a page; when the product is an `int`, `Wrap` changes nothing.

*Server, pipeline.* The invariants say how far main has come when `g_server` and `_server` are set and what a
handler past its test may count on; and that one run at a time has the flag, that its second is the latest
of all names that are in use, and what it has seen in the version file.

Only model-checked: liveness (`ConfServed`, `ConfReachesServer`, `StopHeard`, `BootEnds`), which these provers
do not do. Every safety property that a passing run checks has a theorem. No theorem says what `Split` makes
of a query or `Unique` of its tokens: no property is about them.

## 5. Not modelled

* File formats (`FileGroupWriter`, briefs as protocol buffers), segmenter, JSON, thrift, the database:
  libraries. What is left of them is the outcomes that the code distinguishes.
* Answers from a brief file that is read out of step after a cut-off record: they depend on its bytes.
* Updates and deletions of rows during a dump; the passing of time during the computation of the scores.
* Two loadable contents of `index.conf` in one second, written by hand (see the hazard at
  `index_manager.cpp:96`).
* Requests in flight when the server stops: the library's.
* Lines that `fgets` splits because they are longer than a buffer: the lines of the models are those that
  `fgets` returns.
* What nothing calls: `makeindex.cpp:79-128`, `load_hit`, `get_name` and `get_id` of three strings in
  `tag_data_reader.cpp`; the destructor of `NonBlockingServer` (`g_server` is never deleted).
* Values that nothing uses or states: `hit.no` assigned twice and `hit.offset` never (`index_maker.cpp:335`),
  `total_num` uninitialised on an error (`as.cpp:129`; the model's error response has none), and what
  `std::sort` does with `catalog_cmp`, no strict order for equal names, beyond the order of the list.
* Configuration, interface definitions and build files: constants and plain data.

## 6. Plan

Done: every component of the inventory, the composition from the database to the answer, liveness of the index
manager, of the pipeline and of the server, and proofs of every safety property that a run checks.

What is left is small, and each would need data that the models leave out:

* `HitScore` computes in tenths, not in doubles, and takes field ids for distinct single bits, as `field.conf` has
  them.
* The tags of a group in `catalog_info.conf` are one value; how `StringHelper::split`, a library, fills the
  vector that `AS::init` uses for one group after another is left out.
* An index with a brief cut off in its middle is loaded but not searched (section 5).
* The hazards that a property excludes by its precondition, and that only this text and `PROJECT.json` record:
  the lookup below a catalog without children (`NoEmptyTop`), pages beyond an `int` (`PageExact`), two runs at
  once (`FlagIsAtomic`), files that cannot be read at start-up (`BootEnds`), the count of 2^11 hits, and two
  contents of `index.conf` in one second.

A composition of `AutoIndex` with `IndexManager` in place of its abstract server was considered: the states
of both together are beyond the bounds under which either is interesting, and what `AutoIndex` assumes of the
server (`served` only becomes what `index.conf` named, then the version file names it) is what
`ServedComplete`, `MonotonicServe` and `VersionFileNamesServed` state of `IndexManager`.
