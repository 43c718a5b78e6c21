# Verification of bitstar in TLA+

bitstar is an event store.  Events live in two transactional tables of an
external store (YT); a process keeps an index of them in memory, which
`ListEvents` walks.  This project models the process from the calls to the
answers: the transactions of the event service over the tables, the hand-off of
writes, the rotation of memtables, the indexes, their merging and their
bit-sliced columns, the filter language from characters to answers, the
iterators and the pages; and the loader, which is a client.  Line numbers are
those of the repository's `src/`.

## Inventory

| Component | State | Operations | Made correct by |
|---|---|---|---|
| Storage workers and pointers (`storage.go`) | `cur`, `pen`, `levels` (three atomic pointers), `writeCh`, `compactCh`, `compactDoneCh`, `stopCh` | `Open`, `Close`, `writeWorker`, `batchCreateEvents`, `flushWorker`, `mergeLevel`, the loads of `ListEvents` | a reader's three loads miss nothing that was acknowledged; sealed memtables never change; levels are age-ordered and below their limits; both workers always go on |
| Roaring index (`index.go`) | key list, key map, posting lists, two bit-sliced time columns | `indexEvent`, `fromMemTable`, `mergeTwoIndices`, `query`, `evalFilter` | every part agrees with the key list, after any number of merges; keys are sorted |
| Memtable (`memtable.go`) | skip list under a lock | `put`, `putItem`, `size` | one order (start time, id, timestamp, descending), shared by every reader |
| Iterators (`iterator_*.go`, `compare.go`) | a position each | `Next`, `Valid`, `Value`, `Seek` | the newest version of each event, once, in order, while items are put |
| Event service (`storage.go`, `schema.go`) | two tables | `BatchCreateEvents`, `UpdateEvent`, `DeleteEvent` | what is committed and what is indexed agree, through failures, cancellation and restart |
| ListEvents (`storage.go`, `page_token.go`) | none | snapshot, merge, page, lookup | the page is what the tables hold at the read timestamp |
| Filter (`match_memtable_item.go`, `index.go`) | none | evaluation on an item, evaluation on bitmaps | both give the same answer |
| Filter language (`filtering/`) | lexer position, one token kept | `Peek`, `Next`; parsing; printing | tokens spell the input; the tree written is the tree parsed; no token is ignored |
| Bit-sliced index (`bsi/`) | slices, existence bitmap | `SetValue`, `CompareValue`, `MinMax`, `ParOr`, ... | agrees with integer arithmetic and comparison at every width and sign |
| Loader (`cmd/load/`) | two channels, a batch per worker, counters | read, batch, send, report | every job counted once, no event made twice, an end |
| YT client, migration (`ytclient/`, `cmd/migrate/`) | - | one RPC per method; creation of the tables | thin wrappers; the store behind them is modelled by its use |
| gRPC server, generated code, helpers | - | - | no logic of their own |

How they interact.  A write call commits in the tables, then sends its items on
`writeCh` and waits for the answer.  The *write worker* puts them into the
memtable `cur`; when it finds the memtable full it first stores an empty one,
builds an index of the full one, appends it to `pen` and notifies the *flush
worker* without blocking.  Every fourth notification, or every 30 s, the flush
worker merges the pending indexes into `levels[0]`, lets full levels spill,
publishes `levels` and hands the merged index back on `compactDoneCh`, upon
which the write worker drops it from `pen`.  `ListEvents` takes a read
timestamp, loads `cur`, `pen` and `levels`, builds one iterator per memtable or
index, merges them and looks the keys up in the table.

What is hard: two workers and any number of readers and writers share three
pointers without a common lock; the blocking hand-back on `compactDoneCh`;
dropped notifications; a timer; `Close` in the middle of a hand-over; a process
that dies and starts from nothing; iterators over a memtable that is written
to; versions of one event spread over many indexes.  `PROJECT.json` lists each
hazard at its line.

## Modules

| Module | Models | Builds on |
|---|---|---|
| `Storage` | both workers, the clients' selects, the loads of `ListEvents`, `Close`, a panic of the write worker | |
| `StorageProofs` | theorems about `Storage`: what readers see, batches, levels | `Storage` |
| `MergeIndices` | `fromMemTable`, `indexEvent`, `mergeTwoIndices`, `moveBitmap`, `mergeBSI`, under the calls of `mergeLevel` | |
| `MergeIndicesProofs` | theorems about `MergeIndices` | `MergeIndices` |
| `EventRequests` | the calls that change events, as callers make them | |
| `EventMap` | abstract: one map of events, changed atomically | `EventRequests` |
| `EventService` | `BatchCreateEvents`, `UpdateEvent`, `DeleteEvent` over the two tables | `EventRequests`; implements `EventMap` |
| `EventServiceProofs` | theorems about `EventService`, the refinement among them | `EventService`, `EventMap` |
| `Iterators` | the three `Next` methods, with concurrent puts | |
| `ListEvents` | the page of a call, its token, the lookup and the answer | `Iterators` |
| `ListEventsProofs` | theorems about the iterators and `ListEvents` | `ListEvents` |
| `Lexer` | the regular expression, `Peek` and `Next` | |
| `LexerProofs` | theorems about `Lexer` | `Lexer` |
| `FilterLanguage` | the parser of the filter language | |
| `Filter` | `matchMemTableItem`, `evalFilter` and `query` on the trees of the parser | `FilterLanguage` |
| `FilterProofs` | theorems about the parser and about `Filter` | `Filter` |
| `ColumnMaps` | abstract: maps from columns to wrapping integers | |
| `BitSlices` | the operations and queries of a bit-sliced index, as operators | |
| `Bsi` | indexes under any sequence of calls | `BitSlices`; implements `ColumnMaps` |
| `BsiProofs` | theorems about `Bsi`, the refinement among them | `Bsi`, `ColumnMaps` |
| `Loader` | the loader and the server as it sees it | |
| `LoaderProofs` | theorems about `Loader` | `Loader` |
| `MC...` | instances for TLC | their module |

### Storage

A memtable is the number of its creation, its contents a set of write items
`<<request, position>>`.  A sealed memtable never changes (`SealedFrozen`), so
the index of memtable `t` is `t` itself and a merged index is the sequence of
the memtables in it, in the order in which `mergeTwoIndices` received them.

* `tables`, `pen`, `levels`: `s.cur` (the last table), `s.pen`, `s.levels`.
* `wpc`: where the write worker is - at its first select (`poll`, with a
  default), its second (`select`), past the store of the empty memtable
  (`publish`), about to notify (`notify`), putting (`put`), or with an index
  received in either select (`pollDrop`, `selectDrop`).
* `fpc`: where the flush worker is - in its select, about to load `pen`, about
  to merge, parked on `compactDoneCh` (`handoff`).
* `req`, `rpc`: the progress of every write call and every reader.
* `must`, `window`: history of a reader, for the properties only.

`Accept` is the rendezvous on `writeCh` with the size check and the store of
the empty memtable; `Publish` appends the index; `Notify` is the non-blocking
send, which may find the receiver parked or not; `PutItem` and `Respond` end the
request.  `Crash` takes the place of `Publish` when the sealed memtable holds an
item with a nil event, as deletes and key changes put there: `indexEvent`
dereferences it, the goroutine panics and the process dies.  The action also
stands for the next `Open`, which reads nothing back.  The answer of the write
worker and its receipt by the client are one step: the channel has room for it.

What a model must not hide: there is a window between the store of the empty
memtable (295) and the append to `pen` (304) in which a reader that loads `cur`
and `pen` sees neither the full memtable nor its index.  `SnapshotCoverage` and
`AckedVisible` name exactly this exception (`Missable`) and no other.

### MergeIndices

`IndexEvent` appends one event to the index under construction: key list, key
map, posting lists, one digit per slice of the two time columns, which widen as
`SetValue` does for a column made by `NewDefaultBSI`.  `Flush` and `Spill` are
the two calls of `mergeLevel`: the pending index is the *second* operand of a
merge into level 0, a spilling level the *first* operand of a merge into the
next.  `CallMerge` has the early return for a nil operand; `TakeA` and `TakeB`
are the iterations of the three key loops, `Finish` the rest of the function.
Row ids count from 1; tags and annotations, which the code treats alike, are
labels; a time is its sequence of binary digits.  A nil index and one without
keys are the same: for both the result of a merge is the other operand.
A key has its start time in a zone, as a `time.Time` has: memtables hold keys in UTC
(`AsTime()`), `indexEvent` stores them in Local (416), and the key map, a Go map,
tells the two apart, while `Before` and the columns do not.

### Iterators

A snapshot is any distribution of versions over the memtable, the indexes, the
batches still to be put, and nowhere, subject to what `Storage` shows: no index
holds a tombstone.  `Start` is the
initial advance of all iterators, each `Emit` one call of `MergeIterator.Next`;
between two calls the write worker may put any item, also one whose timestamp is
not above the read timestamp (its transaction committed before, its hand-off is
late).  One call is one step because it touches the memtable once and otherwise
only immutable indexes.  The loop of `MergeIterator.Next` is given by its
result: `MinIndex` is where `minIndex` ends, `Passed` are the sources its last
branch advances.

### FilterLanguage and Filter

One operator per method of the parser, with the loop that `expression`, `factor`
and `member` share in `List`.  A result is an error, a node or nil, and the
position reached; `Required`, `OrElse`, `Build` and `InFront` are the few things
the methods do with one.  `Nested[n]` are the trees with up to `n` expressions in
one another; what recurses over trees is a function over that depth, which takes
what it does with an expression in parentheses from the depth below.  A string that
`Unquote` refuses (575) is not among the tokens: it fails the call.

In `Filter` a client composes a tree, writes its tokens (`Written`), perhaps with
one token forgotten or one too many, and `ListEvents` parses them and queries an
index whose rows are also taken as memtable items.  Bitmaps carry the atom whose
own bitmap they are, if they are not clones, so that the in-place `And` and `Or`
of the code can change the index in the model, too.  `FirstOther` gives the short
cuts of `matchSequence` and `matchFactor`, errors included; `evalFilter` has none.
The evaluators treat nil differently from "true" (index.go:139); `SameAnswer`
holds because the parser builds no tree with an empty list or an empty composite.

### EventRequests, EventMap and EventService

`EventMap` is what the three calls promise: one map of events, each call taking
effect at most once, at one instant, on the event as it is then; an answer of
success comes after it, a refusal means never, and an answer that leaves it open
(a lost commit, a cancelled call) may come before, after or without it.

`EventService` has one action per request to the store.  `rows` and `idx` are the
tables `events` and `events_id_uniq_idx`, `rowTs` and `idxTs` their rows' last
commits; `tx`, `begun`, `snap`, `buf` a transaction with what it reads and
buffers; `pc`, `key`, `ev` the progress and the locals of a call; `index` and
`put` what was put into memory since `Open`.  The store is external and modelled
from its use: lookups read at the start timestamp, modifications are buffered, a
commit is refused if a row it writes was written after the transaction began.
`RequestFails` stands for any failing request, `CommitLost` for a lost answer,
after which `Apply` may still happen; `Cancel` is `ctx.Done()` in either select of
the hand-off; `Crash` empties memory and ends all calls, the tables stay.  The
hand-off itself is `Storage`'s; here `Put` makes the items readable at once.
Rows are keyed in microseconds (`Micro`), live items in nanoseconds, tombstones
again in microseconds; an event is its start time and its title, for the mask
tells apart only fields that are in the key and fields that are not.  Ids of
creates are fresh (`FreshAssumption`), as `uuid.NewV7` makes them.

### ListEvents

`ListEvents` begins after the pointer loads of `Storage`.  The table is a history
of versions, of which any part may be in memory: the memtable, the indexes, still
to come (the write worker puts them during the iteration), or never (a cancelled
hand-off, a restart).  `Possible` and `Together` keep to histories that
`EventService` can leave.  `Begin` panics on a negative capacity, with the sum of
`int32` wrapping; `Collect`, `Exhaust` and `Cut` are the loop; `Lookup` reads the
rows at the timestamp of the call and fills the answer by id, as `eventsMap` does;
`page_token` is not read, so every call is a first one.  `MergeFirst`
lets the two indexes be merged into an unsorted key list beforehand; what depends
on sorted sources says so (`Sorted`).

### Lexer

An input is a sequence of characters, one for each class that the expression or
`TrimLeft` tells apart: a space (tab and carriage return are treated alike), a newline,
which `\\.` in a string excepts, and a form feed, which is a blank of `\s` and not
trimmed, are three; a word (`NOT`, `AND`, `OR`), which matters as a prefix only, is one
character.  Each alternative is an operator for the length of its match at a position;
only the first is anchored (`Comparator` asks for position 1).  `Match` is the leftmost
match, first alternative first, and what `Next` cuts from the front of the input is as
long as it, wherever it was.

### BitSlices, ColumnMaps and Bsi

Slice `j` holds the columns whose value has bit `j`.  The queries follow the code
column by column: `Differs` is the first place, from above, where its loop finds a
column and a value to differ, and the conditions behind it are those of the code,
signs and magnitudes included.  `Bsi` calls the updates in any order on indexes
with and without a range, run-optimized or not; a panic ends the calls.  Batches
matter where their results are added up (`TransposeWithCounts`); elsewhere they are
united.

### Loader

The producer (`ReadRow`, `PutJob`, `ReadEnds`, `Report`), one `Work` per worker,
and a server that takes a request at most once, answers or not, and may act after
the caller gave up.  Rows are records of an id, a service and whether they can be
mapped; a row that cannot be mapped panics in `main` and ends the process.

## Runs

| Run | Question | Instance |
|---|---|---|
| `storage_read` | What can a reader miss? Does a rotation split a batch, does an index miss an item or hold a tombstone? | requests of 2, 1 and 1 items, one of them a tombstone; one reader; memtables of one item; a compaction every 2 notifications; the timer at any time |
| `storage_live` | Do both workers always go on? Do cascades keep limits and age order, is every memtable merged once? | batches of two items and of one and an endless supply of empty ones; limits 1, 2, 3; compaction every 2 notifications; prompt drops, no reader |
| `merge_content` | Do labels, times and key map stay with their rows? | three memtables of up to two of six keys, times of one to three digits, three levels, every order of flushes and spills |
| `merge_order` | violation: the key list of a merged index is not sorted | the same with two memtables |
| `merge_lookup` | violation: the key map does not have an indexed event under its UTC key | the same with one memtable |
| `filter_answer` | Does the parser find the tree that was written, do both evaluators select the same, does a query leave the index alone? | trees of up to three comparators (a tag, an annotation, an unknown tag, an invalid one), each negated, grouped, joined in every way; one token too many or too few in trees of two; four events with every combination of the tag and the annotation; two time ranges |
| `iter_once` | violation: an event with versions in two sources is returned twice | six versions of two events (one deleted and moved), a memtable and two indexes, in order of age |
| `event_batch` | Do overlapping calls take effect atomically, do the tables agree, does memory follow, through failures and a restart? | a batch of two events, two updates that move one of them (by more and by less than a microsecond), its deletion; one restart |
| `list_page` | What do the merged iterators return while items are put, is a page what the tables hold at its timestamp, is nothing lost, is the token right? | six versions of two events, one moved; a memtable, two indexes, sorted or merged, and versions in none of them; page sizes -2, -1, 0, 1, 4 and the greatest |
| `lex_chars` | Do tokens spell the input, and are they whole? | every input of up to four of fourteen classes of characters, every order of `Peek` and `Next` |
| `bsi` | Is an index the map its calls describe, are its queries exact? | values of 3 bits and one more slice, two columns; an index under all calls, a second one (`Operand`) that it is combined with, which only has column 0 set and is made anew; with and without a range; one or two batches |
| `load` | Is every job counted once, no event made twice, and does the loader end? | two workers, batches of two, nine rows with a repeated id, one without a service and one that panics, more than the channel of jobs holds |

Bounds, and why they are enough.  A memtable of one item rotates with every
request, so three requests give every order of rotation, notification, merge and
drop around a reader; memtables of two items and of one pass the limits 1 and 2
and reach level 3.  Readers never
influence anything, so one stands for all.  The counter of notifications is
reset at 2 instead of 4: the run needs a notification that compacts and one that
does not.  `Again` lets only calls with an empty batch recur (a legal request),
which keeps memtables finite while writes never cease.  Two indexes and a
memtable give `MergeIterator` a tie of two earlier sources with a later one.
Three comparators in a tree (`ComposeMax`; two in one with a mistake, `EditMax`)
make every pair of operators meet, in either nesting, and four expressions in one
another (`MaxDepth`) are more than such a tree needs, an inserted parenthesis
included; a missing or an extra token reaches every error of the parser.
Four overlapping calls on one event give every order of two commits around the
lookups of others, and a late commit after an answer; an update of the title only
and events stored before the process started are left to the proofs, which cover
them.  Two events and two places in memory besides the table let
versions tie, move, be deleted and be missing independently; the greatest page
size overflows as `MaxSize` does at any width.  Values of three bits have
both signs, a carry and a width less than, equal to and greater than the
column's; nothing in `bsi` depends on 64 but the sign bit, which is `W - 1` here.
Four characters hold each token with a neighbour on both sides, and a string with
an escaped quote.
The runs that disable the deadlock check stop when their requests, memtables,
keys, input or file are used up, after `Close`, or when the query is answered;
`Bsi` stops when a call has panicked.

`PromptDrop` is TRUE in `storage_live` and FALSE in `storage_read`;
`MergedOnce` and `LevelsAgeOrdered` only hold with it: if the 30 s timer fires between the
hand-back and the drop, the flush worker loads a `pen` that still holds the
merged index and merges it again.  With PromptDrop the write worker needs less
than 30 s for the drop.  So `MergedOnce` does not catch that race; `storage_read`,
which has it, shows that readers still miss nothing, and `KeyMapExact` and
`TimesReadBack` hold for indexes merged twice as well.

Fairness (`storage_live`): weak fairness of each worker, because the Go
scheduler runs both; strong fairness of each `Accept`, because a channel serves
its waiting senders first in, first out, so a sender is not passed over forever.
Nothing is assumed of the choice a select makes among ready cases: progress of
the hand-back rests on the first select of the write worker, which has a default
and no `writeCh` (removing it is the mutant that breaks `PendingDrains`).
Nothing is assumed of clients, readers or the timer.  In `Loader` the
producer and each worker are weakly fair, as goroutines are scheduled and every
call has a timeout, so that `Fail` is enabled as long as it lasts; nothing is
assumed of the server.  The other specifications state no fairness and no liveness.

## What the checks show

Holding: every property of a passing run.  In particular the three loads of
`ListEvents` are in the right order (`cur` before `pen` before `levels`, against
the flow of the data), and nothing is lost between levels; merged indexes stay
internally consistent; sources in memtable order are merged strictly descending
and the newest version of an unmoved event comes first and is not lost; both
filter evaluators select the same events.  That includes a shared peculiarity: the
comparator is parsed and never looked at, so `tags != "x"` selects what
`tags = "x"` does.

The calls of the event service are atomic although they take up to seven requests
and never retry: the commit's conflict check covers the lookups, because each call
writes every row it has read.  An answer of error leaves open whether the change
was made.  Memory follows the tables in whatever order hand-offs arrive, for items
carry the commit timestamp; two exceptions are named where they occur: an update
that names `start_time` and keeps its value replaces the item's event by nil under
a live key (565), and a tombstone does not reach a key below a microsecond (560).

An answer of `ListEvents` holds only events that the table has at its timestamp,
whatever memory holds, because the rows are looked up again; memory only decides
which events are found.  So a version that no longer matches can lead to a current
event that the filter does not select, an event can be listed once per source and
start time of its versions, and after a restart nothing is listed that was not put
since.  `ListedFromSelected` and `CurrentListed` state exactly this, for
unsorted merged key lists too, as long as the page is not full.  An event that was
moved away and back is current at a version that memory may know to be deleted:
the deletion is what the iterators meet, and the event is not listed.

Of `bsi`, the operations the server uses (`SetValue`, `GetValue`, LE and GE) are
exact at every sign and width, the other comparisons for indexes without negative
values.

`CloseSettles` states how `Close` can end: both workers return, or the write
worker has returned while the flush worker is parked on `compactDoneCh` (202), in
which case `Close` waits for ever.  The gRPC server reaches `Close` only if
`Serve` returns nil.

Not holding (findings):

* `mergeTwoIndices` takes older start times first (index.go:270), its operands
  come newest first, so merged key lists are unsorted; the repository's own
  `TestMergeTwoIndices` demands the opposite.
* The key map of an index has its keys in Local (index.go:416), so a lookup with the
  UTC time of `AsTime()` misses; `TestRoaringIndex_Filter` looks rows up that way
  (index_test.go:157-160) and gets row 0.  Only merges read the map in the server.
* `MergeIterator.Next` returns the older version of an event after the newer one
  when the older one's source comes first (iterator_merge.go:59), as pending
  indexes do.

Exceptions that the models have and the properties name or leave out, where the
code does less than a reader may expect:

* `ListEvents` never reads `page_token` (storage.go:322), and `DecodePageToken` has
  no caller: every page is the first.
* Two characters may begin no token: a `!` without `=`, and a form feed that is not
  the blank behind `NOT`, `AND` or `OR`, for `TrimLeft` (filtering.go:58) does not take
  it and `\s` (24) keeps it out of every token.  Neither is refused: the `^` of the
  expression binds to its first alternative only, so the match is found further on and
  cut from the front.  A form feed and `go` are read as `go` and `o`.  `TokensSpell` and
  `TokensWhole` except texts with such a character (`Stray`), those in which it is
  inside a string included.
* An event whose newest version is handed over while it is listed, a moved event next
  to its own old versions, an old key below a microsecond: `NewestEmitted`,
  `CurrentListed` and `OldKeyBuried` except them and show nothing of what the code does
  there.  A restart that empties memory, and a death by a nil event, are facts of the
  models that no property forbids.
* The loader's channel of durations has room for every row (`LoaderAssumption`); with
  more rows than its capacity all would wait for ever, and `Terminates` says nothing
  of that.
* `bsi`, outside what the server uses: with negative columns EQ ignores signs, LT and
  GT miss the opposite value (427) and RANGE stops before its end is compared (368);
  `ParOr` of several indexes of different widths loses high bits (653); growing an
  optimized index panics (100, `GrowthPanics`).

## What is proved

TLAPS proves, for all values of the constants that satisfy the named
assumptions, which TLC evaluates in the runs:

* `StorageProofs` (`StorageAssumption`): `TypeCorrect`, `SnapshotsCover`,
  `AckedWritesVisible`, `IndexesHoldNoTombstone`, `SealedMemtablesFrozen`,
  `BatchesUndivided`, `LevelsAlwaysUnderLimit`; and, if `PromptDrop`,
  `LevelsKeepAge` and `MergesHappenOnce`.
* `MergeIndicesProofs` (`MergeAssumption`): `TypeCorrect`, `PostingsAlwaysFollow`,
  `TimesAlwaysReadBack`, `KeyMapAlwaysExact`, `RowsAlwaysDealtOut`.
* `EventServiceProofs` (`RequestAssumption`, `FreshAssumption`,
  `ServiceAssumption`): `TypeCorrect` (the only statement of its type invariant),
  `TablesAlwaysAgree`, `MemoryFollowsTables`, `OldKeysBuried`, and
  `Implementation`: `EventService` implements `EventMap`.
* `ListEventsProofs` (`IteratorAssumption`, `ListAssumption`): `KeysDescend`,
  `SourcesGiveOne`, `NewestReturned`, `KeysOnce`, `PageWithToken`,
  `AnswersCurrent`, `CurrentOnPage`, `SelectedOnPage`, for any number of indexes
  and any page size.
* `LexerProofs` (`LexerAssumption`): `TokensSpellInput`, `TokensShaped`, for inputs
  of any length.
* `FilterProofs` (`LanguageAssumption`, `FilterAssumption`): of the parser alone,
  `ParserSound` and `ParserComplete`; of the two evaluators, `EvaluatorsAgree`; of
  the calls, `FilterInvariant`, `TreeParsed`, `TextKept`, `AnswersAgree` and
  `IndexKept`.  Texts have any length, trees any size and depth, an index any items.
* `BsiProofs` (`WidthAssumption`, `BsiAssumption`): `IndexesFormed`,
  `ComparisonsRight`, `AnswersOfIndexes`, and `IndexesAreMaps`: `Bsi` implements
  `ColumnMaps`.  Values and columns have any number of bits, indexes any width.
* `LoaderProofs` (`LoaderAssumption`): `EveryJobCounted`, `EventsMadeOnce`.

What the assumptions say of the code: a process has finitely many keys in memory and
finitely many workers, a file has a length, `None` is neither a key nor a token, `Nil`
is no token of the lexer, no node and no bitmap, clients write terms and mistype tokens,
values of an index have at least one bit, `None` is not one of them, a query has at
least one batch, an event is the same in either zone, and the channel of durations holds
one per row.  `PromptDrop` is a hypothesis and not an assumption: without it two
theorems are false, because the 30 s timer can make the flush worker merge an index
twice (see above).

The inductive invariant of `Storage`.  `SnapshotCoverage` speaks only of readers
that have finished; a step of a worker could break it for a reader between its
loads.  `IInv` therefore adds, to `TypeOK`: *Placed*, every sealed memtable is in
`pen`, in a level, or on its way from `cur` to `pen`, and what a worker holds in
hand is accounted for; *Handed*, an index that has been handed back is already in
the published levels, so dropping it loses nothing; *Sealed*, sealed and indexed
memtables hold no tombstone; *Written*, items of acknowledged requests are in
some table; *Covered*, at each of its three points a reader has or will still
find every memtable up to its `cur`.  The argument is that tables only move in
the direction in which a reader loads: what a reader did not find in an earlier
place it finds in a later one.

What keeps the levels.  A batch stays whole because what
the write worker still puts is in the current memtable only (`Fresh`).  A spill
can only fill the next level, and `mergeLevel` goes on from there, so the levels
it publishes are under their limits; the sizes are sums over finite memtables.
For `LevelsAgeOrdered` the hand-over matters: `Queued` says that `pen` and what
the flush worker has left of it are in order of age, `OldestFirst` that it takes
the oldest, `Shared` that an index both pending and merged is being handed over
or dropped, `PendingNewer` that the rest of `pen` is newer than all levels.  Then
what is merged into level 0 is newer than everything merged before it.  The timer
is where this breaks without `PromptDrop`: the flush worker would load a `pen`
with an index that is merged already.

The inductive invariant of `MergeIndices`.  An index is `Sound` if all its parts
agree with its key list.  `IInv` says that every live index and both operands of
a running merge are sound and that `RowsDealtOut` holds: each row map embeds its
operand in the result, in order, and every row comes from exactly one operand.
From that, `MergedSound` shows the result sound: a row's slice bits can come only
from its own operand row, because slices hold no row beyond the key list and no
row is dealt out twice.  The proofs never look into the comparison of keys, so
they stand whichever key goes first: correcting the order leaves them valid.

The inductive invariant of `EventService`.  `TablesAgree` and the refinement are
broken, if at all, by an `Apply`, whose effect was decided requests earlier.
`IInv` carries the connection: *Phases*, which states of a transaction go with
which places of its call; *Snapshots*, what a transaction sees agrees in itself
and equals the tables in every row not written since it began; *Locals*, a
call's key and event are what its snapshot holds, with the mask applied;
*Buffers*, exactly the modifications of the requests made so far; *Prepared*, a
commit that is sent writes every row its outcome depends on; *Unmade*, the ids
of a create are in no row before its commit.  Without a conflict those rows are
still as the snapshot has them, so `Apply` is `EventMap`'s `Take` on the current
events and leaves the tables in agreement; every other step is an answer or a
stutter.  For `LastChangeIndexed` three more parts say that commit timestamps are
distinct and not after the rows' own (*Stamps*), that the last commit of an id
determines its current event (*Results*), and that memory holds exactly the items
of the calls put (*Filed*).

`OldKeysBuried` adds *Moved*: an event is where a committed call has put it, or a
later committed call took it away, which then has an item at the old key.

The inductive invariants of `ListEvents`.  *Walk* is what iterators are: each
cursor is at a key it may return and knows where it goes next, no key is in two
places, and, of sorted sources, every source is past all keys returned and past
the events of its own among them.  `KeysDescend` follows because cursors only move down
the one order that all sources share, whatever is put meanwhile.
*Covered* is for `NewestReturned`: a version that the property asks for is
returned already, or its source's iterator is at it or comes to it
(`KeyAhead`, `RowAhead`).  An iterator passes a key only if it is the one returned,
or a version of the returned event in its own source, or a version behind a
readable newer one, and none of these is the newest of an unmoved event.
*Unrepeated* needs no sorted sources: every source is past its own keys that were
returned, which is why no key is returned twice even from an unsorted merged
list.  *Filling* and *Filled* tie the page to what was returned up to the key
that was one too many.  `AnswersCurrent` needs of `Answer` only that its places
are rows that the lookup found.  That the model's merge of two key
lists loses and repeats no key (`MergedRange`) and that `KeyList` lists exactly
the keys of a memtable are lemmas.

`CurrentOnPage` must do without sorted sources.  *Reached* says of a version due
that some version of its event was returned or is where a source stands, or that
its own iterator still comes to it: an iterator that passes it over, in whatever
order, does so for another version of the event that it returns itself.  With
*Chosen* (what is returned may be read and is selected) and *Answered* (the page is
what was returned, and the answer is made of it) some key of the event is then on
the page, and its row is the current one because the event has one start time.
`SelectedOnPage` counts: places of the answer go to different keys of the page
(`AnswerPlaces`), and those, of sorted sources, to different pairs of a source and
a start time, because a source gives one version of an event at each
(`OnePerSource`).

The inductive invariant of `Lexer` (`LexerInv`).  If no character of the input is
astray, none of what is left is, and what is left after trimming begins with no blank,
because a form feed behind a word goes with the word; so some alternative matches at the
front of it (`FrontLengths`), and the leftmost match is the one that `Next` cuts:
`Fails` cannot happen.  Each alternative takes a token of its shape (`MatchReads`),
which spells what was cut but for a blank behind a word (`ReadsSpells`).  What the
tokens spell then grows by what the input loses, because flattening and spelling
distribute over concatenation (`FlattenConcat`, `SpelledConcat`).  With a character
astray the match is behind the front, and both properties can fail.

The filter.  The parser returns a result at every position, so its theorems are
found method by method, from the member up, and then by induction on the depth of
parentheses.  `Gives` is soundness: whatever a method returns is a node of its kind,
and the tokens it has passed are what that node is written as; a loop gives a list of
what its body gives (`RepeatedReads`, `ListReads`).  `Finds` is completeness: in front
of a node's text, and if the token behind it is one that the method stops at, the
method returns that node.  Here the look-ahead matters: each kind of node has the
tokens that it may begin with and those that may follow it, and a loop ends in time
because no token that may follow a list begins an item or is its separator.  So
`ParserSound` and `ParserComplete` say that accepted texts and trees correspond one
to one.  `EvaluatorsAgree` goes the same way: `Answers` relates what an evaluator of
bitmaps returns to the answers for all items, and every operator keeps it, errors and
short cuts included; in particular a list that is not empty never evaluates to nil,
and every bitmap is a clone, so that And and Or leave the index alone.  `FilterInv`
ties the phases of a call together: an unmistaken input is the text of the tree, what
is parsed is what `ParseFilter` makes of the input, and the index is as it was built
(`Postings`).  None of the properties is inductive without the last two: `TokensKept`
does not know that the filter came from the input, nor `SameAnswer` that the bitmaps
are those of the items.

The columns of `Bsi`.  A number is the set of places where it has a bit, and `Worth`
is the sum of the powers of two over such a set.  `WorthEqual` says that numbers
below the same power of two are equal if their places are, and `WorthOrder` that of
two different ones the larger has the bit at the highest place where they differ:
that is what the loop of `compareValue` relies on.  Addition is shown digit by digit:
`addDigit` ripples a carry upwards, and after every digit the worth of the sum is the
worth of the operands so far, up to the width of a value.  The inductive invariant
(`WellFormed`) is that every index is *Good*: no slice has a bit of a column
without a value (*Clean*), and an index made with a range is as wide as the range
(*Wide*).  Without the first, adding to or setting such a column would bring up stale
bits; without the second, a value within the range would be cut when it is set, as
an index with a range does not grow.  Neither the refinement nor the two
properties of the queries follow for an index that is not Good.

Each call is then one step of `ColumnMaps`: the new index is Good, and decoded it is the
old map with that update (`Effect`).  Sums go slice by slice in the code and column
by column in `QueriesAgree`; `SumExchanged` turns one into the other.  A count is
a fold over the columns of a batch and over the batches; `Tally` says what it has
counted so far, and the batches, sets of columns by rank, are disjoint and make up the
whole.  The restriction of the properties to indexes without carries past the width
of a value, and of some comparisons to values that are not negative, is the code's:
outside it they are false.

The inductive invariant of `Loader`.  `EveryJobCounted` is an equation of
counters and of a sum over the workers, so the proof first shows that sums over
finite sets exist as recursive functions, are unique, and change by what one
worker changes (`AddsChange`); `IInv`'s *Ended* says that nobody ends while
anything can still come.  `EventsMadeOnce` follows the rows: `main` puts only the
first of every id (*Reading*), each row put is in the channel, in the hands of
one worker, or gone (*Apart*), the server has rows only of calls that were made,
each in one request (*Served*), and every row gone was counted once (*Tallied*).

Recursion.  What `MapThenSumSet`, `FoldSet`, `FlattenSeq`, `Merged` and `KeyList`
compute is reached without induction over data: a least counterexample among the natural
numbers or finite sets (`Least`, `Smallest`), and the recursive function as one that
exists (`LoopsExists`, `AddsExists`, `FlattensExists`, `NestsExists`).

Only model-checked: liveness (`PendingDrains`, `WritesAnswered`, `CloseSettles`,
`Terminates`), which is out of the prover's reach.

## Not modelled, and the plan

* The gRPC server (start-up and registration), generated code, the logging
  adapter and the interface declarations have no logic of their own.
* The YT client's wire encoding and connection set-up, and the order in which
  migration creates the tables, are calls to an external service.
* `fromYt`, `DecodePageToken` and the min-heap of `compare.go` have no caller; the
  `Seek` methods of the iterators and the printing methods of filter trees have none
  but tests.
* The statistics in the answer of `ListEvents`, the loader's latencies and its
  monitor change nothing.
* `MinMax` of `bsi` is called by tests only.
* What run-optimization does inside a bitmap, `ReadFrom`, `WriteTo`, sizes and
  `Equals` of `bsi` are the bitmap library's representation.

The models are joined by what they show each other: `Storage` hands `Iterators` its
snapshot, `EventService` gives `ListEvents` its histories, `MergeIndices` its
unsorted key lists, `Lexer` hands `FilterLanguage` its tokens.  One model of the
whole would have too many states.
