# nosj in TLA+

Specifications of [nosj](../src/README.md), a JSON parser and writer in Rust:
models of its parsers, writer and byte kernels that TLC checks on bounded
documents, and theorems about them that TLAPS proves for every document. Source paths are
relative to the repository (`src/src/driver.rs` is the crate's `driver.rs`).

The library is sequential: no threads, no locks, no I/O. What is hard in it is
elsewhere:

- two push engines, each a loop of hand-copied code paths over registers and a
  frame stack, that must accept the same documents and make the same calls;
- a sink (the caller's code) that may abort the parse at any call;
- `Buffers` reused by call after call, whatever the previous one left in them;
- pull and push protocols driven by the host, one call at a time;
- raw stores into capacity reserved by arithmetic; words carried from one
  64-byte block to the next.

## 1. Inventory

| Component | Source | State | Operations |
|---|---|---|---|
| Push driver over the index | `driver.rs` `drive_inner` | index position, frame stack, registers `mark` `cnt` `is_object`, the place in the loop | `parse_indexed`, `parse_preindexed*`; one `take!` after another |
| Fused cursor | `cursor.rs` `parse_with` | byte position, frame stack, current registers, the flat loop's registers, `ParseOptions` | `parse`, `parse_with`; one `next_significant!` after another |
| Sink contract | `driver.rs` `trait Sink` | the host's value stack | the value callbacks, `key`, `begin_*`, `end_*`, `mark`, `array_checkpoint` |
| Engine equivalence | both, and `fuzz/.../parse_differential.rs` | two runs over one `Buffers` | parse with one, parse with the other, compare |
| Pull reader | `reader.rs` `Reader` | index position, `ParseOptions` | `next_node`, `object_first_key`, `object_next_key`, `array_first`, `array_next`, `skip_value`, `container_len`, `finish` |
| Buffers | `reader.rs`, `driver.rs` | `indexes`, `indexed_len`, `scratch`, `frames` | `preindex`, and every entry point that takes `&mut Buffers` |
| Writer | `writer.rs` | `out`, `depth`, `first`, `after_key`, options | scalars, `key`, `begin_*`, `end_*` |
| Stage 1 | `stage1.rs` | carries between 64-byte blocks, the index vector and its capacity | `index`, `index_packed` per architecture, `flatten_bits`, `container_end` |
| JSON pointers | `pointer.rs` | position, the queries still open | `resolve`, the batch walk `resolve_set` |
| Escaping | `emit.rs` | output buffer with reserved capacity, the length in a register | `escape_into`: four kernels, six modes |
| Number output | `emit.rs`, `grisu2.rs` | output buffer with reserved capacity | `write_i64`, `dtoa` |
| Scalar tokenizers | `scalars.rs` | scratch buffer with reserved capacity | `parse_string`, `parse_number`, `parse_literal`, `parse_nan_keyword` |
| Byte scanning | `scan.rs` | none | class table, vector and SWAR kernels, `tail_find`, `padded_tail`, `copy_small` |
| Float conversion | `float.rs`, `grisu2.rs`, `el_table.rs` | none | pure arithmetic over tables |

How they interact. `stage1::index` fills `Buffers::indexes` with the offsets of
the document's tokens; the push driver and the pull reader read it. The cursor
and the pointers need no index: they scan, and the pointers step over a container
with `stage1::container_end`. Both push engines call the
tokenizers of `scalars.rs`, which decode into `Buffers::scratch`, and hand the
result to the `Sink`; both keep their frames in `Buffers::frames`. A sink that
writes calls the `Writer`, whose strings go through `emit.rs`.

What makes each component correct:

- **push engines**: accept exactly the grammar; deliver the tree in document
  order; give each `end_*` the mark taken at its `begin_*` and the number of
  members; never underflow the frame stack; stop at a refusal; return; agree
  with each other, in errors and their offsets too;
- **sink contract**: calls in a legal order, checkpoints often enough to bound
  what a spilling sink holds;
- **pull reader**: a host that follows the protocol walks exactly the grammar
  and gets the same events as a push parse; skipping lands where walking does;
  `container_len` is the number of members the walk then finds;
- **buffers**: no call depends on what an earlier one left; the length check of
  the preindexed path compares with the document the index belongs to;
- **writer**: legal calls give a document, its layout follows the nesting, and a
  parse of it gives the calls back;
- **stage 1**: blocks with carries index what a byte-at-a-time scan indexes; the
  stores past the length stay in reserved capacity;
- **pointers**: the batch answers each query as the single resolution does;
- **escaping**: every kernel writes the same text, that of the mode, whatever the
  position of an escape in a chunk; every store falls into capacity reserved
  before it, through a pointer taken after the last growth;
- **tokenizers**: each text has one reading, whichever loop meets it: the string
  it spells, the integer, float or text it denotes, or an error; what was
  escaped is read back as the string it was;
- **number output**: the digits of the number, all of them, in the bytes
  reserved.

PROJECT.json lists the hazards of each at its source line, with the properties
that cover them.

## 2. The modules

```
Tokens ── SinkCalls ── FlatSink ──┬── IndexedDriver ──┬── MCIndexedDriver ── TreeDocuments ── JsonTrees
              │                   │                   └── IndexedDriverProofs ─┬─ FlatSinkProofs
              │                   ├── FusedCursor ────┬── FusedCursorProofs ───┘
              │                   │                   └── MCFusedCursor ── TreeDocuments
              │                   └── SinkProtocol (abstract; INSTANCEd by both engines)
              ├── PushParse    (abstract; what either engine makes of a document)
              └── PushDifferential (INSTANCEs both engines) ──┬── MCPushDifferential
                                                              └── PushDifferentialProofs
Tokens ── PullReader ──┬── MCPullReader ── TreeDocuments
                       └── PullReaderProofs
FlatSink ── Writer ── RoundTrip (INSTANCEs FusedCursor) ──┬── MCRoundTrip ── JsonTrees
                                                          └── TextProofs ── FlatSinkProofs
Buffers ── MCBuffers
Tokens ── PointerTokens ──┬── PointerBatch ── PointerDifferential ──┬── MCPointers
                          │                   (INSTANCEs Pointer)   │   (and PointerDocuments ── JsonTrees)
                          └── PointerWalk (abstract) ───────────────┴── PointerProofs

Stage1 ──┬── MCStage1
         └── Stage1Proofs
RawBuffers, ByteClasses ──┬── Escape ──────┐
                          └── StringToken ─┴── StringRoundTrip ──┬── TextProofs
NumberToken ─────────────────────────────────────────────────────┼── MCScalars
RawBuffers ── NumberText ────────────────────────────────────────┘
```

The upper half works on tokens, the lower on bytes. What the upper half assumes of
a token, where it starts and how its tokenizer ends, is the subject of the lower.

### The abstraction

A document is a sequence of tokens (`Tokens`). Every engine dispatches on the
first byte of a token and leaves the rest of a scalar to its tokenizer, so a
token stands for its first byte and for how the tokenizer ends: a good string,
a string with a lone surrogate, a string that is refused, a number or literal,
one that is refused, a `NaN`/`Infinity`, a `-Infinity`, a byte that starts
nothing. Whitespace and offsets within a token are not modelled; an error's
place is the token it is reported at. Two faults of documents are out of the
alphabet: bytes between two tokens that stage 1 does not index, and a scalar that
runs into the next token. They are faults of bytes, and the modules on bytes have
them: `Stage1` indexes any text, a scalar directly behind a string included, and
`NumberToken` refuses a scalar that no boundary follows.

`SinkCalls` has the calls of the `Sink` trait as records, what a call makes of the
sink's record of a container, `Delivered`, the calls of a log without its
checkpoints, and `RefusesAt`, a sink that refuses its n-th event.

The sink is the documented flat-value-stack sink (`FlatSink`): `vals` is the
height of its value stack, the value `mark()` returns. Beside it, `open` is the
sink's own record of the containers still open: the kind and mark seen at
`begin_*`, and the keys and values accepted since. **No engine reads `open`**; it
is the ground truth that the engines' registers are compared with. Every call
may be refused.

The `Buffers` outlive a parse: `Collect` ends a use of a result and keeps the
frame stack as the parse left it, and the next `Start` begins over it.

### IndexedDriver (driver.rs 291-650)

| TLA+ | Rust |
|---|---|
| `pos`, `stack` | `pos` into the index, `Buffers::frames` |
| `mark`, `cnt`, `kind` | the registers `mark`, `cnt`, `is_object` |
| `pc` | the place of the loop that waits for a token |
| `Taking`, `Tok` | `take!` |
| `Enter(frame)` | push of the frame, `begin_*`, `mark()`, `continue 'fresh` |
| `Value`, `EmitScalar`, `EmitKey` | `emit_scalar!`, `emit_key!` and their errors |
| `Fresh`, `Colon`, `NextValue`, `Key` | the four token positions of the scan loops |
| `AfterScalar`, `AfterChild` | the two copies of the separator-or-closer dispatch |
| `EndContainer`, `Resume` | scope end: `end_*`, pop, restore of the registers |
| `Finish` | `finish!` |

An action is all that happens from one `take!` to the next, the sink call
included; the refusal of that call is a disjunct of it.

### FusedCursor (cursor.rs 60-427)

The cursor has two loops. `flat` holds the registers of the flat loop (`omark`
and `ocnt`, or `amark` and `acnt`), used as long as a container has only
scalars; `Descend` moves the current registers to a frame and `flat` into
their place, and the container is finished by the main loop. `Flat`,
`FlatColon`, `FlatValue`, `FlatSeparator` are the flat loop; `Main`, `MainKey`,
`MainColon`, `MainNext`, `MainValue` the main one. `ParseOptions` are chosen at
`Start`. `ROOT_MARK` is the sentinel `usize::MAX`.

### SinkProtocol

What a push parse promises a sink, with no engine in it: which call may come
when, with which arguments, that nothing follows a refusal, and that success
means one complete value. Both engines are checked to implement it, and
proved to.

### PushDifferential, PushParse

The two engines, instantiated, on one document over one `Buffers`, with sinks
that refuse their n-th event: the fuzz target of the repository as a
specification, over every small document in place of sampled ones. The sinks do not
spill (`SpillsAssumption`): the engines' checkpoints come at different elements, and a
sink that spills answers `mark()` with a height that tells when it did. What is
compared is the events (`Delivered`), marks and counts included, and the result.

`PushParse` is the parse itself, with neither engine in it: a state is a record,
`ParseStep` a function of it, the document and the event refused. No run checks it; both engines are
proved to make it (section 4).

### PullReader (reader.rs 181-551)

One action per method of `Reader`; `pos` is its position in the index. The
reader has no stack, so the protocol its documentation describes is the host's
part of the model: `pc` says which methods the documentation allows next (`value`,
`first`, `next`, `end`), `open` the containers the host is in, with the members it
has met and the answer `container_len` gave. At every value the host walks
(`NextNode`) or skips (`SkipValue`), and it may size a container before walking it
(`ContainerLen`); `got` is what it received. Under `allow_nan` the skip loop
(`reader.rs` 478-487) lets an `N` or an `I` pass whatever follows, so whether a junk
entry stops it depends on a byte the token does not record: `StopSets` is the
choice. A host that calls a method out of turn, or goes on after an error, is not
modelled: the reader promises nothing there.

### Writer, RoundTrip (writer.rs 106-392)

The writer's registers are `depth`, `first` and `after_key`; `out` is the text, as
tokens and the names of the layout fields between them, and `cfg` the fields that
are not empty. The host keeps the record of `FlatSink`: the writer is the dual
of a sink, and legal calls are the ones a sink may receive. Beyond those the host
may catch a panic of `float()` (`FloatPanics`, an assertion before anything is
written) and make illegal calls (`Misuse`): the writer validates nothing, but its
depth must not underflow. In `RoundTrip` a finished text goes, layout removed,
to the fused cursor, whose sink keeps its values as the host did, so that the calls can be
compared with their marks and counts.

### Buffers (reader.rs 7-64)

Which input the index was last built for, and `indexed_len`. The scratch is
overwritten before each use and the frames are part of the engines' models.

### PointerTokens, Pointer, PointerBatch, PointerDifferential (pointer.rs)

A document is its tokens and the names of its keys. A pointer is the sequence of
its tokens; `Text` gives each token's unescaped text, `Index` its reading as an
array index, so `~0`, `~1` and leading zeros are data. `ValueEnd`/`ValueFault` are
`value_end` with `container_end`, which counts brackets and matches no kinds.

| `PointerBatch` | Rust |
|---|---|
| `frames` | the activations of `walk_object` and `walk_array`, innermost last |
| a query | its slot (`Query::id`); `Query::tokens` is its pointer less one token per frame |
| `queries` | the argument of the call of `resolve_set` at hand |
| `frames[k].queries`, `.live` | that argument for the container, and the queries its walk still looks for |
| `WalkInto`, `StepOver` | `resolve_set` at a container some query goes into, and at any other value |
| `ObjectMember`, `ArrayFirst`, `After` | one turn of the walks' loops |
| `Settle` | the end of `resolve_set`: answers, `remaining`, and `None`, the abort signal |
| `Unwind` | `None => return Ok(None)`: the signal leaves one walk and the `resolve_set` that called it |
| `Finish` | what `pointers_*` does when the walk has returned |

A member no query wants is stepped over by `value_end` directly (497, 547, 576);
in the model it is a call for no queries, which answers nothing. `Pointer` is the
single resolution, which goes down and never comes back up. `PointerDifferential`
resolves a batch and then each of its pointers alone, on one document. `PointerWalk` is
the walk of one pointer as a function of where it stands, which the proofs compare
both with; `PointerDocuments` has the reference, a recursive `Lookup` on the document.

### Stage1 (stage1.rs)

A mask of a block, a `u64` in the code, is the set of the positions whose bit is
set; `2^LogWidth` positions stand for 64. What depends on the width is the carry out
of the addition in `find_escaped`, the doubling shifts of `prefix_xor`, the top
bits that go to the next block and the cut of the last one; each is written for any
width. `carries` is the struct of that name.

| TLA+ | Rust |
|---|---|
| `NeonMasks`, `Sse2Masks`, `Avx2Masks`, `ScalarMasks` | `classify_block` of each kernel, by nibble table or by comparison |
| `FindEscaped`, `PrefixXor`, `BlockOps`, `BlockStructurals` | the methods of `Carries` |
| `Flatten`, `Reserved`, `fits` | `flatten_bits`, the capacity its callers reserved, and whether every store so far stayed in it |
| `Start`, `Refuse` | `index`, `index_packed` and their length check |
| `DriverBlock`, `Avx2Block`, `ScalarBlock`, and the same with `Tail` | one turn of the three index loops, the zero-padded last block |
| `BeginSkip`, `Live`, `SkipBlock`, `SkipRunsOut` | `container_end_driver`, from the middle of a block |
| `ScalarSkipByte`, `ScalarSkipQuoted` | `container_end_scalar` |

The reference is a definition on the whole text: `Escaped` counts the backslashes
before a byte, `WithinString` the quotes, `StartsToken` says where a token starts. The
nibble tables also take a few bytes above 0x7F for structural ones (`Misread`); the
properties are stated for texts that have those only within strings (`Benign`), as
every valid document has.

### RawBuffers, ByteClasses, Escape (emit.rs 40-678, scan.rs)

A buffer is its capacity (`mem`, with `Junk` where nothing was stored), its published
length and the number of moves of its storage. A growth keeps the published bytes and no
other, and gives no more than was asked for, so that a store the arithmetic does not
cover is seen. `sound` says whether every store so far was within the capacity and
through the storage of that time.

`Escape` has the fused loop of the three vector kernels, one action per chunk and
per escape: `CleanChunk`, `HitChunk`, `InlineEscape`, `CleanTail`; `SlowPath` is the
reservation at the first escape of a string; `EscapeRun` writes a run of escapes with
table stores of eight bytes; `FindEscape` and `CopySpan` are the fallback of hosts
without vectors, over SWAR words. An AVX2 machine takes the 16-byte loop for short
strings (`KernelOn`). `ByteClasses` has the class table, the comparisons of each
kernel and the borrows of the SWAR subtraction.

The comment at `scan.rs` 147 calls the SWAR forms exact, with no false positives.
They have some, above a lane that hits, because the word is subtracted from in one
piece and a lane below zero borrows. Only the lowest hit is ever used, and that one
is exact: `EscapesByReference` is checked over them.

### StringToken, StringRoundTrip (scalars.rs 60-545)

`parse_string`: the scan for a quote, backslash or control byte, by vector with
`TailFind` for the last bytes (a window that reaches back over bytes already dealt
with), or byte by byte; the borrowed result; the decoding into the scratch,
reserved once for the span, by `CopyCleanChunk` and one action per escape, surrogate
pairs and the lone halves included. `inRoom` is to the scratch what `sound` is to the
output. In `StringRoundTrip` what `Escape` wrote, closed by a quote and followed by
more text, is read by `StringToken` on the same kind of machine.

### NumberToken (scalars.rs 555-841)

`parse_number` is one function of the text: `ScanDigits` accumulates 8 digits at a
time, then 4, then single ones, in a word that wraps (`% WORD`), and the number of
digits says afterwards whether the word holds the mantissa. The exponent wraps too, and
its leading zeros count for nothing. The result is an integer, a text (a big
integer), a float given by mantissa and power of ten, zero or infinity, or an
error. `parse_literal` and `parse_nan_keyword` are there, and the boundary that must
follow a scalar. The reference reads the text by the grammar (`Shapes`) with exact
arithmetic.

### NumberText (emit.rs 680-815, grisu2.rs 295-434)

`write_i64` computes where the digits end (`DecimalLen`, an approximate logarithm and
one comparison) and writes them backwards, two at a time. `EmitDigits` lays the
digits of a float out in one of four ways in 32 reserved bytes. Magnitudes are
sequences of decimal digits, so that the numbers of 64 bits are exact. A comment
(`grisu2.rs` 298) gives the widest layout 29 bytes with nine zeros; the code
puts at most eight there, 28 bytes, so the bound holds with one byte more to spare.

### JsonTrees, TreeDocuments

The reference: JSON values as trees, their writings as token sequences, and the
calls they are worth. A document is grammatical when it is the writing of some
tree. It has nothing in common with the engines' loops. These are recursive
definitions, and only the model-checking modules use them.

### Slip_ definitions

A definition named `Slip_X` (once `Stuck_X`) is `X` with a plausible bug: a
dropped reset, a child not counted, a guard lost. Nothing uses them; put in
`X`'s place, each makes the property it was written for fail.

## 3. The runs

| Run | Documents | Properties |
|---|---|---|
| `MCIndexedDriver.cfg` | every tree of up to 8 tokens and every document one token away (removed, replaced or inserted, over the whole alphabet), and larger rows; a sink that spills and refuses anywhere | `IInv`, `MarkCountContract`, `PendingBounded`, `AcceptsExactlyJson`, `DeliversTheTree`, `ImplementsSinkProtocol`, `Returns` |
| `MCFusedCursor.cfg` | trees of up to 7 tokens with and without trailing commas, their edits, all four `ParseOptions`; the same sink | `CInv`, `MarkCountContract`, `PendingBounded`, `AcceptsExactlyTheGrammar`, `DeliversTheTree`, `ImplementsSinkProtocol`, `Returns` |
| `MCPushDifferential.cfg` | trees of up to 7 tokens, an object that goes on after a container, their edits, two rows; sinks that refuse event 1, 3, 4 or none | `SameEvents` |
| `MCPushDifferential_calls.cfg` | the same to 6 tokens | `SameCalls`: **violated** |
| `MCPullReader.cfg` | trees of up to 7 tokens with and without trailing commas, their edits, all `ParseOptions`, every mixture of walking, skipping and sizing | `RInv`, `WalksExactlyTheGrammar`, `SlicesAreDocuments`, `HintExact`, `Returns` |
| `MCPullReader_docs.cfg` | small documents | `ParsedIsWalkable`: **violated** |
| `MCRoundTrip.cfg` | hosts of up to 8 calls in five layouts, with a caught panic and up to 2 illegal calls; what legal hosts write, read back | `WInv`, `WritesTheTree`, `RoundTrips` |
| `MCBuffers.cfg` | three inputs of three lengths | `GuardedByLastIndexed`: **violated** |
| `MCPointers.cfg` | trees of up to 8 tokens and edits of those up to 4, keys named in every way; named batches and all triples with a duplicate over pointers that are prefixes of one another; all `ParseOptions` | `BInv`, `StopsWhenResolved`, `BatchMatchesSingles`, `ResolvesByReference`, `BatchAcceptsTheGrammar` |
| `MCStage1.cfg` | every text of up to 5 bytes over six classes, of up to 9 over quotes, backslashes and openers, and texts at the limits; four kernels, the packed encoding with one of them; a skip from every opener | `IndexesTokenStarts`, `CarriesMatchText`, `StoresStayReserved`, `SkipMatchesIndex` |
| `MCStage1_kernels.cfg` | texts of up to 2 bytes and the special ones | `KernelsAgree`: **violated** |
| `MCScalars.cfg` | strings in all modes on four machines, escaped and read back; texts no escaper wrote; numbers and words as texts; integers and floats written | `EscapesByReference`, `EscapeStoresReserved`, `DecodesByReference`, `ScratchStoresReserved`, `ReadsBack`, `ScalarByReference`, `WritesNumber` |

`IInv`, `CInv`, `RInv`, `WInv` and `BInv` contain the type invariant of their module,
that no stack or count underflows, and what makes them inductive (section 4). The round trip and the pointers' run also explore
the writer and the batch walk alone, since a behaviour may stop before the second
part begins.

What they show. Each engine accepts exactly the grammar its options name, over
every document in the set; what it accepts it delivers in order with the right
marks and counts; a spilling sink never holds more than a period of elements of
an array; every parse returns; and the engines agree on the events and on the
result, the token an error is reported at included. A host of the pull reader that
follows the protocol succeeds on every document of the grammar without lone
surrogates, however it mixes walking and skipping, and on no other, but for what
is inside a container it skipped: there only brackets are counted.
`container_len` is the number of members a walk then meets. The writer's text is the tree rendered in its layout, and the cursor
reads back the calls that wrote it. A batch of pointers that succeeds gives each
pointer the answer it gets alone, the reference's answer on a document of the
grammar, and a batch fails on such a document only for a malformed pointer. Blocks
with carries index what a definition on the whole text does, the skip ends where that
index has the closer, and all four kernels write and read each string as its
characters require, within the capacity they reserved.

Bounds, and why they are enough. `TreeSize` bounds the trees by tokens. At 8 it
has three levels of nesting, an object in an array and an array in an object, a
scalar and a container first, last and in the middle, and an object with a
nested value followed by another pair; the larger trees add a fourth level and
rows over two checkpoint periods. Every branch of either loop depends on the
current token, the registers and the frame on top, so a deeper document through the same branches; where a theorem states the property (section 4) the
proof takes the bound away. `CheckpointEvery` is 256 in the code and 2 in the runs, so that rows of
three to five elements meet the checkpoint twice; the theorems hold for every
period. `Limits` names the refusals of the differential run; the single-engine
runs refuse at every call. `MaxCalls` is 8: an object in an array with a member
after it, and every tree of up to 13 tokens (`TreeSize` of `MCRoundTrip`, the longest 8
calls can give). `MaxMisuses` is 2, a second illegal call from the state the first
left. The larger trees of the pointers' runs have an object or array in the
second member of an object, so that a query waits in one frame while another is
answered below; the batches have pointers that are prefixes of one another,
duplicates, an escaped spelling, an index with a leading zero and a malformed
one. `EditSize` bounds the trees whose edits are documents too.

On bytes the widths are scaled down, together, so that every boundary is crossed
more than once. Blocks of 4 bytes (`LogWidth` 2) and texts of 9 (`EscapeSize`) put a
run of backslashes, a string and a scalar across two boundaries in every phase; 5
bytes over all classes (`MixedSize`) one past a boundary. `Slots` is 2 for 8, so that
a block fills groups and leaves one half full; `OffsetBits` 4 and `PackedBits` 3, so
that 7, 8, 15 and 16 bytes are the last length allowed and the first refused of each
encoding. Vectors have 8 bytes and AVX2's 16 (`VectorWidth`), SWAR words 4; strings
of up to 4 code points over five classes, of up to 2 over eleven, and the same behind
7, 8, 15, 16 and 18 clean bytes, place an escape before, at and behind a chunk's end;
table stores, escapes and UTF-8 keep their true lengths. The word of a number has 7
bits (`WORD` 128), two digits always fit it (`MaxDigits`), powers of ten go from -4 to
3: 63, 64, 65, 99 and 128 are the limits 2^63 - 1, 2^63, 19 digits and 2^64 of the code.
What the argument needs of them is 10^MaxDigits <= WORD and the digit chunks
being longer than MaxDigits. Integers and floats written have their true sizes: every
power of two and of ten with its neighbours, 1 to 17 digits at every exponent near
the limit of a layout.

Fairness. `Returns` is checked under `WF_vars(Step)`. A parse is one function
call that does not block or yield: once entered it takes its steps until it
returns. There is no fairness on `Start` or `Collect`: nothing makes the caller
parse again. For the pull reader the steps are the host's calls, so its `Returns`
is about a host that keeps calling until it has a result (`FairSpec`); that it may
size a container only once keeps such a host from sizing for ever.

Spilling. Both engines are run with the sink that spills at checkpoints, the
differential and round-trip runs with one that does not; what is proved of either engine
alone holds for both.

### Where the code and its documentation differ

`SameCalls`. `parse_differential.rs` says the two engines "must produce identical
event streams", and `driver.rs` 139 that `array_checkpoint` is called "every 256
elements". The driver counts the element that is about to come and then tests
(driver.rs 528-531, 608-611), so its first checkpoint has 255 accepted elements
below it; the cursor tests the elements accepted (cursor.rs 302, 311, 367) and has
256. On a long array the calls differ. Everything else is identical
(`SameEvents`), and either phase bounds a spilling sink (`PendingBounded`).

`ParsedIsWalkable`. `reader.rs` 218 says that "the same document set
`crate::parse_with` accepts is walkable, and skippable, here". A string with a
lone surrogate is accepted by `parse_with`, which hands the sink raw bytes, and by
`skip_value`; `next_node` and `read_key` refuse it (301-303, 357-360).

`GuardedByLastIndexed`. `indexed_len` is documented as the length of "the input the
index was last built for" (`reader.rs` 14), but `parse_indexed` and the `Reader`
rebuild the index and leave it. A preindexed parse after one of them passes the
length check over the index of another input. The safety contract of the unsafe
function is not affected; its check is weaker than it says.

`KernelsAgree`. `stage1.rs` 160-163 says that the nibble tables are "shared verbatim
by the scalar model and every SIMD kernel so all implementations agree bit-for-bit",
the bytes above 0x7F they misread included. The SSE2 kernel compares each byte with
the ten characters (340-385) and does not misread any; on a text with such a byte outside
a string its index is another than NEON's, AVX2's or the scalar one. Such a text is
invalid JSON and refused with either index.

## 4. The proofs

### The indexed driver

For every set of documents, every checkpoint period and either kind of sink, from
`DocsAssumption` (documents are sequences of tokens) and `CheckpointAssumption` (the
period is a positive number).

- `Invariance`: `Spec => []IInv`.
- `TypeCorrect`, `MarksAndCounts`, `NeverUnderflows`: the type invariant,
  `MarkCountContract` and `NoUnderflow`.
- `PendingStaysBounded`: `PendingBounded`.
- `Refinement`: `Spec => ImplementsSinkProtocol`.

`MarkCountContract` is not inductive: it speaks of the registers where a closer
may come, and after an `EndContainer` the registers come from a frame. `IInv`
adds what the frames hold. `FrameChain`: frame `i` describes container `i - 1` of
`open`, with its count one ahead, because the driver counts a child when it
begins (driver.rs 535-539) and the sink when it has ended. `Registers`: the
registers describe the innermost container, one ahead at `value` and, in keys,
at `colon`. With `OutsideContainers` for the places before and after the root
value, and `MarksOrdered` for the checkpoint's promise that there is something to
spill, `IInv` is inductive.

`PendingBounded` speaks of what a sink that spills holds of each open array, and is
not inductive even with `IInv`: nothing in it says that a count that is not a multiple
of the period has fewer values waiting. `HeldByCount` says so of every array, the ones
below the innermost included, whose values end where the next container's begin
(`ValuesUpTo`): an array holds no more than its count modulo the period, one value
more right after an element. It holds because the comma counts before it tests, and
it is what makes "every 256 elements" a bound whatever the elements are.

`FlatSinkProofs` holds the facts about sequences and the sink's operations
(`Append`, `Pop` and `SetTop` keep types, lengths and every element but the last).
`IndexedDriverProofs` has one lemma per action, and maps
each step to the protocol's call it makes, `Start`, `Collect`, `Accept` or
`Reject`, or to a stutter, with the guards `KeyExpected`, `ValueExpected`,
`EndExpected` and `CheckpointExpected` taken from `IInv`.

### The cursor

For every set of documents and of options and every period, from the same
assumptions and `OptionsAssumption` (options are the two flags).

- `CursorInvariance`: `Spec => []CInv`;
- `CursorMarksAndCounts`, `CursorPendingBounded`: `MarkCountContract`, `PendingBounded`;
- `CursorRefinement`: `Spec => ImplementsSinkProtocol`.

The cursor has its registers three times: in frames, in the current registers, and in
the ones of the flat loop. Which of them describes which container depends on the
loop it is in, and that changes without a call to the sink. `FrameChain` is the
chain: below the two frames of the root, frame `i` describes container `i - 2`; in
the flat loop the current registers describe the container around it, and `flat`
the innermost; in the main loop the current ones describe the innermost.
`AncestorOf` says what a register holds of a container with a child in it
(the child counted already), `CurrentOf` what it holds of the innermost at each place of
the loops. `Descend` moves the chain up by one, `MainEnd` and `FlatEnd` down, and
`MarkCountContract` follows. `MarksOrdered` and `AfterValue` give the checkpoint its
value to spill, and `HeldByCount` bounds what is held; it differs from the driver's
because the cursor tests the elements accepted. The refinement maps each
step to the call it makes or to a stutter: a comma, a colon, the closer that is read
twice after a trailing comma, and the move between the loops are stutters.

### Engine equivalence

For every set of documents, every checkpoint period and every set of events at which the
sinks refuse, from the assumptions of the two engines, `LimitsAssumption` and
`SpillsAssumption`.

- `EnginesAgree`: `Spec => []SameEvents`.

Each engine's invariant says what its registers and frames hold of the sink's
containers, and that is nearly enough: the driver's next call and the cursor's are both
determined by the containers, the place and the token. `PushParse` is that function, and
a document and a limit have one parse. `StepFollows`, in the modules of both engines, says
that a step of the driver is `ParseStep`, and that one of the cursor is, or leaves what it
shows of the parse (`IsState`) as it is. The mark and count a container ends with come from
registers in the engines and from the open container in `PushParse`; `IInv` and `CInv` are
what makes the two one. The cursor needs one fact more, `SeparatorCounted`: where the flat
loop awaits a separator it has counted a member.

`DInv` puts them together. While the driver runs, its steps are written down as a run of
`PushParse` (`OneRun`); the cursor, whose turn comes after, follows the run
(`CursorFollows`): each of its steps stays at a state of the run or goes to the next. It
cannot leave the run, since a state has one successor, and cannot return before the
end, since the states before it are `"parsing"`. At the end both show the same state.

### The pull reader

For every set of documents, well-formed or not, and of options, and every mixture of
walking, skipping and sizing, from `DocsAssumption` and `OptionsAssumption`.

- `ReaderInvariance`: `Spec => []RInv`;
- `HintsAreExact`: `Spec => HintExact`.

`container_len` looks ahead once, counting brackets without matching their kinds; the
walk comes by token for token, or over a child by `skip_value`, which counts brackets
too. That the two agree is a statement about the stretch of document between the start
of a container and the reader. `WalkInv` says, with a witness for where
each open container began, that the stretch stays at a depth of one or more, is now as
deep as the containers opened since, and has as many commas at depth one as members
were met (less the one right behind the reader). A child, walked or skipped, adds to
its parents' stretch only entries of depth two and more; at the closer the
depth is zero for the first time, so the walk is where `container_len` stopped
(`ClosedHint`). Under `allow_trailing_comma` the last comma is followed by no
member, the comma that `container_len` takes off again.

Depths and counts of commas are cardinalities, so each step is a lemma on intervals
(`DepthStep`, `DepthSplit`, `CommasStep`). `DepthAboveZero`, that a depth that was
never zero never falls below, needs an induction over positions; it is made on the least
counterexample, from the well-foundedness of strict inclusion between finite sets
(`LeastElement`).

### The writer

For every set of layouts and any number of calls, illegal ones included, from
`LayoutsAssumption` (a layout is a set of fields) and `TextsAssumption` (scalars are
tokens a `&str` or a number can be).

- `WriterInvariance`: `Spec => []WInv`;
- `WriterTypeCorrect`: `TypeOK`, with the depth never below 0 whatever the host does.

`RegistersMatchNesting`, the conjunct of `WInv` that says the registers are the grammar
state of the host's nesting, is about the innermost container only, and the end of a
container makes its parent the innermost. `HostRecord` says what the host's
record holds of the parents: in an object that is not innermost exactly one key
has no value yet, so that after the child's end no key waits, and the parent has a
member. With it `WInv` is inductive.

### The round trip

For every set of layouts, any number of legal calls and any number of rounds over one
`Buffers`, from the assumptions of the writer and of the cursor.

- `WrittenTextParsesBack`: `TripSpec => []RoundTrips`.

The text a legal host writes is a prefix of a document, and `PushParse` is what a parse
makes of it. `Readable`, the invariant, says that the tokens written so far have been read
without an error by a run of `PushParse` that has the host's containers, values and
calls, and stands where the host is (`HostPlace`): each call of the host adds a few tokens
(a comma and a scalar, say) and the run goes as many steps on (`ScalarRead`, `OpenerRead`,
`KeyRead`, `CloserRead`). Layout adds none (`LayoutAdded`). When the value is
complete, the run is a whole parse of the text (`FinishedText`); the cursor follows it as
in the engine equivalence, and so returns without an error and with the host's calls.
Misused writers are excluded: their text need not be JSON.

### Pointers

For every document, every batch and any depth of recursion, from
`DocsAssumption`, `BatchesAssumption`, `OptionsAssumption` (types of the constants),
`IndexAssumption` (an index is a natural number, or none) and
`MalformedAssumption`.

- `BatchInvariance`: `Spec => []BInv`;
- `BatchTypeCorrect`: types, so that `*remaining -= 1` does not underflow;
- `RemainingIsRight`: `remaining` is the number of queries without a result;
- `RootAlwaysMatches`: the `expect` of `pointer.rs` 336 does not fire;
- `BatchStopsWhenResolved`: once all pointers have their result, no token is read and no
  answer changes until the last walk has been left, and the only error still possible is
  what follows the value of a root pointer;
- `BatchAgreesWithSingles`: `BothSpec => []BatchMatchesSingles`, the claim of
  `pointer_differential.rs`.

`RemainingCounts` needs that no query is answered twice. `Unanswered` says that what
is in hand (`queries`), what ends at a container being walked, and what is `Ahead`
in it has no answer; `Nested` that what is handed down from a frame goes deeper
than the frame and is not ahead in it any more, for every pair of frames. A value
settled anywhere then answers only queries that no frame below will answer:
`SettleKeeps`, the lemma `StepOver` and every end of a container come to. What is
ahead is, in an object, the queries no key has matched; in an array, those with an
index past the current element. `RootsWait` keeps the root's queries at the bottom
for `RootMatched`. `Places` has `remaining > 0` wherever a token is read and
`remaining = 0` wherever the signal is on its way out, through one frame at a time
(`UnwindKeeps`): none of those frames looks for a member or answers a query again.

The batch and the single resolution have nothing in common but the text: one goes
down and comes back up with sets of queries, the other only down. What they share is
the walk of a pointer: `WalkStep` is a function, so that a document, a pointer and its
options have one walk, and a walk has one end (`OneEnd`). `SingleShown` says that each
step of the single resolution is the step of its walk.

The batch is in between the steps of every walk (`InBetween`). `Tracked` says where the
walk of a query then is. A query in hand is at the value in hand (`AskedFor`). One whose
pointer ends at a container that is being walked is at that container (`AtContainer`), for
its walk steps over it whole, and cannot tell that the batch is inside. One that a walk
still looks for is in that container: in front of its next member, or at a member it
skips while the batch goes into it for others (`InContainer`); in an array the distance
to its element is what the walk has `ahead`. And one that has a result is at the end
(`AtMatch`), one that is nowhere any more has missed (`OrOver`). So each step of the
batch takes some walks a step on, and leaves the others. Once the abort signal is on its way
out the frames say nothing of the walks any more, and need not: every query has its answer
(`AllAnswered`), and is at it (`Matched`).

When a container ends, the walks that skipped it go on behind it, and those that end with
it have its range. Both need that the closer the batch has come to, by walking, is where
`container_end` finds the end, by counting brackets. `Bracketed` is that invariant: from
the opener of every open container to where the batch is, the depth is at least one, and
now as deep as the containers opened since (`BracketsOver`, `BracketsOpen`,
`BracketsClose`). It holds without a look at the kinds, as `container_end` does.

The batch resolved, each pointer alone makes the same walk, so its answer is the end of the
same walk. A batch that fails promises nothing of its pointers (pointer.rs 229-233), and the
theorem neither.

### Stage 1

For every set of texts, every kernel, both encodings, any width of a block, any number
of entries stored at a time and any number of offset bits, from `WidthAssumption`,
`OffsetAssumption` and `TextsAssumption` (types of the constants).

- `IndexInvariance`: `Spec => []IndexInv`;
- `StoresReserved`: `StoresStayReserved`, the claim of the SAFETY comment in
  `flatten_bits` (stage1.rs 135-138);
- `EntriesLocated`: every entry is an offset of the text, exact, in ascending
  order;
- `TokenStartsIndexed`: `IndexesTokenStarts`, the index is the token starts of the
  text and nothing else;
- `CarriesAreTheText`: `CarriesMatchText`;
- `SkipEndsAtCloser`: `SkipMatchesIndex`.

The last three are about texts in which no table misreads a byte outside a string
(`Benign`), as every valid document is; a scan by bytes also needs the backslashes
within strings. `KernelsAgree` shows that without the first they are false.

`StoresStayReserved` needs a bound on the entries so far: `IndexInv` says that there are
no more of them than bytes before `base`. A block adds at most as many as it has
bytes of the text (`MaskSize`; the mask of the last one is cut), and the last group of
stores passes the count by fewer than `Slots` (`GroupsBound`), which is the slack
that was reserved. That the k-th position of a mask exists, and that positions
ascend with k, comes from counting the positions below each (`BelowGrows`, `RankTaken`):
ranks are an injection into a set of the same size.

The first part of `Stage1Proofs` is about one block, with no text: what `find_escaped`, `prefix_xor`
and the two that use them compute, from what a block before left. Three facts carry
it. `prefix_xor` sets a bit where an odd number of bits is set at or below it
(`PrefixXorParity`): after k doublings a bit has the parity of the `2^k` positions that
end there. The addition of `find_escaped` carries into a
position when a bit met one below it and all positions between pass it on (`CarryIs`), so
that a run of backslashes carries out of its end just if it begins at an odd position,
and `Xor` with the even positions turns that into the parity of its length
(`FindEscapedIs`). And both come out of the recurrences `Escapes` and `Strings`, a
position at a time, which are also what a text satisfies: a byte is escaped when the
one before is an unescaped backslash (`EscapedNext`), within a string when the one
before is, or is a quote, and not both (`WithinNext`). Inductions over positions
are made on the least counterexample (`LeastElement`, `UpTo`).

`TokensInv` joins the blocks: up to `base` the entries are the token starts, and
`CarriedText` says what `carries` is of the text at `base`. A full block and the
padded last one are one case, `StretchIndexed`: zeros behind the text are neither quotes
nor backslashes. The attempt to prove it made `CarriesMatchText` precise. Within a
string the word for a cut scalar says nothing about the text, since the tables may
misread the bytes there; it is used only outside.

A skip starts at an opener in the middle of a block, with nothing carried, and cuts
what is before the opener from the masks. That is right because an opener outside
strings is itself neither escaped nor in a string, so the recurrences can be begun there
(`FirstBlock`); a later block is like one of the index (`LaterBlock`). `SkipInv` says
that `depth` is the number of openers less the closers outside strings from `start` on
(`LevelTo`), that no closer behind `base` brings it to zero, and what is carried.
`DepthIsLevel` is about the counts of bits within a block. The scan by bytes has the same
invariant with `quoted` for the carries; it steps over the byte behind a backslash.

### The string escaper and the string tokenizer

For every set of strings and of texts, every mode and machine, any width of a vector and
of a SWAR word, and any capacity an output buffer begins with, from `StringsAssumption`
(strings are sequences of the code points of the 17 planes), `RawTextsAssumption` (texts
are bytes and begin with a quote), `TrailersAssumption`, `HostsAssumption`,
`SparesAssumption`, `VectorAssumption` and `WordAssumption`.

- `EscaperStaysReserved`: `StringsSpec => []EscapeStoresReserved`, the SAFETY comments of
  the fused loop, of `escape_run_slow_path` and of `write_escape_run_raw`;
- `TokenizerStaysReserved`: `StringsSpec => []ScratchStoresReserved`, those of
  `parse_string` and `decode_span`.

The stores look at no capacity, so the invariant `SInv` is about the room left at each
step. `EInv` has three sizes for the escaper. While it scans, there is room for what is
left of the text and for a chunk (`ScanRoom`), since a chunk is stored whole whatever is
in it. Once an escape has been met there is room for six times what is left, for a table
entry and for a chunk (`WorstRoom`): each turn of the run takes `from` bytes of the text,
counts at most `6 * from` and stores at most eight beyond what it counts
(`EscapeAtIs`). In the fallback the chunk is missing from both. And the pointer a store goes
through is of the buffer as it is: only the two places that reserve move it, and both
take it anew.

The bound on `from` is where UTF-8 comes in. Under `AsciiOnly` a character of four bytes
becomes twelve, and its length is read off its first byte; at any other byte the length
would say nothing, and the next turn could start past the end. `EBase` says that
`i` is always at a character (`AtChar`): UTF-8 is made of characters
(`BytesAre`, over the pieces `FlattenSeq` puts together), an escape ends where the
next begins, and everything the kernels pass over without a hit is of ASCII
(`CleanLanes`, and `FindEscapeIs` for the SWAR words: a borrow may make a lane hit too
much, never too little).

`DInv` is about the tokenizer: `into`, where it stores, stays behind `at`, where it reads
(`DecodingRoom`), because an escape decodes to no more bytes than it is long
(`EscapeShrinks`: at most four of six or twelve), and what it reserved is the rest of the
text and a chunk. The lemmas on buffers say what `Reserve`, `Put`, `Publish` and
`CopySmall` keep (`ReserveGives`, `PutKeeps`).

The steps of `StringsSpec` are those of the run of scalars on strings; the
run has numbers beside them.

### Only model-checked

Liveness (`Returns`), what is said in terms of the recursive reference
(`AcceptsExactly*`, `DeliversTheTree`, `WritesTheTree`, `WalksExactlyTheGrammar`,
`SlicesAreDocuments`, `ResolvesByReference`, `BatchAcceptsTheGrammar`) and what the run of
scalars says of results (`EscapesByReference`, `DecodesByReference`, `ReadsBack`,
`ScalarByReference`, `WritesNumber`): their references are recursive, `NumberToken` with
operators that no module with a theorem may reach.

## 5. Not modelled

- **Float conversion** (`float.rs`, `el_table.rs`, the digit generation of
  `grisu2.rs`): arithmetic on 64- and 128-bit mantissas over generated tables. It
  has no state, and its correctness is about numbers far out of TLC's reach. A float
  read is left as mantissa and power of ten, one written starts from its digits.
- **AVX-512 kernels** (`scan.rs`, `emit.rs`): no call reaches them. `copy_short_raw`
  is for hosts; the crate does not use it.
- **Public surface** (`lib.rs`): re-exports. Tests, benchmarks and examples.
- A pull reader used out of protocol or after an error, and one dropped in the
  middle of a walk: the next reader starts from a fresh index.
- The spelling of scalars, keys and pointer tokens, in the modules on tokens.
- Strings to be escaped that are not UTF-8: `escape_into` requires it of its host.
- Memory that runs out: a `reserve` that fails aborts the process.

## 6. Plan

In order of what matters most; a module of its own for each, with an MC module.

1. *(done)* Push driver, cursor, sink protocol, engine equivalence; the driver's
   inductive invariant and refinement.
2. *(done)* The pull reader; the writer with its inductive invariant; the round
   trip; `Buffers`.
3. *(done)* Pointers: single resolution, the batch walk with its inductive
   invariant, the two against each other and against the reference.
4. *(done)* Stage 1: `index` by blocks with carries against a definition on the
   whole text; `flatten_bits` and its capacity, proved; `container_end` from the
   middle of a block.
5. *(done)* Escapes, tokenizers and number output: results against references, every
   raw store against the capacity reserved.
6. *(done)* Proofs: the cursor's inductive invariant and its refinement of
   `SinkProtocol`; `PendingBounded` for both engines; the pull reader's walk and
   `HintExact`.
7. *(done)* Proofs: the contents of the index and the container skip, for any width.
8. *(done)* Proofs: every raw store of the escaper and of the string tokenizer.
9. *(done)* Proofs of the compositions: `SameEvents`, `RoundTrips` and
   `BatchMatchesSingles`.

What is left: a reference for the grammar that is no recursion over trees, so that
`AcceptsExactlyTheGrammar` could be stated of `PushParse` and be proved of both engines at
once; the contents of the escaper's output and of the tokenizer's scratch, for every
string.
