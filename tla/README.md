# A verification project for ucsc-xena-wasm

ucsc-xena-wasm is the C code that the Xena browser runs as WebAssembly: a
compressed dictionary of names with substring search (`hfc.c`, and the older
`htfc.c`), the Huffman code it is built on (`huffman.c`), radix sorts of
columns of floats and ordinals (`radix.c`, `fradix*.c`), statistics, colour
scales and a heatmap.  It is single-threaded: JavaScript calls exported
functions one at a time.  What makes it hard is not concurrency but state and
arithmetic: static pointers that calls free and replace, a buffer that each
read overwrites in part, last bins that are full or not, codes worked out twice
from half the data, buffers swapped an odd number of times, and counts, shifts
and copies that are right at every boundary or not at all.

## Inventory

| Component | State | Operations | Interacts with | What must hold |
|---|---|---|---|---|
| Session API, `hfc.c:406-522` | `hfc_cache`, `hfc_cache_result`, `inner_cache`, `inner_bin` | `hfc_set`, `hfc_set_empty`, `hfc_merge`, `hfc_filter`, `hfc_search`, `hfc_lookup`, `hfc_clear_cache` | the client (buffers, pointers returned), the dictionary below | each block freed once, none leaked; no stale bin; returned strings stay; answers as one sorted list would |
| Dictionary file, `hfc.c:13-401` | the compressed buffer; per reader `struct inner`, `struct hfc_iter` | compress, iterate, search, merge two | Huffman code, baos, array | every string reads back; bins and header are found; search finds the matches; a merge is the sorted union |
| Huffman code, `huffman.c` | encode tree, two queues, `canonical`, `dict`; decoder tables | build tree, number codes, serialise, pack, decode | queues, baos | optimal, short, prefix-free; decoder inverts encoder inside its tables |
| Queues, `queue.c` | linked list with tail; ring | add, take, peek, count, free | Huffman code | first in, first out; NULL values; full is not empty |
| Byte stream, `baos.c` | list of bins, newest first | new, push, to_array | all that writes | all bytes, in order, no overrun, no leak |
| String array, `array.c`, `bytes.c` | array of pointers, grown by 256 | add, free | session, merge | room for each add |
| Radix sorts, `radix.c`, `fradix*.c` | static counts, two buffers | sort by one or several columns | statistics, the client | stable, in order, in the caller's buffer; NaN last |
| Older format, `htfc.c` | as hfc, with headers in a code of their own | iterate, search, store | Huffman tree decoder | as hfc |
| Statistics, `stats.c` | `mm_result` | `fastats` | `fradixSort16InPlace` | order statistics of what is not NaN |
| Colour scales, `color_scales.c` | none | colour of a value | heatmap | right segment of the domain |
| Heatmap, `heatmap.c` | the image | `draw_subcolumn` | colour scales | each row shows its samples, each sample is shown |
| Tools, `hfcz.c`, `htfcz.c` | files | compress, decompress | hfc, htfc | every line of the file is an entry |

`PROJECT.json` lists the hazards of this code at their lines, with the
properties that would catch each of them, or why none does yet.

## Modules

The dictionary, from the client down to bits:

- **HfcDict** is what the exported API promises: one sorted list of names that
  is set, merged, filtered, searched and indexed.
- **HfcSession** is the API as it is written: the four statics, an explicit
  heap of blocks, one action per exported call with every `free` and `malloc`
  it makes.  Pointers are addresses; `FreeAndStore` frees the pointers of a
  call in turn and records in `badFrees` each that was not allocated; a new
  block may reuse an address only if the code allocates after the free.  The
  refinement mapping is `names` (the current dictionary) and `found` (the
  matches); the history variable `asked` ties each answer to its question.  The
  client calls `hfc_lookup` and `hfc_filter` with indices of the
  current dictionary, and nothing but set before the first set: the code checks
  neither.  **HfcSessionDoc** adds a client that frees the matches, as the
  comment at `hfc.c:446` asks.  **HfcSessionProof** has the proofs.
- **FrontCoding** has the operators of a bin: `compute_inner` and its helpers
  write it, `inner_init`, `inner_next` and `hfc_iter_next` read it, with the
  500 bytes of `current` modelled byte by byte, those never written included;
  a byte written behind them is kept, so that `WithinCurrent` sees it.
  The readers of the older format are next to them (`htfc_uncompress_bin`,
  `htfc_iter_next`): the records are the same, the first string of a bin is
  apart.  `Lines` is how `hfcz.c` takes a text apart.  The loops (`vbyte_decode`,
  `Lines`) are recursive functions, so that they can be reasoned about.
- **HfcReader** runs the readers of compressed lists, one string at a time:
  `hfc_search_method` and `htfc_search`, in both their modes, `hfc_merge_two`
  over two iterators whose strings are overwritten by the next call, and the
  printing loop of `hfcz -u` and `htfcz -u`, hfcz's on the lines of a text that
  it compressed: any rearrangement of them that ascends.  A header of the older
  format is followed by two zeros in `current`, its own and that of
  `htfc.c:23`; Init gives such dictionaries only headers that leave room for both
  (`HeadersFit`).  **HfcReaderProof** has its proofs.
- **BitPacker** has the operators of the packed bits: the word that codes are
  or'ed into and bytes pushed from, and the decoder, which is CHECKBIT as
  CanonicalCode shows it to be.  A number's bits, the decoder's loop and the
  loops of the next two modules are recursive functions.
- **HfcFile** is a dictionary's way through its file: `hfc_compress_sorted`
  packs the bins byte by byte and writes code, offsets and bins; `hfc_init` and
  `uncompress_bin` find their way and decode.  Any byte that is not a bin's is
  named by what was written, so that a read at a wrong place cannot be taken for
  a right one.  **HtfcFile** adds the files of the older format, which are only
  read: `htfc_init` finds the code of the headers, their tree, the code of the
  rest and the bins; `uncompress_bin` decodes a header up to its end and the
  rest from the next whole byte.  What such a file holds is taken from what its
  reader expects; the program that wrote it is not in the repository.
  **HfcFileProof** has the proofs of all three.
- **HuffmanTree** is `encode_tree_build` and `find_depth`: nodes on a heap, two
  queues, one merge a step (**HuffmanTreeProof**).  It implements the first phase of
  **CanonicalCode**: the numbering of codes (`encoder`), the decoder's tables
  (`huffman_decoder_init_transform`) and CHECKBIT, one bit a step, for any full
  tree.
- **CodeTree** has the operators of the decoders' trees: `insert`, and a step by
  one bit.  **TreeDecoder** extends CanonicalCode with the other decoder:
  `huffman_tree` inserts the codes, which it numbers again from the lengths,
  and `huffman_decode_range` walks the tree while CHECKBIT is given the same
  bits.  **CanonicalCodeProof** has the proofs of both decoders.
- **Baos** is the byte stream on an explicit heap, the in-place reversal and
  the copy loop step by step; **ByteStream** is what it promises.
- **ArrayQueue** and **LinkedQueue** (`queue.c`) and **StringArray**
  (`array.c`, with the `realloc` that moves it) each implement **Fifo**, freeing
  and making anew included.  **Containers** puts these three next to Baos, so that
  one run drives any of them; **ContainersProof** has their proofs.

The sorts and what is made of them:

- **CountSort** is one counting pass, loop turn by loop turn, ascending or
  descending, from the counts that the pass before left: the call of `zero` is a
  step of its own.
- **RadixSort** is every sort of the library pass by pass, a pass being what
  CountSort shows it to be: digits, columns, flopped words, swapped buffers and
  the copy back.
- **Stats** is `fastats` on the words that `fradixSort16InPlace` leaves: which of
  them each statistic is taken of.  **Sorts** puts CountSort next to Stats; its
  `StableSort` says of CountSort's passes that each is what RadixSort takes it
  for.
- **ColorScale** is the choice of the stops that a value is coloured by, and
  **Heatmap** is `draw_subcolumn`: from samples to rows in both projections, one
  row or sample a step, the tally by part of the scale, the choice among ordinals
  and the pixels filled.  A colour is what it is mixed of, so that the image
  says which samples each pixel shows.
- **ColumnsProof** has the proofs of all six.

**Induction** has what the proofs need of induction and recursion, stated over
sets so that the provers can use it, and the facts about sequences, sums and
quotients that they share.

Constants that stand for a size of the code (`BINSIZE`, `SIZE`, `WordBits`,
`Base16`, ...) are parameters, with what the modules need of them in a named
ASSUME.  The modules named MC... give values that a .cfg cannot write.
Definitions whose names end in `_M1` or `_M2` are wrong on purpose: each is a
plausible mistake in the definition it is named for, and `PROJECT.json` names
the property that finds it.  Nothing else refers to them.

## Runs

Every property is preceded in its module by what it says; `huffman_tree` checks
a type invariant too (that of the session, and of the code construction, are
theorems, `TypeCorrect`).  Deadlock is checked where the system never stops; a run
of a function that returns says `CHECK_DEADLOCK FALSE`.

| Run | Properties | Bounds, and why they are enough |
|---|---|---|
| `session` | EachBlockFreedOnce, NoLeak, InnerCoherent, StringsOutlive, ImplementsDict | lists of up to 3 of 2 names, bins of 2: no bin, one partial, one full, a full and a partial one. Five addresses are one more than the statics and the client can own, as a merge or filter needs. Addresses are symmetric |
| `reader` | ReadsBack, WithinCurrent, StaysInBin, FindsAll, StaysSorted, IsUnion, PrintsLines, Terminates | searches, in both formats, of all lists of up to 4 of 6 strings, merges of all pairs of lists of up to 3, and all texts of up to 3 lines in any order, repeated and empty ones too, with bins of 2; radix 3 instead of 128 makes a shared prefix of 3 a vbyte of two bytes; a `current` of 5 bytes is filled to the last by a string of 4, and by a header of 3 in the older format; bytes with the high bit, upper case, the empty string, and fill bytes that look like a record |
| `file` | ShiftsDefined, PacksCodes, HeaderReadsBack, BinsReadBack, OlderReadsBack | up to 2 bins with 3 bytes, 7 codes of 0 to 7 symbols: all remainders modulo 4, a length without symbols; words of 8 bits in bytes of 2 keep the cascade of up to 3 whole bytes (7 in the code), with codes up to 6 bits, the longest there is room for (56 of 64). Older files: both header codes have lengths that grow and one has lengths that shrink, 3 and 4 symbols (padding, and none), headers of up to 3 symbols that end in and at the end of a byte, the rest of a bin empty or not |
| `huffman_tree` | QueuesAscend, Optimal, Shortest, ImplementsFindDepth | all frequency tables of 2 to 5 symbols with frequencies 1, 2, 3 and 5, and every order of ties. These give every shape of tree over 5 symbols that an optimal code can have, and the ties that make heights differ |
| `canonical_code` | ReadsInBounds, DecodesOnlyCodes, StopsAtCodes, TreeAgrees | all full trees over 5 symbols, also with levels that have no symbol, and all bit strings |
| `sorts` | SlotsFree, StableSort, SortsFloats, SortsIntegers, SortsOrdinals, OrderStatistics | counting pass: 5 items, 3 digits, all digit vectors, both directions, all counts of 0 to 5 left over. Sorts: 3 rows, 2 columns; words of 4 bits in digits of 1, 2 (base 3 for the 11-bit digits) and 2 bits keep the number of passes of each sort; words: both signs, NaN of both signs, minus infinity. Statistics: no rows, and 3 rows of which none to all are NaN |
| `containers` | WellLinked, NothingLost, CopiesInside, ImplementFifo, ImplementsStream | ring of 4 places, so that head and tail go round and cross; 3 nodes, values that are NULL; an array that grows by 2, up to 4: empty, full, grown once; stream with bins of 2 bytes, up to 5 bytes: empty, partial, full, one byte over, two full bins |
| `heatmap` | ShowsSamples, ColoursByRegion | 0 to 5 samples on 0 to 6 rows: each divides the other, or does not, or they are equal; up to 3 samples with values below, at, between and above the stops, or NaN, on linear scales of 2, 3 and 4 stops and on a logarithmic one; up to 3 ordinals. The image is wider than the element on both sides. The highest int is 35, which is exactly what the largest picture needs |

Four runs end in a violation, and are findings:

- `session_doc`: a client that frees `result.matches`, as the comment at
  `hfc.c:446` says it must, makes the next `hfc_search` free them again.
- `huffman_one_symbol`: with one distinct byte (a dictionary with only the
  empty string in it has one, the 0) `encode_tree_build` returns NULL: the leaf
  is in the other queue.  The byte gets no code.  All other runs ask for two
  distinct bytes.
- `hfcz_doc`: the comment at `hfcz.c:44` says that a missing final newline is
  handled; lines are counted and taken by their newlines (`hfcz.c:47`, `58`), and
  the characters behind the last one do not get into the dictionary.  The
  passing run `reader` is given texts that end with a newline.
- `radix_ordinals_doc`: the comment at `radix.c:164-165` allows an ordinal
  equal to the number of rows; the counts are cleared and added up below it.

Fairness: only `reader` states a liveness property.  `WF_vars(Next)` says that
the call is run to its end, as a C function in one thread is.  All other
modules are about safety.

## Proofs

TLAPS proves for every value of the constants what TLC checks on the instances
above.  The assumptions are the named ASSUMEs of the modules, which TLC evaluates
on the instances, and where a theorem needs more of its input it says so in its
own statement; there are four such (below, in italics).  In short: every safety
invariant, action property and refinement of the passing runs is a theorem.

An invariant that a run checks is seldom inductive.  What each proof adds to it:

**HfcSessionProof** (any names, bin size, length, addresses).  `EachBlockFreedOnce`
is not inductive: a call frees well only if the pointers it frees are live and
distinct, which is `NoLeak`; what a lookup leaves in `inner_cache` is right only
if the bin is the current dictionary's, which is `InnerCoherent`.  The
invariant is the conjunction of the three with `TypeOK`; every action
preserves it, case by case.  From it follow `NoDoubleFree`, `OwnedExactly`,
`NoStaleBin`, `LookupStringsOutlive` (an action property) and `Refinement`
(`Spec => D!Spec`), where the lemmas say that the bins of a list, put one after
the other, are the list, and that a search of the bins is a search of the list.

**HfcReaderProof** (any strings, bin sizes, radix, padding, size of `current`).
The first half is about the operators.  A bin's buffer has its records one after
the other, each at a place that `Until` counts (`At`); the vbyte that is read at
such a place is the shared prefix, and what `inner_next` leaves in `current` is
the next string.  So `Reading` says that a reader has come to string m of bin b:
its C string is in `current`, over whatever longer strings left behind it, and
`c` is where the record of string m + 1 begins, or the end of the records.
`ReaderInv` says that of every iterator and of the search; `StringsReadBack` and
`ReadersStayInBin` are its immediate consequences, for both formats and both
ways of folding case, and so is `NothingOverruns`: `current` has the places it
began with.  All three need that strings fit `current` (FrontCoding's
assumption) and that headers of the older format do with a byte to spare, which
is part of Init.  The other theorems add to it what the loop has done so
far:

- `SearchesFind`: the places found ascend and are the matching ones below the
  place the search has come to, bins and strings being counted as the code counts
  them (the last bin of an older dictionary included).
- `MergesStaySorted` and `MergesAreUnions`: the order of strings is total, as
  two different ones are told apart at their first difference.  What is written
  ascends and is not above what either list has left; each string has been
  written as often as the list that had it more often so far; and when one list
  stands at a string, the other has not shown that string more often (`Merged`).
- `PrintsWholeTexts`: what is printed is the first strings of the dictionary, as
  many as the loop counts, and the lines of a text are where its newlines say.
  *The text ends with a newline or is empty*: the run `hfcz_doc` shows what
  happens otherwise.

**HuffmanTreeProof** (any symbols, frequencies, order of ties).  `QueuesAscend` is
not inductive: that a merged node may be put at the end of its queue needs that
no node waiting there is more than the sum of the two least, so no node made
weighs more than twice as much as any other that waits.  Counting the nodes gives
the queues their room (`QueuesHaveRoom`).  `TreesAreFull`: every node is the child
of at most one, so the nodes of a level are distinct; the nodes above a level
count 1 plus twice those merged, which is what `find_depth` finds as depths, and
these are the depths of a full tree.  *There are at least two symbols*: the run
`huffman_one_symbol` shows what happens otherwise.

`CodesAreOptimal` and `CodesAreShortest` compare the tree with every full tree over
the symbols.  A tree is taken for the lengths of its leaves, which fill it when
their shares of it add up to it (the Kraft equality, `Fills`).  A full tree has
two leaves at its deepest level (`Deepest`, by the parity of the shares); two nodes
that come first may be exchanged for these without loss (`Sink`), and siblings may
be taken for one leaf, or a leaf for two siblings (`Greedy`, `Split`).  The invariant
(`MergeInv`), h being the heights of the nodes and z what the merges have cost so
far, has two halves: for every full tree there are lengths for the roots that with
z are no worse (`NoneCheaper`), and all lengths that fill the roots give the
symbols theirs (`AllUnfold`).  No worse means: no dearer and, if as dear, no deeper
once the trees below the roots are counted in.  That is why the order in which
nodes come first is by weight and then by height (`Before`), and it is what
leaves first among equals gives: a leaf has no height, and the merged nodes wait in
the order of both, as a node is made of two that come before those of the next
(`BestOrder`).  With one root left the halves meet, and find_depth finds each
leaf as deep as it is (`LengthsAre`).

**CanonicalCodeProof** (any finite alphabet, any full tree over it).  The
history variable `first` keeps the encoder's code and position at each depth,
which the decoder's loop computes again: the invariant says that `base`,
`offset` and `first` agree as far as both have come, that codes of a depth are
the numbers from its first code on, and that the decoder's pending bits are at
or above the codes of their length and below 2 times the room left.  `InBounds`
then says that no bit string leads outside the tables, `DecoderInverts` that
what is pushed was encoded so, `PrefixFree` that no code is read past.  The
theorem `TypeCorrect` is the part of the invariant that no run lists: `InBounds`
rests on it.

Its second part is about TreeDecoder (any full tree).  The nodes of depth d are the numbers from
the first code of that depth on, the leaves before the others.  While codes are
inserted, every path in the decoder's tree is such a node's, with that node's
symbol if it is a leaf and none otherwise, and the tree has every beginning of
its paths.  When all leaves are in, so are all nodes, by induction from the
deepest level up: an inner node has a child.  Hence every bit string has a way
on, and the symbol at its end is what the table decoder pushes.

**HfcFileProof** (any word of whole bytes, any bin size, any bins; any codes that
are complete and leave a byte's room in the word, and for older headers any codes
of which none begins with another).  None of the five properties is inductive, and
most are about the end of what many steps did.  `FileInv` has a part per phase:

- `PackInv`: what is packed of a bin, with the word behind it, is the codes so far
  followed by zeros, fewer bits wait than a byte has, and the bins already packed
  are their codes with fewer than a byte of zeros behind them (`Encodes`).  One
  turn of the packer keeps that (`Packing`): or'ing is putting behind, as the rest
  is zero.
- `WriteInv`: the file so far is its parts one behind the other (`Layout`), so each
  starts at a place that the sums of the lengths before it give.
- `ReadInv` and `OlderInv`: what `hfc_init` and `htfc_init` find is what those
  sums give; a word is read at its own place and nowhere else.

`ShiftsAreDefined` needs besides that a code is not longer than the lengths are
many, and has a bit at least.  Of the codes it is proved, not assumed, that those
of a complete list of lengths are no larger than their lengths allow
(`CodeIsShort`) and that none begins with another (`CodesApart`).  So after
the bits of a text the decoder has pushed exactly the text (`DecodesText`), and
the fill bits add fewer symbols than they are: `EveryBinReadsBack`.  For
`OlderFilesReadBack` the tree that the reader makes of the listed codes has these
codes for leaves (`HeaderTreeIs`), so a step along it is a step of CHECKBIT
(`ReadToIs`), and the header's end is in the byte before the one where the rest of
the bin begins (`DecodesHeader`).

**ColumnsProof** (any number of items, digits, rows, columns, words; any pictures
whose products fit an int).  A counting
pass: `offset[d]` counts the items that go before those of digit d, or up to
them; during the scatter the slot of an item is the number of items before it,
and counting the predecessors in a finite total order gives each element a place
of its own.  So the pass is the stable one that RadixSort takes for a step.  A
sort: after each pass the rows are in the order of the digits passed so far, of
the words as the sort's key makes them; digits put together are the word, whose
key is in the order of `Rank`; equal words keep the order of the columns passed
before.  *radixSortMultiple32: the ordinals are below the number of rows*, as
the run `radix_ordinals_doc` shows they must be.  `StatisticsAreOrdered`: in a
sorted column the NaNs are first, so the word k places behind them is the k-th
smallest number, and each statistic is read at its place.  *A NaN with the sign
clear is the canonical one* (`OneNaN`), as NaNs made by JavaScript are: `flop`
knows no other, and sorts any other above the numbers.

Of the heatmap, `HeatmapInv` says how many rows the turns so far have drawn
(`RowsIn`), that each of them has the colour that its samples make, and that
every other pixel is as it was.  A turn draws just the rows that show its samples
(`SampleHasRows`, `RowHasSamples`): rounding down and rounding up each turn a
comparison of quotients into one of products (`FloorIs`, `CeilIs`), and in
products the two projections meet.  By the same products every sample is in
some row (`EverySampleShown`).  A mix is split by regions, and the sum over the
regions is the sum over the samples (`MixHasAll`); the values of a region lie
between its stops, so their sum does between the stops times their number
(`SumBelow`, `SumAbove`), and this is what `color_scales.c` compares
(`PartsAreRight`).

**ContainersProof** (any capacity, values, bin size).  The ring's contents are
the places from the one on to the other, modulo its size; the list's are the
values along its chain, which passes every node allocated once and ends at
`tail`; the array's are its first elements, which `realloc` keeps, and there is
room for one more whenever one is added.  Each implements `Fifo` step by step
(`QueuesKeepOrder`).  Of the stream: the bins written are a list s, s[k] holding
the bytes from `(k - 1) * SIZE` on.  Each is linked to the one before it; after
r turns of the reversal the r oldest still are, the others to the one after
them; while the array is filled, the r oldest are in it and freed.
`NoBinIsLost` and `CopyStaysInside` follow, and `StreamIsKept`, the refinement of
ByteStream.

What cannot be proved with these provers, and is only model-checked: liveness
(`Terminates`), as it rests on fairness and ENABLED.

The theorems of the library that take an operator as a parameter cannot be
instantiated, induction over the naturals among them.  Induction.tla
states the same over sets: a set of numbers that has 0 and each successor is all
of them, a set of sets likewise, and a function given by its first value and the
step to the next exists.  Where a definition of the model had to be unfolded
along its recursion, it is a recursive function.

## Not modelled, and limits

What the code does wrong is in the models as it is; a property that it would
break says so in its comment, and these are the places:

- `htfc_search` looks at `length % bin_size` strings of the last bin
  (`htfc.c:174`), which is 0 when that bin is full: only its first string is
  compared.  `FindsAll` asks for the matches among the strings that are looked at
  (`Searched`).  Of a dictionary without strings it decodes a bin that is not
  there (`htfc.c:170`): the model gives it none.
- `randmax(m)` is m when `rand()` is RAND_MAX (`heatmap.c:94`): the colour is then
  taken from behind the samples collected, though the comment at `heatmap.c:100`
  says it is picked from them.  In the model such a row has any colour;
  `ShowsSamples` leaves out the rows for which that happened (`ended`), and no
  others.
- NaN and minus infinity sort equal, and `first_val` skips the NaNs in front only
  (`stats.c:18`): `OrderStatistics` leaves out columns that have both.
- `queue_free` stops at the first NULL it takes, so a list with NULL before its
  last value would not be freed to its end; the model, as the library, frees none
  such.
- `radixSort` is given no negative words (`radix.c:36`), and every call but set
  comes after the first set (`hfc.c:474`): what happens otherwise is undefined.

Assumed of the surroundings:

- `malloc` never fails, and addresses are as many as the run gives.
- Strings of 500 bytes and more overrun `current` (`hfc.c:142`), and so do
  headers of 499 in the older format: their length counts the 0 that was decoded,
  and another is put behind it (`htfc.c:23`, `htfc.c:130-131`,
  `huffman.c:564-566`).  Shared prefixes of 2^28 and more do not fit a vbyte of
  the code.  The models assume shorter strings.
- Codes are unbounded in CanonicalCode; `encoder` keeps them in an int
  (`huffman.c:242`), which a tree deeper than 30 overflows.
- Counts and heights of a picture have a product that is an int (`heatmap.c`
  multiplies them before it divides); beyond, the code is undefined.

Left out:

- Floating-point arithmetic: means, deviations and interpolations in `stats.c`,
  `color_scales.c` and the mixing of colours in `heatmap.c`.  The models say what
  goes into them.  TLC has no floats.
- The older format's singleton (`htfc_store`, `htfc.c:220-230`): it frees the
  buffer and the struct of the dictionary before and leaks the decoders and
  trees in it.
- The freeing of trees and decoders, the decoders under `#if 0`, and the debug
  dumps of `huffman.c`; `bytes.c`, a pair of length and pointer.
- Reading and writing files in `hfcz.c` and `htfcz.c`: pure I/O.
- The build scripts, the generated bindings, the benchmark and the tests: they
  have no run-time state of their own.

## Plan

Done: all components in the inventory that keep state, and theorems for every
safety property of the passing runs.  Next: the singleton of `htfc_store`, with an
explicit heap as HfcSession's.
