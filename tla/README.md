# A verification development for libcorrect

libcorrect encodes and decodes two families of error-correcting codes:
convolutional codes (with a Viterbi decoder, hard and soft) and Reed-Solomon
codes (errors and erasures). It is a sequential library: a codec object belongs
to one caller, nothing runs concurrently, nothing is stored. What is hard about
it is state that outlives a call, buffers that are never cleared, arithmetic in
narrow integers, and loops whose bounds are written in different places and have
to agree. The modules here are about those.

## 1. Inventory

| Component | Code | State | Operations | What makes it correct |
|---|---|---|---|---|
| survivor ring | `convolutional/history_buffer.c` | `history`, `index`, `len`, `renormalize_counter` | create, reset, get_slice, process, process_skip, flush | no slice is overwritten before it has a bit; every bit lies on one survivor path; renormalising keeps the order of the metrics |
| path metrics | `convolutional/error_buffer.c` | `errors[2]`, `index`, `read_errors`, `write_errors` | create, reset, swap | a round reads what the round before wrote |
| Viterbi decoder | `convolutional/cv_decode.c` | the two above, the bit writer, the loop counters | decode, decode_soft (warm-up, inner loop, tail, flush) | each slice is read once; the message is a most likely one; nothing of an earlier block matters |
| code table, metrics | `convolutional/lookup.c`, `metric.h`, `metric.c` | tables, fixed at creation | fill_table, pair_lookup_*, metric_* | the decoder measures against what the encoder sends |
| bit writer, bit reader | `convolutional/bit.c` | buffer, byte under way, its length, index | write, write_bitlist, write_bitlist_reversed, flush_byte, length; read | bits come out in the order they went in; nothing is written past the end |
| convolutional encoder | `convolutional/cv_encode.c` | register; writer and reader of the codec | encode_len, encode | what is written is the codeword and fits `encode_len` |
| Galois field | `reed-solomon/field.h` | `exp`, `log` | mul, div, mul_log, div_log, pow, sum | agrees with the field although log(1) = 255 and log(0) = 0 |
| polynomials | `reed-solomon/polynomial.c` | - | mul, mod, formal_derivative, eval_*, from_roots | long division leaves the remainder |
| Reed-Solomon codec | `reed-solomon/rs_encode.c`, `rs_decode.c`, `reed-solomon.c` | generator, tables, and the scratch arrays of the decoder, which keep what the last decode left | encode, decode, decode_with_erasures | a block is a codeword; errors and erasures within the bound are corrected; scratch arrays suffice |
| codec lifecycle | `convolutional.c`, `reed-solomon.c`, the `*_create` and `*_destroy` functions | ownership, `has_init_decode` | create, destroy, initialisation in the first decode | each block of memory is freed once, also after a failed allocation |
| libfec shim | `fec_shim.c` | write cursor, copies of both codecs | init_*, update_*, chainback_*, encode/decode_rs_char | the cursor and the erasure positions are translated faithfully |
| SSE decoder | `convolutional/sse/*` | that of the Viterbi decoder, and copies of three fields of the ring | as the Viterbi decoder | the same results as the portable decoder |
| header, error simulation, search tools, tests | `include/correct.h`, `util/`, `tools/`, `tests/` | - | - | no part of the library's own logic |

**How they interact.** All interaction is by calls on memory the codec owns. The
encoder reads the message through the bit reader, looks outputs up in the table
and writes them through the bit writer. A decode resets the metrics and the ring,
runs three loops over the received slices (a *slice* is `rate` received bits),
and in each round reads one array of metrics, fills the other, fills one slice of
decisions in the ring and calls `history_buffer_process_skip`, which may
renormalise the metrics and may write a burst of bits; at the end it flushes the
ring. The Reed-Solomon decoder is a chain of stages over shared scratch arrays:
syndromes, locator (Berlekamp-Massey), roots (Chien), locations, values (Forney).
libfec's interface is a layer of wrappers: a Viterbi object keeps decoded bytes in a
buffer between `update_viterbi_blk`, which calls the soft decoder, and
`chainback_viterbi`; a Reed-Solomon object translates places of erasures and decodes
in the caller's block. The SSE decoder runs the warm-up and the tail of the portable
one around an inner loop of its own, over the same ring and metrics.

**Hard behaviours.** Reuse of a codec: ring, renormalisation counter and scratch
arrays survive from one call to the next, and each stage overwrites only a part of
them. Wrap-around: the ring wraps in the middle of a traceback, metrics are 16 bits,
logarithms wrap at 255. Loops that have to meet: warm-up, inner loop and tail;
`encode_len` and the zero rounds of the encoder; the number of powers in a table
and the degree of the locator. Failed allocations: the decoders allocate in their
first decode, behind a flag that destroy relies on, and every create cleans up by
hand. `PROJECT.json` lists the hazards one by one at
their lines, with the properties aimed at each.

## 2. Modules

Names follow the code. History variables, which the code does not have, are marked
where they are declared. A definition with a `Mutant:` comment is a plausible
wrong variant of the definition that follows; it is used by nothing and shows,
put in its place, which property notices. TLA+ indexes sequences from 1 and the
code from 0; each module says which it uses where.

| Module | Models | Correspondence |
|---|---|---|
| `SurvivorStream` | what a traceback promises, without a ring | keeps every slice; from time to time emits the oldest undecided bits of a survivor path |
| `HistoryBuffer` | `history_buffer.c` | `Reset`, `ProcessSkip` (search, renormalisation and traceback in one action, as in the call), `Flush`; `Process` and `ProcessTail` are the two ways the decoder calls it |
| `HistoryBufferProofs` | | theorems about `HistoryBuffer` |
| `ErrorBuffer` | `error_buffer.c` | an array of metrics is one value; `Round` is the decoder filling `write` and swapping |
| `DecodeSchedule` | the loops of `cv_decode.c` | one action per iteration and per loop exit; `consumed` records the slices read |
| `Trellis` | `lookup.c`, `metric.h` | constant operators: table, encoder as a function, Hamming and linear distance, the lookups of distances by groups of two registers (`lookup.c`) or eight (`sse/lookup.c`) |
| `ViterbiDecoder` | `cv_decode.c` | composes `DecodeSchedule`, `ErrorBuffer` and `HistoryBuffer` (by INSTANCE) over `Trellis`: each action is an action of the schedule together with what the round does to the metrics and to the ring |
| `SseDecoder` | `sse/cv_decode.c`, soft decisions | extends `ViterbiDecoder` with the local copies of the ring's fields; warm-up and tail are the same actions, `Load`, `SseInnerRound` and `Store` the inner loop |
| `ViterbiDecoderProofs` | | theorems about `ErrorBuffer`, `Trellis` and both decoders |
| `SseSchedule` | `sse/cv_decode.c`, hard decisions | extends `DecodeSchedule`: the loop over the outputs (`HardMeasure`) changes the counter of the loop over the slices |
| `Lifecycle` | create, first decode and destroy of all kinds of objects | a pointer field is unset, null, live or freed; an action is a whole call with at most one allocation failing in it, its error path included |
| `ViterbiShim` | the Viterbi half of `fec_shim.c`, and sessions in general | composes `DecodeSchedule` and `Lifecycle` (by EXTENDS): objects are created, decode block after block, directly or by `update_viterbi_blk`, and are destroyed |
| `ViterbiShimProofs` | | theorems about `ViterbiShim` and the two modules it composes |
| `Bytes`, `BitWriter`, `BitReader` | `bit.c` | the struct is a record; one action per function |
| `BitStream`, `BitStreamProofs` | a buffer written by the one and read by the other | composes `BitWriter` and `BitReader` |
| `ConvEncoder` | `cv_encode.c` | extends `BitStream`, over `Trellis`: one action per iteration, and between two encodes any other use of the codec's reader and writer (`OtherUse`) |
| `ConvEncoderProofs` | | theorems about it |
| `GaloisField` | `field.h`, `polynomial.c` | recursive functions over the real tables of powers and logarithms |
| `FieldPairs` | | `GaloisField` against products of polynomials modulo the primitive one, which know no table |
| `GaloisFieldProofs` | | the laws of the field and its polynomials, and theorems about `FieldPairs` |
| `Recursion` | | induction, recursive functions, powers of two and binary digits, for the proofs |
| `ReedSolomon` | `rs_encode.c`, `rs_decode.c` | extends `GaloisField`; one action per stage and per round of Berlekamp-Massey; the scratch arrays are variables and keep what is not overwritten |
| `ReedSolomonShim` | the Reed-Solomon half of `fec_shim.c` | extends `ReedSolomon`: a caller of either interface |
| `ReedSolomonProofs` | | theorems about both |

`MC*` modules hold the finite instances for TLC. `Pending` in `ViterbiDecoder` and
`ReedSolomon` is what the caller may hand in next; which inputs share a codec with
others (`Repeated`) and how many calls one codec serves are bounds, not code.

What the abstraction takes away: bytes of `Width` bits where 8 would not be checkable;
one array of metrics as one function; the unrolled and vectorised loops over states as
functions of the state; in the shim, a decoded byte as its place in its update. What
it keeps on purpose: uninitialised scratch (`Init` of `ReedSolomon` tries both
extremes), stale entries of slices and metrics in the tail's rounds, `% 2^w`
arithmetic, the different tie-breaking of the inner loop and the tail, a read behind
the table of powers as a choice over what it may yield (`RootSets`), fields of
`malloc`ed memory that hold anything until they are set (`wild` in `Lifecycle`), and
the 32 bits of the shim's differences (`UintRange`).

## 3. Runs

| Run | Question | Bounds, and why they are enough |
|---|---|---|
| `history_buffer` | Is any undecided slice lost, is any skipped entry read, are bursts seamless, do live metrics wrap, does the ring implement `SurvivorStream`? | 4 states, ring of 2 + 2 slices, up to 5 ordinary rounds, then the tail: more rounds than slots, so the ring wraps in both, and a second decode begins at any counter. Renormalisation every 3 rounds falls on every place of a decode. Three slices and two metric arrays make survivors meet and not meet. |
| `codec_sessions` | Do the three loops meet, and does a decode return? Is anything freed twice, used after it was freed, or leaked, whatever allocation fails? Do the cursors of libfec's buffer and the bits the decoder writes agree? | Objects of five kinds. Direct decodes: the orders of `correct.h`, blocks of 1 to 3 bytes, and blocks at and below the boundary where warm-up and tail meet. The shim: its orders 7, 9 and 15, buffers of 1 to 3 bytes, one of them not asked for in whole bytes, two updates from one group too short to longer than the smallest buffer, chainback of part of a byte and of more than there is. Every allocation of every create and first decode fails in turn. |
| `viterbi_decoder` | Are the metrics least distances, and the message a most likely one, whatever block came before, hard or soft? | A rate 1/2 code of order 4, blocks of 7, 9 and 12 slices. A ring of 4 + 1 slices makes group tracebacks happen in the inner loop, and `DistanceMax` = 36 renormalises every 9 rounds, within the second block at another place than in the first. The reference is all paths through the trellis, up to 9 slices. All 470 patterns of up to three changed bits in a block of 7 slices. |
| `sse_decoder` | Is the SSE decoder the plain one with soft decisions? | A rate 1/2 code of order 6, the least that 32 states a time need; blocks of 14, 30 and 45 slices, up to three through one codec: the inner loop goes past the history buffer, renormalises and traces back, each several times, and blocks begin at any counter. |
| `conv_encoder` | Do bits survive any mix of writes, and any lengths of reads? Is what an encode writes the codeword, and is there room for it, whatever its reader and writer did before? | Bytes of 3 bits, buffers of 1 and 3 bytes, writes up to 7 bits: each may begin and end anywhere in a byte and cross none, one or two. Between them encodes with a code of `correct.h` at rate 1/2, messages of 1 to 3 bytes: `6 n + 14` bits, so that outputs straddle bytes at every place and the last byte is always partly filled. |
| `reed_solomon` | Are the tables the field? Berlekamp-Massey's invariant and minimality; correction within the bound; arrays suffice; reuse | The tables at the real width 8 and polynomial 0x187: all 65536 pairs (`Bytes8` in `MCReedSolomon`, looked at beside the codec). The codec over GF(8), blocks of up to 7 symbols, 4 of them parity. All patterns of up to two errors; three errors and locators of the largest order; erasures with errors in full and padded blocks, two calls over one codec in all orders. First root 0 makes Forney's power negative, and a root gap of 2 tells the gap from 1. The code is linear, so one message stands for all. The same through libfec's interface, with no padding and with two symbols of it. |

Six runs show a disagreement of the code with its own comments or header. TLC
finds each violated:

| Run | What it shows |
|---|---|
| `viterbi_first_slice` | The first `error_buffer_swap` after a reset hands out for reading the array that the round did not write: the distances of a block's first slice are lost. The decoder's metrics, said to be "aggregated", leave that slice out; the properties of `viterbi_decoder` are therefore stated from the second slice on, and `RecoversMessage` allows `Rate` bits less. |
| `sse_hard_decode` | With hard decisions the SSE inner loop sets its own counter back in every round: a decode does not return. |
| `shim_full_buffer` | An update that finds the shim's buffer full still decodes `order - 1` groups, and the tail decides a bit for each: for the orders 9 and 15 a byte behind the buffer is written. `WritesStayWhereRoomIs` shows that this is the only case. |
| `reed_solomon_last_byte` | An error in the last byte of a block is given the location 255, one behind the array: log(1) is 255, and nothing wraps it to 0. |
| `conv_encoder_flush` | `bit_writer_flush_byte` (`bit.c:219`) shifts a partly filled last byte one place too far, for the writer keeps it one place up already, and its first bit is lost, where `cv_encode.c:59` says "0-fill any remaining bits". With 8 bits a byte and a rate 1/2 code of order 6 the message 0x01 ends in 0x80, not in 0xC0. `WritesCodeword` says that the whole bytes are right. |
| `reed_solomon_return` | A decode that succeeds returns the number of errors it repaired, and 0 for a clean block (`rs_decode.c:449`, `482`), where `correct.h:226` promises the number of bytes written. `CorrectsWithinBound` says that the message comes back all the same and that the decode is not given up. |

Met besides:

* With order 12 a message of one byte encodes to a block in which warm-up and tail overlap and
  slices are read twice (`cv_decode.c:156`). `EachSliceOnce` is stated for longer blocks;
  `OneDecisionPerBit` says what comes of the shorter ones.
* A locator of degree `min_distance` needs one power more than `element_exp` has
  (`rs_decode.c:133`, `370`). `RootSets` leaves open what is read there, so that the search may find
  any number of elements up to 255. It writes each to `error_roots` before it counts them
  (`rs_decode.c:140`, `147`): in `ReedSolomon` the roots have a place for each, of which those from
  `2 * MinDistance` on lie behind the array (here `N` is 7 and none does). `ScratchStaysInBounds` is about
  all other locators, for which the search finds no more than the locator's order.
* A failed allocation inside the first decode, and some inside create, end in a double free or
  a use of freed or unset memory. `Fragile` in `Lifecycle` lists these allocations; for every
  other one `OnlyFragileFailuresMisuse` and `NothingLeaks` show that it is survived.
* `update_viterbi_blk` ignores a decode that fails, and moves its cursor (`fec_shim.c:180`).
* An update of fewer than `order - 1` groups is taken for one that fills the buffer, as the difference
  wraps around (`fec_shim.c:171`), and the decoder reads behind the caller's block. The model takes
  such a length; no property speaks of what is read.
* `correct_reed_solomon_encode` returns the full block length for a short message too
  (`rs_encode.c:33`), where `correct.h:210` says the number of bytes written. The model has no variable
  for what an encode returns.

**Fairness.** `DecodeSchedule`, `ViterbiDecoder`, `SseDecoder`, `SseSchedule` and `ViterbiShim` have
weak fairness on the actions inside a decode: once called, a function takes its next step,
which is all that a sequential program needs. Starting a decode, or any other call, is never
obliged. The other modules check safety only and have no fairness.

**Deadlock** is checked everywhere. Where a caller stops calling because of a bound, an
action of its own (`Done`, `Rest`) says so; `Crashed` stands for a program that has
misused memory and of which nothing more is claimed.

## 4. Proofs

All theorems are for every value of the constants that the named assumptions of the
modules admit. What they assume is in those `ASSUME`s, which TLC evaluates in the runs, and is
what the code has by construction: `Highbit` is a power of two (`HighbitIsPower`,
`history_buffer.c:34`), the ring has a slot more than the longest traceback and the metrics fit
(`RingAssumption`, `cv_decode.c:223-250`), transmissions are sequences of symbols
(`TransmissionsAssumption`), a buffer of bits has a byte at least, as the reader fetches the first before it is
asked for a bit (`StreamAssumption`, `bit.c:269`), the polynomial of the field passes the test of `trypoly`
(`GaloisFieldAssumption`).

*`Recursion`.* The library's induction theorems take an operator and cannot be used with these
provers, but induction over a *set* can be stated and proved: a set that holds 0 and with `n`
also `n + 1` holds every number up to a bound (`SetInduction`, from the least number of the
complement). With it `RecursionExists` gives a function that follows a rule, so that a recursive
definition of the modules is that function, and its values can be reasoned about. Powers of two
and binary digits come next (`PowerSplit`, `DivisionTwice`, `BitsDetermine`): a number below
`2^k` is known by its `k` digits.

*`HistoryBufferProofs`.* The inductive invariant is
`IInv == TypeOK /\ RingHoldsUndecided`. `RingHoldsUndecided` alone is not inductive:
it needs `len < Cap` between calls and `index` in range (both in `TypeOK`), so that
the slot a round overwrites is not one of the undecided ones. The lemmas say what the
view of the ring is after a slot was written (`Back` never names the same slot twice),
that the search finds a live state with the least metric, hence that renormalisation
cannot make a live metric wrap. From `IInv`: `TypeCorrect`, `RingCorrect`,
`RenormalizeExact`, and `Refinement`: every step of the ring is a step or a
stutter of `SurvivorStream`.

`TracebacksAreSeamless` needs more, because it speaks of the whole decode when it ends and the
bursts came out along the way. `PathInv` adds what holds in between: as long as all survivors met at
each group traceback, the bits that are out lie on the survivor path of *every* live state
(`OutIsOnEveryPath`). A round keeps it because each live state has its predecessor among the live
ones of the round before, also in the tail, where `skip` doubles (`PredecessorIsLive`, from digits of
the state's number); a group traceback keeps it because two paths that meet are one from there on
(`PathsMeet`). `TracebacksReadWritten` follows the same walk through the tail: after `j` steps
back from a state that is a multiple of `skip`, the state is a multiple of `skip` divided by
`2^j`, hence one that was written (`WalkIsLive`).

*`ViterbiDecoderProofs`.* For the error buffer alone the invariant tells the first swap from the
others (`SwapInv`). The same invariant holds of both decoders, in which a round of the
buffer is one conjunct of an action that also steps the loops and the ring: `Buffered` counts
the rounds by the slices read and asks nothing of the metrics' values. `LoopsInv` ties
the loop counter, the slices read and the bits decided to the phase, for an instance of `DecodeSchedule`
with the decoder's variables; the decoders keep it since every step of either is a step
of the schedule (`DecoderStepsLoops`) and their blocks meet its assumption. From these:
`DecoderDoubleBuffer` and `DecoderReadsSlicesOnce`, and both for the SSE decoder.

`DecoderRingIsCurrent` composes the loops with the ring, by an instance of `HistoryBufferProofs`.
The part of the ring's invariant that does not speak of metrics (`RingInv`) holds
in the decoder whatever the metrics are; `SkipFollowsLoop` says what the skip of the last round is,
given the loop's counter, and the schedule's invariant (`LoopFacts`) that the tail's skips stay
powers of two below the number of states. The decoder's constants meet the ring's assumptions
(`RingAssumptions`).

`MetricsCorrect` says what the metrics are for. A path is an endless sequence of input bits, of which a
prefix counts; what it costs is a sum of distances (`PathCost`). `Tracks` is the invariant: after n slices the metric
of each state that is still worked on, plus a number that is the same for all (what renormalising has taken), is the
cost of a path into that state whose bits are those of the state's survivor, and no path into it costs less
(`IsLeast`). A round keeps this because a path into a state comes through one of two predecessors, which
`ComesFrom` shows to have been worked on, and the round takes the better one (`Survives`, `TracksRound`). But
the sums are 16 bits wide, so that it holds only if none wraps, and bounding them is the other half: `Anchored` says
that since the last renormalisation some path has paid at most half of the worst distance for each slice. There is
always such a path, because the two branches out of a state have outputs that differ in every bit
(`Complements`), and so one of them costs no more than half (`CheapBit`, `CheapWay`); and from where that path was
`order - 1` slices ago every state can be reached. A sum is thus at most

    (slices since the renormalisation) * worst / 2 + order * worst

and `RangeIsEnough` says that this is within `DistanceMax`. From the metrics on, `DecodedIsMostLikely`
adds what `HistoryBufferProofs` knows of the bits (they lie on the survivor path of every live state as long as survivors
had met at each group traceback): at the end state 0 alone is live, its survivor is a least path, and its
bits are the message. `LookupsAgree` shows that distances looked up by groups of two registers (or eight) are those of
the registers, however the lists of groups come out.

`SumsStayPositiveCorrect` is the same bound with half of the range, and `SseRefinesPlain` what follows: with
all sums positive a signed comparison decides like an unsigned one (`SsePicksTheSame`); a round that goes
past the history buffer does what a call of it would do while nothing is due (`BypassIsCall`); and so every
step of the SSE decoder is a step of the plain decoder whose ring has its fields in the local copies
(`RoundOf` has the call with these fields as arguments). Its invariant `SseInv` is the plain decoder's, with the
copies for the fields inside the inner loop.

These four have two hypotheses:

* `TapsNewest`: every polynomial has its lowest bit set. All polynomials that `correct.h` and
  libfec's interface list have. Nothing in the code checks it; without it both branches out of a state may
  cost the worst, and the bound on the metrics would be twice as large.
* `RangeIsEnough`, or `SseRangeIsEnough` for the SSE decoder. `PlainIntervalFits` and `SseIntervalFits` derive them
  from the interval the code computes (`cv_decode.c:254`, `sse/cv_decode.c:247`) if twice the order is at
  most that interval plus 1. For the plain decoder with soft decisions the interval is 128 at rate 1/2, 85 at 1/3 and 42 at
  1/6, so that all codes of `correct.h` and of libfec meet it. The SSE decoder's are 64, 42 and 21: all codes meet it but
  libfec's of order 15 at rate 1/6, for which the bound, 38250, is above 32767. The theorem does not cover this code,
  which is not to say that its metrics ever get there.

*`ConvEncoderProofs`.* The invariant counts the bits written by the rounds done in the two
loops; the bounds of the loops then give the number of rounds, and `encode_len` is that number
times the rate. The step from rounds to bits needs two facts on products (`OneMore`,
`NoFewer`). From it, and from what the writer holds by `CodeInv`: `RoomCorrect`, for messages of
every length. `CodeInv` adds what the state
holds after n rounds, each for the reason the code has: the register is the sum of the last bits
with their weights (`ShiftedIsNext`: the shift and the mask are one bit more of the message, compared
digit by digit); the reader is at bit n of the message and a read of one bit, reversed as a byte and
shifted down, returns it (`ReadsNextBit`); a row of the table comes out of the writer in the order
of its output (`RowInOrder`, the digits of a packed row); and the writer's closed bytes and its byte
under way spell what was written (`HoldsBits`), which each single bit keeps (`PutHolds`), the byte
under way being one place up. `FlushKeepsBytes` says that the flush leaves the whole bytes of such a
writer as they are. Between two encodes the invariant asks nothing of reader and writer, which `Start`
sets anew. From it:
`CodewordIsWritten`, and `RegisterEndsEmpty` since the last order bits shifted in are zeros. The
digits of a number come from `Recursion` (`BitShiftedIn`, `BitBelow`, `BitAbove`).

*`BitStreamProofs`.* The same two predicates carry every other write and read. Of the writer (`WriterInv`): while
it is open its closed bytes and its byte under way spell what was sent (`HoldsBits`), and after a flush the full bytes
do (`Closed`). A list is written as the bits that complete the byte under way, whole bytes, and the rest; `PushSpells`
says what number the loops that shift in a bit at a time make of a part of the list, `CutSpells` that the three
parts are the list again, and `PutWholeHolds` and `PutListHolds`, by induction over the bytes in between, that
the writer holds it. A list that is read from its end is the list turned round (`ReversedFacts`,
`PutReversedHolds`). `RoomCheck` is the early return for a list that does not fit: with `index * Width + currentLen` bits
written it is taken exactly if the rest has no room. Of the reader (`ReaderInv`): it is at bit `taken` of the
buffer (`ReaderAt`), and the last value it returned has the digits before that place (`Returned`). A read that
goes past the end of a byte joins two fields, and the table of reversed bytes turns the whole; `ReadReturns` compares
them digit by digit. From both: `ReadsBackInOrderCorrect`, `StreamIsSentCorrect`, `RoomIsExactCorrect` and
`FlushRoundsUpCorrect`, for every width of a byte, buffer, mix of writes and lengths of reads. `StreamInv`
was checked over the instance of `conv_encoder` before it was proved.

*`ViterbiShimProofs`.* First the loops of a decode alone. The invariant (`IInv`) ties `i`, `consumed` and
`processed` to the phase. It holds for blocks of every length from `order - 1` slices on; the properties
say which need `LongBlock`. From it: `SlicesReadOnce` and `DecisionsMade`.

`ShimInv` joins this invariant, which every
step of a session keeps because it is a step of the schedule or leaves it alone, with what
the cursors and the decode under way have to do with each other: the bits the decode will
still decide are at most those `update_viterbi_blk` counts on, or those of a block too short,
which fit the room that is left; the bytes before the write cursor are those decoded since
the last init, and those before the read cursor were delivered. The arithmetic of rounding
bits to bytes and of the wrapped difference is in lemmas of its own. From it: `RoomIsRespected`,
`DecodedIsDelivered` and `SessionsDecodeOnce`.

Then the objects. None of the three properties of `Lifecycle` is inductive: that a destroy leaves nothing
depends on what create and the first decode left, and that it frees nothing twice depends on it, too. `LifeInv`
adds both. As long as nothing was misused the object is `Owned`: its base is live, nothing of the decoder
is live before the flag is set, nothing of the ring without the struct that leads to it, and of a Reed-Solomon
decoder either all is live or none. As long as nothing fragile failed it is `Whole`: everything is live that was
made, and the rest is as `malloc` or `calloc` returned it. `Frees` says what freeing a set of fields does to a
heap and when it misuses nothing, and composes over the calls of a destroy function (`FreesBoth`), so that each is
known by the set of fields it frees (`DestroyConvFrees`, `DestroyRsFrees`): `Owned` objects have
nothing live outside that set, and `Whole` ones nothing in it that is not live or null (`DestroyWhole`). The error
paths follow one by one: of create (`ConvCreateFails`, `ViterbiCreateFails`, `RsCreateFails`,
`RsCharCreateFails`), where what was allocated before the failure has to be what is freed, and of the first decode
(`ConvInitFails`, `RsInitFails`), after which a convolutional object must still be one that destroy finds its way
through and a Reed-Solomon one is destroyed already, so that the decode that goes on misuses it. From it:
`ObjectsDoNotLeak`, `MisuseNeedsFragileFailure` and `FlagIsTrue`, in every session that `ViterbiShim`
describes. `LifeInv` was checked over the instance of `codec_sessions` before it was proved.

*`GaloisFieldProofs`.* The tables of `field.h` are a field, for every width and every polynomial
that passes `trypoly`. Addition is a group in which every element is its own inverse
(`AddGroup`), from the digits of the exclusive or. Doubling is linear (`DoubledLinear`): the
carry out of the top digit adds the polynomial or not. That the first `N` powers of 2 are all
different is what `trypoly` tests; hence the table of powers has period `N` (`PowersCycle`),
logarithms invert it (`LogTable`), and multiplication by logarithms, log(1) = N included, is
associative, commutative, has inverses (`MulMonoid`, `DivLaws`) and distributes over addition
(`MulDistributes`, by induction over the power).

`FieldPairs` defines the product without tables: the sum of `a` doubled k times over the digits k of `b`. The doubles
of `a` are its products with the powers of 2 that the first `Width` places of the table of powers hold, and the sum over the lower
digits of `b`, by distributivity, its product with the number they make (`ProductIsMul`). So the tables give
the products of polynomials (`TablesMakeAField`), logarithms stay logarithms (`LogarithmsAreClosed`) and
`field_pow` multiplies (`PowersAreProducts`). The three have the hypothesis `N >= 2`, that the field has more
than one bit: with one, `trypoly` lets the polynomial x through, by which every product with x is zero. The code's
fields have eight.

Then come the sums the polynomials are made of: splitting,
moving, scaling and exchanging them (`TotalAdds`, `TotalMoves`, `TotalScales`,
`TotalExchange`), and what the operations of `polynomial.c` do to coefficients (`EvalType`,
`MulType`, `FromRoots`, `ModSteps`). `PowLaws` makes `field_pow` a power for every exponent, and the
value of a polynomial is linear in it (`ValueAdds`, `ValueMoves`). So multiplying by `x + z` multiplies
the value (`FactorValue`), `polynomial_from_roots` vanishes at the roots it was given
(`FromRootsVanishes`), and a division by a divisor that leads with 1 leaves a remainder that is 0 from
the divisor's degree on and has the dividend's value at each of the divisor's roots (`ModKeeps`).
The tables the decoder evaluates polynomials by give these values (`EvalIsValue`, `EvalLogIsValue`).

A polynomial that is 0 at `z` is a product with `x + z` (`QuotientDivides`), and so has no more roots than
its degree unless all its coefficients are 0 (`TooManyRoots`, `RootsBound`). Its derivative at a root is
the value of the other factor there (`DerivativeAtRoot`). On these rests Forney's formula
(`ForneyIsRight`). Take a locator `f` of degree `n + 1` with distinct roots, and the sequence that has the
values of the formula as the coefficients of its powers of the inverses of the roots. The product of `f`
with each of these powers ends at degree `n` (`ConvOfPowers`). So the product of `f` with the difference
between that sequence and the syndromes is a polynomial of degree `n` at most, and the formula makes it 0
at each of the `n + 1` roots: it is 0, and `f`, whose constant term is not 0, can be cancelled
(`ConvCancels`). Products of polynomials are cut off after a coefficient in the code; `ConvOfProduct`,
`ProductVanishes` and `ProductStarts` say what of them remains.

The same sums of powers from the other side: the product of a polynomial with such a sequence is one again, with the
polynomial's values as additional weights (`PowerSumShift`); as many zeros in a row as there are terms mean that no
weight is left (`PowerSumZero`, with the polynomial that is zero at all points but one); and so `RegisterOfErrors`
and `RegisterFindsErrors`, which say what a register for such a sequence is.

*`ReedSolomonProofs`.* That the scratch arrays suffice is not inductive by itself: nothing in
the bounds says why the locator stops growing. The invariant that does is

    lastLocator.order + delay + numerrors = round + 1,   locator.order = numerrors

in Berlekamp-Massey's loop (`LoopInv`). The locator lengthens only if `2 * numerrors` is at
most the round, and then to `round + 1 - numerrors`, so that neither it nor the shifted last
locator, which is of order `round + 1 - numerrors` at most, gets past `MinDistance`. With
erasures the loop starts at their number, and the bound on roots and locations together
follows from the check at its end. Chien's search writes its roots before that check; a locator whose
lowest coefficient is 1 has no more of them than its order (`RootsFit`, from `TypeInv` below and
`RootsBound`), so that they stay in the array, too. `ScratchSuffices` is for direct callers,
`ScratchSufficesThroughShim` for both interfaces.

`TypeInv` joins this with the types of all arrays (`BlockInv` adds what the block under way and
the array of the received polynomial have to do with each other) and, in the loop, with
`RegisterInv` and `Shortest`. `TypeCorrectness` follows stage by stage.

`RegisterInv` is Berlekamp-Massey's argument: the locator, as a shift register, gives every
syndrome up to the round; the last locator gave those up to the round before `delay` and missed
that one by `lastDiscrepancy`, which is not zero. A correction with the shifted last locator leaves
the syndromes before as they are and adds the discrepancy where it was missing
(`CorrectedGives`), by the laws of sums. The code's arrays hold the shifted last locator in place, so the
lemma is about `IsCorrected`, coefficient by coefficient, as the two loops compute it.
`LocatorIsRegister` follows.

`Shortest` says that no register of fewer than `numerrors` taps gives the syndromes so far. When
the locator is lengthened from L taps in round n, a register of fewer than n + 1 - L taps that gave the next syndrome
too would, with the locator, form a table of products whose sums by rows and by columns are
the same (`SharedOutput`, by `TotalExchange`), and so the locator would not have missed it:
Massey's theorem. `LocatorIsShortest` follows, and `LocatorThroughShim` for both
interfaces.

`EncodedVanishes` takes a block apart: its polynomial is the message's, moved up by the parity,
plus the remainder of that modulo the generator, whose roots `GeneratorVanishes` knows. The two have the
same value at each root, and in a field of characteristic 2 what is added to itself is 0.
`EncodedIsCodeword` follows, and `EncodedIsCodewordThroughShim`.

`DecodeInv` carries a decode from its first stage to the repair. Each erasure has a place and is a
root of the erasure locator (`ErasuresPlaced`); the syndromes are those of what was received, or these
without the erasures, with the originals saved (`SyndromesKept`); what Berlekamp-Massey leaves is a
register for them, by `RegisterInv`, and Chien's search puts roots of it behind those of the
erasures (`LocatorRooted`). Hence, before the repair (`Located`), the product of the two locators is a register
for the syndromes of the received block (`RegisterTimesErasures`), every root of it has a place, with a
location of 255 taken for 0, and the value that Forney's formula gives. By `ForneyIsRight` the repaired
block then has the value 0 at each root of the generator (`LocatedIsCodeword`): `RepairedIsCodeword`, and
`RepairedIsCodewordThroughShim`.

Both have the hypothesis `GapIsUnit`, that the gap between the generator's roots has an inverse modulo
`N`. Nothing in the code sees to it; `correct.h:195` says that "not all combinations of values
produce valid codes". It is needed: over GF(16) with a gap of 3 TLC finds a decode in which a root has no place,
`reed_solomon_find_error_locations` leaves the location of an earlier decode, and the block that is
returned as repaired is not a codeword. The gap of 1 that `correct.h:194` advises has an inverse. `DecodeInv` itself
was checked over the instance of `reed_solomon` before it was proved.

`CorrectInv` is the rest of the way to `CorrectsWithinBound`: the array holds the block that was sent under its
noise until it is repaired, erasures have the places they are looked for at, and within the bound the
search leaves the roots of places in error and of no others (`RootsAreSuspect`). The stages that only hand these
on are easy. Three are not:

* *The search.* The syndromes of a block are those of its noise (`NoiseSyndromes`), which are sums of powers of
  the places in error, one term for each (`SyndromesArePowerSums`). Multiplying by the erasure locator, as the code does,
  takes the erased places out of the sums and puts weights at the others, all but zero
  (`PowerSumShift`, `ErrorWeights`). `t` terms have a register of `t` taps (`RegisterOfErrors`: the product of
  their factors), so that `Shortest` keeps the loop's locator to `t`; and a register of at most `t` taps that
  gives `2 t` of these sums is zero at the `t` places and nowhere else (`RegisterFindsErrors`). The loop has
  gone through `MinDistance` less the erasures, which is `2 t` at least. So Chien's search finds as many
  roots as the locator's order (`SearchSucceeds`), none of them an erasure's, and the decode goes on.
* *The repair.* What is repaired is a codeword by `RepairedIsCodeword`'s invariant, and differs from what was sent
  only in places under suspicion, `t + e` of them (`UnsuspectedStays`). A polynomial that is zero but for
  `MinDistance` places and vanishes at all roots of the generator is zero (`CodewordsDiffer`: the distance of the code,
  by `PowerSumZero`), so the two are one (`RepairIsSent`), and the message is copied out of it.
* *Syndromes that are all zero.* By the same distance there was no noise at all, and not a noise the
  code cannot see (`CorrectNoErrors`).

`DecodesWithinBound` follows, and, since a place of the full block never wraps to the index just behind a short one
(`ShimTransmissionSent`), `DecodesWithinBoundThroughShim`. For the shim's caller `InPlaceInv` adds that the block stays
as the channel left it until the decode returns, and that a byte is erased in the library's terms exactly
if it is in the caller's (`SameUnknown`): `ShimDecodesInPlace`. These, too, have the hypothesis `GapIsUnit`. `CorrectInv` and
`InPlaceInv` were checked over the instance of `reed_solomon` before they were proved.

**Only model-checked**, and why:

* `RecoversMessage`: it needs the free distance of a code, which is a fact about each polynomial and not
  of the program. What the decoder does towards it is `DecodedIsMostLikely`.
* `DecodeReturns` and the liveness in `ImplementsSchedule`: liveness under fairness is out of the prover's reach.

## 5. Not modelled

* Hard decisions in the SSE decoder beyond their control: the loop does not end, so that there
  is no result. The growth of the tables of `oct_lookup_create` by `realloc`.
* The quadratic metric: nothing selects it. `polynomial_eval`: nothing calls it.
  `correct_reed_solomon_debug_print`: output only.
* Rates above 8 (the encoder cuts a round's output to a byte), codes of order 1 to 3 (the inner loop
  takes eight states a time and reads past the arrays), blocks shorter than the encoder and
  the shim make (unsigned bounds wrap around in both decoders), empty messages, null pointers,
  lengths that are no multiple of the rate.
* More erasures than roots handed to `decode_rs_char`: they overrun its array before they are counted.
* Threads: the one object codecs share is the table of reversed bytes (`bit.c:247`), which each
  thread would fill with the same values.
* `util/`, `tests/` and the tools that rate codes: simulations with random numbers, used as
  documentation of how the library is called. Of the tools only `trypoly` is here, as the
  assumption `GaloisField` makes of its polynomial. `correct.h` declares and lists polynomials.

## 6. Plan

Done: the ring, the metrics and the schedule of the decoder (the part on which all else
rests), the decoder over them and its SSE version, the bit streams and the encoder, the
field and the Reed-Solomon codec, ownership, and both halves of libfec's interface; the theorems
of section 4.

1. The decoder composed with `BitWriter` and `BitReader`: no list is dropped for want of
   room, and the hard decoder never reads past its block.
2. Arrays of allocations of any length in `Lifecycle`, which has the first and the last of each.
3. The free distance of a code as an assumption on it, and `RecoversMessage` from `DecodedIsMostLikely`.
