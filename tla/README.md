# A verification of cpusimu

`cpusimu` holds two generations of a branch-prediction course project: `hw6`, a
trace-driven timing model of an out-of-order superscalar processor with a gshare
predictor, and `cbp2`, the same pipeline behind a predictor interface, a set of
predictors (gshare, bimodal, tournament, GEHL, O-GEHL, Seznec's O-GEHL/TAGE), the
driver that runs them on compressed traces, and the trace compressor.

This directory models the parts of it that have state worth arguing about, checks
them with TLC and proves the central properties with TLAPS. Everything is
translated from the source; where a document or comment says something else, the
disagreement is recorded as a finding (last section). `PROJECT.json` lists runs,
mutants, hazards, theorems and the source lines behind every definition.

Run TLC with `tlc -config <run>.cfg <module>`, TLAPS with `tlapm <module>Proofs.tla`.

## 1. The system

### Components, their state and their operations

| component | source | state | operations |
|---|---|---|---|
| superscalar pipeline | `hw6/processor.{h,cxx}`, `hw6/instruction.{h,cxx}` | map table, free list, reorder buffer, scoreboard, cycle and instruction counters, fetch countdown | `commit`, `issue`, `fetch`, `advance`, `renameInstruction`, `isReady`, `reset`; four subclasses `Exp1..4Processor` |
| simulation loop | `hw6/simulator.cxx` | the processor and the input stream | one loop: commit, issue, fetch, advance until both are exhausted |
| gshare of the pipeline | `hw6/gshare.h` | counters, global history | `predict`, `update` |
| pipeline, pluggable predictor | `cbp2/src/processor.*`, `instruction.*`, `simulator.cxx` | as `hw6`, and a `branch_predictor` | as `hw6` |
| trace compressor | `cbp2/src/compress/{trace,ct}.cc` | LRU table of branch records, clock, return address stack, last record | `init_trace`, `read_trace` in two directions |
| trace reader | `cbp2/src/trace.{h,cc}` | the same | `init_trace`, `read_trace`, decompressing only |
| O-GEHL | `cbp2/src/ogehl.hpp`, `SaturatingCounter.hpp` | counters of the tables, folded and global histories, threshold and its counter, alias counter and tags, pending prediction | `predict`, `update`; `makeTables` and `Lengths` in the constructor |
| GEHL | `cbp2/src/gehl.h` | counters, folded and global histories, pending prediction | `predict`, `update` |
| Seznec's predictor | `cbp2/src/seznec_ogehl.h` | moving history buffer, folds and their kernel/user copies, GEHL counters and threshold, TAGE tables, meta predictor, loop predictor | `predict`, `update` |
| simple predictors | `cbp2/src/{gshare,bc2,tournament}.h`, `tournament.cxx` | counter tables, history | `predict`, `update` |
| prediction driver | `cbp2/src/predict.cc` | the predictors, counts | for each branch of the trace: every predictor's `predict`, then `update` |
| scripts, write-ups, unit tests | `hw6/test`, `hw6/writeup`, `cbp2/doc`, `cbp2/testing`, ... | - | read for claims and configurations |

### How they interact

The program is single-threaded throughout; components call each other. The
simulator calls the stages of the processor in reverse order, once a cycle. The
stages share the reorder buffer, the free list and the scoreboard, and
`Exp4Processor::issue` and `fetch` share the countdown `m_nFetchReady`. In `cbp2`,
`fetch` and the driver call a predictor: `predict()` returns a pointer to a
`branch_update` that the predictor keeps, `update()` finds there what the
prediction left, so the two must alternate. The compressor and its reader are two
processes that share nothing but a file; their tables are equal only because the
two directions make the same updates.

### What is hard

* **The pipeline as a concurrent machine.** Several instructions are in flight;
  each of the four stages sees a state that the other three have changed, and an
  instruction's readiness is kept twice (countdown in the scoreboard, done cycle in
  the instruction). Renaming must neither lose a register nor share one.
* **Resources at their limit.** `m_freelist.pop_front()` is not guarded; the
  return address stack drops what does not fit; counters saturate; histories are
  as long as the bitset.
* **Two implementations of one protocol.** Encoder and decoder; the folded history
  of GEHL and that of O-GEHL; `predict()` and `update()`, which computes the table
  indices again.
* **Incremental against direct.** The folded history is maintained from two bits
  per branch, and must be the fold of exactly the last branches.
* **Liveness.** The simulation loop must end; a predictor must learn.
* **State that survives.** Statics not reset between files, a processor reset between
  traces, variables that are never initialised.
* **A history that moves.** Seznec's history buffer is filled downwards, moved up when
  it is used up, and set back to an earlier position when the kernel returns; the
  folds, the position and the entries must stay together.

There are no threads, no messages in flight, no crash recovery in this system, and
no property pretends there were.

### What makes each component correct

* pipeline: registers conserved, never shared, free list never empty for the
  shipped configurations; each instruction reads what the last older writer of
  each source wrote, not before it is done; loads wait for the stores they must;
  retirement in order; fetch suspended exactly while a misprediction is unresolved
  and for four cycles after; the loop terminates; overall, the machine implements
  the sequential execution of the trace;
* compressor: decompression restores the trace, the two sides stay in step,
  no assertion of the reader fails, the table holds a branch once, recent branches
  cost one byte;
* O-GEHL/GEHL: folded histories exact, no counter trained but those read, the
  threshold accounts for the updates and stays bounded, every additional length used
  once, with the adaptations off O-GEHL is GEHL, and GEHL learns constant branches;
* simple predictors: the two gshares are one predictor, a tournament predictor is
  made of a gshare and a bimodal one, and every one learns a constant branch,
  whatever its memory held;
* driver and pipeline: the pipeline counts the mispredictions that the driver counts;
  a reset machine is as new;
* Seznec's predictor: the folds are those of the last entries, the threshold stays
  positive, the loop predictor is confident only of what has repeated, an entry
  allocated is the one that was missed.

## 2. Modules

| module | models | remarks |
|---|---|---|
| `Processor` | `hw6` pipeline and simulation loop | one action per loop iteration of a stage |
| `Sequential` | what the pipeline promises | abstract machine, one instruction per step |
| `Dataflow` | `Processor` with values flowing along its registers | refines `Sequential` |
| `PredictingProcessor` | `Processor` with its branch predictor and `reset()`, as in `cbp2/src/processor.cxx` and `hw6` | composes `Processor` and `Predictors` |
| `TraceTable` | state of one side of the trace codec | table, clock, return stack |
| `TraceCodec` | both directions of `read_trace()` and the file between them | composes two `TraceTable` states |
| `BitVectors` | unsigned integers as sets of bit positions | pure operators |
| `SaturatingCounter` | `SaturatingCounter.hpp` | pure operators |
| `Folding` | folded histories as sets of bit positions | pure operators; `FoldOf` is the reference definition |
| `FoldedHistory` | the folded history of one table, either implementation | one branch per step |
| `Lengths` | `Lengths()`, distribution of the additional lengths | recursive function |
| `MakeTables` | `makeTables()` | the constructor's loop, against the closed form in `Lengths` |
| `Gehl` | `gehl.h` | also the abstract specification for `Ogehl` |
| `Ogehl` | `ogehl.hpp` | refines `Gehl` when nothing adapts |
| `Predictors` | gshare of `hw6` and `cbp2`, bimodal, tournament | pure operators on records, one interface |
| `PredictDriver` | main loop of `predict.cc` | composes `Gehl` and `Predictors` |
| `SeznecHistory` | history buffer, folds, kernel save and restore of `seznec_ogehl.h` | one instruction per step |
| `Seznec` | the rest of `seznec_ogehl.h` | composes `SeznecHistory` with GEHL, TAGE, meta and loop predictor |
| `MC*` | instances for TLC | sample micro-ops, branches, configurations |
| `ProcessorProofs`, `DataflowProofs`, `PredictingProofs`, `TraceCodecProofs`, `FoldingProofs`, `PredictDriverProofs`, `OgehlProofs`, `SeznecProofs` | theorems | see section 5 |

### Processor

The variables are the fields of `Processor`: `maptable`, `freelist`, `rob`,
`scoreboard`, `currentCycle`, `totalMicro`, `totalMacro`, `nFetchReady`, with `ins` for
`!ins.eof()`. `stage`, `loop` and `pos` are the program counter: which stage runs,
how many iterations are behind it and where `issue()`'s iterator is. One action is
one iteration, with every call it makes: `Fetch` extracts a record, renames it,
marks its destinations unknown in the scoreboard, enters it in the buffer and, in
`Exp4Processor`, suspends fetch when the prediction was wrong. `exp` is the experiment,
which `simulate()` chooses once; the subclass overrides are conditions on it. A trace record is any member
of `Records`; the outcome of a prediction is an input (`miss`), which covers every
predictor there may be. Popping the empty free list is undefined behaviour: `FetchUndefined`
leads to the stage `undefined`, from which nothing is promised.

Abstracted: registers are small numbers, addresses are compared only, text parsing
of the trace is left out. `NoCycle` stands for the initial `ULONG_MAX`.

### Dataflow and Sequential

The simulator keeps no values, so whether dependences are kept cannot be seen in
its state alone. `Dataflow` adds what the registers would hold: an instruction that
issues reads its physical sources (a value not yet computed reads as `Stale`) and
writes its destinations; a value names the instruction that made it. The mapping
takes, for each architectural register, what the first in-flight writer will free,
which is the architectural state of the instructions that have retired. Committing
is then executing one instruction of `Sequential`; every other step stutters.

### PredictingProcessor

`Processor` leaves the outcome of a prediction open. Here it is that of a predictor:
`PFetch` asks it for the branch of the record that is fetched, trains it at once, and
marks the instruction. `predictor` is the one that `fetch()` holds (`hw6` has its own
gshare, `cbp2` is given any `branch_predictor`); here it is one of the table predictors of
`Predictors`, which look at conditional branches only. GEHL, O-GEHL and Seznec's predictor also
read the other instructions, which the model does not tell apart (`Other`). Two history variables say what `predict.cc` would do with
the same trace: `branches` runs parallel to the reorder buffer, `driven` is the same
predictor after the retired instructions only. `Reset` is `Processor::reset()`, called
between two traces: it sets what the code sets, so the free list keeps its length
and `nFetchReady` its value.

### TraceTable and TraceCodec

`State` has the static variables of one process. `Compress(n, r)` is one call of
the compressing `read_trace()`, `Decompress` one call of the other direction, which
reads bytes and words from `pipe`. The writer waits until its record has been read:
since neither process sees the other, this loses no behaviour. A word is one item,
not four bytes. `PassCounts` distinguishes `ct` from the reader in `cbp2/src/trace.cc`,
which has no instruction counts but is otherwise the same code.
`NextFile` and `FilesSpec` are for several arguments of one `ct -d`. (`compress/trace.cc`
and `cbp2/src/trace.cc` differ in nothing else that has state.)

### The GEHL family

Bit vectors (`bitset`, `unsigned`) are sets of positions: exclusive or is symmetric
difference, masking is intersection, shifting moves the members. `Compress` is one
update of a folded history, `FoldOf` the fold of a whole history from its
definition. `FoldedHistory` runs one table in isolation, with all small geometries;
`Gehl` and `Ogehl` are whole predictors. `predict()` leaves `pending` for `update()`;
`update()` is one action, in the order of the code: statistics, counters, history
length, histories, threshold. `use_long`, which `_dynamicHistoryFit()` passes on even
when it has not assigned it, is a choice from `BOOLEAN`, and so is the bit
behind the end of the bitset (`beyond`). `MakeTables` is the constructor's loop;
`Lengths!LongIndex` is its result in closed form, which `Ogehl` uses.

### Predictors and PredictDriver

A table predictor is a record with a `kind`; `Direction` is what `predict()` answers and
`After` what both calls make of it, because the tournament predictor trains in
`predict()` and the others in `update()`. Its tables start with whatever the memory
held. The driver makes one loop iteration of two steps, `predict()` of all and `update()` of
all, on the line-up that the arguments ask for.

### Seznec's predictor

`SeznecHistory` is the end of `update()`: `Enter` decides whether the kernel is entered or
left, saves or restores, moves the buffer if it is used up, writes the entry, and
updates every fold with the entry that leaves it, read from the buffer at the fold's
length. The shapes of the folds (length, width, shift) are computed as the constructor
computes them. History variables list the entries the current mode should remember
(`seen`, `seenSave`) and whether the kernel has moved the user's history (`moved`, `torn`).
`LASTMODE` and the saved position are not initialised by the code: `HistoryInit` takes either
mode, and a return to a position that was never saved ends the model (`defined`).
`Seznec` adds `Predict`, which leaves indices, tags and the directions of its five
parts in `pending`, and `Update`, which trains them in the order of the code before
the history moves on. Its memory may also hold any `WORTHHYBRID` and any loop tags (`Garbage`). `Seed` and `TICK` are kept modulo what is read of them.

`Theta` grows and the statistics count without bound in the code too; runs are
bounded by `MaxOps`, the number of branches.

## 3. Runs

All runs finish in well under five minutes. Deadlock is checked except where a
bound or the end of a constructor stops the model (the cfg says so).

| run | shows |
|---|---|
| `pipeline` | `Exp4Processor` followed with values, all traces of up to five of ALU, compare (writes the flags twice), load, store, branch, any outcome of predictions: the state invariants of `Processor`, the exact delay after a misprediction, in-order retirement, `ImplementsSequential`, and under fairness `Terminates` |
| `predicting` | all four experiments, the fourth with a gshare or a bimodal predictor, with four spare registers for a buffer of three, any number of traces of up to five micro-ops: a load never passes a store its experiment makes it wait for (every one, or those to its address); the free list does run empty, and up to that pop nothing is shared; a branch is marked mispredicted exactly when the driver would count it; `reset()` gives the initial machine |
| `codec` | calls, indirect calls and returns with right, patched and wrong addresses and a stack of two, and branches that compete for two ways: lossless, in step, no abort, no duplicates, recently used branches are single bytes |
| `codec_files` | finding |
| `folded_exact` | 175 geometries, all histories: fold exact, the last `n` directions kept apart |
| `folded_switched` | finding |
| `tables_even` | every configuration up to sixteen tables for which the spread is even |
| `driver` | the complete state space of a small GEHL and of line-ups of table predictors: histories agree, the two gshares agree, a tournament predictor consists of the other two, constant branches are learned from any memory |
| `ogehl` | adaptations on: threshold bounded and accounted for, counters trained are those read; off: implements `Gehl` |
| `ogehl_uninit` | finding |
| `seznec` | the whole of Seznec's predictor, from memory of any content, with a buffer that moves at every second entry, kernel entries and returns: folds exact, threshold positive, loop confidence earned, allocation under the tag that was missed |
| `seznec_word` | finding |

### Bounds, and why they are enough

* Pipeline: three architectural registers suffice for two-source, two-destination
  micro-ops that overlap in every way, one of them the flags. A buffer of three with width two fills and drains with instructions waiting on each
  other. Traces are longer than the buffer and allocate more registers than are spare,
  so that registers are freed and allocated again. Latencies (3 and 1) and the delay are
  the code's. `EnoughRegisters`, two spare registers per entry, is what the configurations
  in `hw6/test` have; `predicting` shows what happens without it.
* Codec: two sets of two ways, a stack of two and 64 addresses reach replacement,
  full and empty stack and both patches; wrap-around is in the arithmetic, and covered by
  the proof. A trace is drawn from the calls and returns (up to six, with counts) or from
  the competing branches (up to seven): the constraint `OneKind`.
* Folded histories: a shift, a width and a length interact only modulo the width,
  so widths up to 5, lengths up to 6 (shorter, equal, longer) and table numbers up to
  5 (all residues) cover the cases; `HistSize` 7 is more than the longest history.
* Predictors: two addresses that differ in the bit that index, path and tags use;
  counters of two bits saturate on both sides; six branches move the threshold
  up and down and, in `ogehl`, the history length in both directions.
  `driver` needs no bound.
* Simple predictors: tables of one to four counters, so that branches collide and the
  history shifts out; garbage on both sides of a counter's bounds and of its type.
* Resets: `totalMicro` is reset with the machine, so `MaxTrace` bounds a trace, not the
  number of traces.
* Seznec: three TAGE and two GEHL tables, lengths up to four, six entries in the
  buffer of which four are kept, so that copies overlap and every length but the
  longest is within `Room`. Four instructions of any kind (`MaxMixed`) enter the kernel,
  move the buffer there and return; eight that are not conditional (`MaxOther`) move it
  three times; twelve outcomes of one branch (`MaxAlone`) make the loop predictor
  confident, take the threshold to one, wrap the tick and make the alternative
  provide. What is rarer is in one given run of 28 branches (`Script`), on which no entry is
  available and two useful ones are replaced at once, and confident loop predictions
  differ from the others (`WITHLOOP` changes). `WORTHHYBRID` starts at 0, -5 and both ends of its
  `int8_t`, at which steps in either direction occur. Checked by stating that each of
  these never happens, which TLC refutes.
* `seznec_word` has the widths, lengths and shifts of the program for the folds it
  contains; only the buffer is smaller.

`Width = 0` and `RobCapacity = 0` are excluded by the assumptions: the program's
loop would not end with either, and no configuration uses them.

### Fairness

Only weak fairness of the whole next-state relation, in `Dataflow!FairDataSpec` and
`PredictDriver!DriverSpec`: one thread runs a loop
and goes on as long as it can. No action is favoured over another, the trace and
the outcome of predictions stay arbitrary (`Gehl!Spec` states the same for its own loop).
`Learns` is about behaviours in which one branch is from some point on the only one and always goes the same way.

## 4. Properties

The definitions carry their own statement. Some are worth a remark.

* `NoSharing` and `NoLeak` are the two halves of "every physical register has exactly one
  owner" (map table, free list, or an instruction that will free it).
  `NoUnderflow` follows from `NoLeak` by counting, which the proof does.
* `SourcesFollowProgramOrder` recomputes from the buffer alone which register program
  order assigns to a source.
* `ScoreboardExact` relates the two records of readiness in every state between
  iterations, not only at the end of a cycle.
* `RecentBranchesAreShort` excludes the first record of a trace, which gets time 0, the
  time of ways that were never used, and may be replaced although others are unused
  (`cbp2/src/compress/trace.cc:124`; it costs a few bytes), and returns, which may be found
  under another target.
* `FoldExact` is about histories shorter than the bitset. The constructor of O-GEHL
  (`ogehl.hpp:414`) also admits one of exactly its size, for which `compress()` reads the
  position behind the last bit; with `HistSize` equal to the longest length TLC finds the
  property violated.
* `ThetaBounded` is not protected by any test in the code: `_theta` is only
  decreased on a right prediction with `|sum| <= theta`, impossible at -1.
* `Learns` speaks of every predictor of a line-up at once. For the tournament predictor
  it holds from any garbage, since a counter below or above its range is clamped by
  the first training; but a counter of garbage may say anything before that.
* `PredictsAsDriver` is about the table predictors. It relates `predictor`, trained at fetch, to `driven`, which has seen only
  retired instructions: the difference is exactly the branches in flight, in order.
  It would fail if a fetch that is refused asked the predictor, or if wrong-path
  instructions were fetched, which this machine never does.
* `ResetRestores` needs that the free list has its initial length when the loop ends,
  and that fetch cannot still be suspended then.
* `HistoryExact` is limited to folds that fit a word and to as many entries as a move
  keeps without overlap (31072 of 131072 in the program: the program's longest
  histories exceed this and degrade after the first move), and exempts what
  follows a return from a kernel that has moved the buffer.
* `Seznec!TypeOK` holds every counter to its width but one. `WORTHHYBRID` is never initialised
  (`seznec_ogehl.h:211`, not in 228-312), so its seven bits say nothing of where it starts, and
  `ctrupdate()` leaves alone what is at or beyond a bound: from beyond the upper one it can only come down, from
  below the lower one only come up, and it is in its `int8_t` that it stays. A test for equality with
  the bounds would let it overflow.
* `LoopConfident` reads confidence as a statement about the past, in terms of the ages of the
  outcomes of a loop's branch (the latest has age 0): `c` means `c + 1`
  complete loops of the same length.
* `ThetaPositive` holds because a sum is odd (an odd number of odd terms), so that none
  is below a threshold of one; the code has no bound of its own.
* `ThetaAccountsForUpdates` gives the threshold as a function of what has happened:
  its distance from the start is the number of times the counter overflowed.

## 5. Proofs

All theorems hold for every value of the constants that the named assumptions admit.
Every invariant and every action property that a run checks, and both refinements,
is also a theorem. Four of them need a hypothesis on the constants beyond the
assumptions of the modules; each is a named operator, stands in the theorem's
statement, and is satisfied by the run that checks the property:

| hypothesis | theorems | why the code needs it |
|---|---|---|
| `OneShortLength` | `FoldExactHolds` | a fold is kept for one history length that is shorter than the bitset; what happens when lengths change is the finding of `folded_switched` |
| `LengthsFit` | `HistoriesAgreeTheorem` | as above, for the lengths of GEHL |
| `ComeOutEven` | `IndexStaysInRange`, `EachUsedOnce` | in an uneven configuration `at()` throws (section 6) |
| `ClockNeverWraps` | `RecentBranchesAreShortTheorem` | `now` is an unsigned int; a trace has fewer than 2^32 branches |

**ProcessorProofs** (assumptions `SizesAssumption`, `RecordsAssumption`).
`TypeCorrect` is inductive by itself. `Conserved` = `TypeOK`, `NoSharing` and `NoLeak` is
inductive; the work is in `RenameDest` (a register goes from the free list to the map
table and another from there to the pending ones), lifted to the two destinations of
an instruction and to commit. `FreeListSuffices` counts: by `NoLeak` the physical registers
are covered by the map table, the free list and the pending ones; with an empty
free list and fewer than `RobCapacity` entries there would be too few.
`FetchSuspendedOnlyByBranch` needs that `nFetchReady < 0` is never counted up to zero and
that nothing is fetched behind the branch; `AssertionNeverFails` is a consequence.

`AgesConsecutive` and `TimesOrdered` (fetch before issue before
done, none in the future) give `RetirementInOrder`. For the scoreboard, `Conserved` is
strengthened by `DestsHeld` (a destination in flight is mapped, or pending in a younger
instruction) and `DestsDistinct`; with these no two instructions in flight write the same
scoreboard entry, and `ScoreboardExact` is inductive. `OperandsAwaited` (RAW) and
`StoresAwaited` (memory) rest on it.

**DataflowProofs** (the same assumptions). A position of the reorder buffer stands for a moment of
program order. `ValueFrom` gives, for every position and every architectural register, the
physical register an instruction at that position would read: what the first writer
from there on has displaced, or the map table's. `SourceInv` (every instruction in flight
has read what `ValueFrom` gives for its position, every destination is what it gives for
the next) is inductive, with `Conserved`, and `SourcesCorrect` follows. For the values,
`FreshInv` says that an instruction's destination is never the register of its own or an
earlier position, so no late issue overwrites what an older instruction has still to read;
`DataInv` that an issued instruction's result is in its destinations as of its done cycle
(`ResultsInPlace`), that every other register is settled (`OthersSettled`), and that what an
issued instruction has read its sources still hold (`ReadsKept`, from `RawOrder`).
`PipelineImplementsSequential` is the refinement: the committed registers are the
values at the first position, a commit moves it by one, which is one
instruction of `Sequential`, and every other step leaves them alone. `DelayTheorem` rests on
`Countdown`: `nFetchReady` is what remains of the delay when `fetch()` next starts.

**PredictingProofs** (the same assumptions). `ResetInv` adds to conservation and suspension
that fetch is not suspended once the stream has ended (`NotSuspendedAtEnd`) and that nothing
is in flight at the exit. Then `FreeListBound` and its counterpart `FreeListLimit` (an
injection from the map table and the free list into the registers) give the free
list exactly its initial length, and `reset()` maps the state to an initial one, from where
the invariant holds again. `ResetTheorem` and `PredictingNotShared` follow, for
machines with too few registers as well, and any table predictor. `PredictsAsDriverTheorem`: `DriverInv` says that
there are predictors, one for each position of the buffer, that lead from `driven` to
`predictor` (`Drives`), each of which would have got wrong what is marked. A fetch adds one
at the end, a commit drops the first. They are those of the recursive `InFlight`, since
no two such sequences differ at a first position (`DrivesUnique`).

**FoldingProofs** (the assumptions of `FoldedHistory`). A folded history is a sum: bit `p` of the
fold is set when an odd number of set bits of the history fall on `p` (`Meet`,
`OddSize`). A step of the history moves every position up by one, which moves where it falls by
one around the width (`PositionMoves`), and only the youngest and the oldest bit are counted in or
out (`MeetAfter`). `CompressFolds` draws the conclusion: what `compress()` makes of the fold of the
old history is the fold of the new one, for every width, length and table number. Counting odd
sets replaces induction over the length (`OddToggle`, `OddShifted`). `FoldExactHolds` then only needs
that no geometry changes its length; `RecentKeptApartHolds` that turning one
direction turns one bit, that of its position, and that the last `n` have positions of their own,
because the shift is prime to the width (`ShiftIsPrime`, `PositionsApart`).

**PredictDriverProofs** (assumption `LineUpsAssumption`). `HistoriesAgreeTheorem` is the composition of
`CompressFolds` with `gehl.h`: the folds of all tables, which `update()` keeps after every branch, are
those of the one history that the predictor also keeps whole. `SameGshareTheorem`: every
predictor keeps its kind and sizes, and equal states have equal indices, so that
`UpdateGshare` and `UpdateHw6` keep them equal, for every size and every address.
`TournamentPartsTheorem`: a tournament's parts keep counters in 0..3 (`PartsFormed`), where
the 8-bit step that `tournament.cxx` clamps is the step of the single predictors, so each
part goes through the states of the predictor of its kind and sizes that runs beside it.

**SeznecProofs** (assumptions `HistoryAssumption`, `SeznecAssumption`). `HistoryInv` says of the
position that it is within the first `Room` ones, of the buffer that it holds `seen`
behind the position, and in kernel mode also `seenSave` behind the position saved, which lies
above (until the kernel moves the buffer). `MovedType` shows that a move leaves the first
entries in order although it copies over its own source. `BufferKeptTheorem` is the first
half of `HistoryExact`; `WithinBufferTheorem` says that no access is outside the buffer, also after
a torn return. `HistoryOfPredictor` is the composition: in the whole predictor the history
takes only steps of `HistorySpec`, so both hold there. 
`HistoryExactTheorem` adds the folds (`FoldsInv`): for every fold that fits a word and whose length a
move keeps, the fold is that of the entries `seen`. An entry has several bits, so the sum ranges
over pairs of an age and a bit (`Meet`); `FoldFollows` is one update: every pair grows older, the
entry that reaches the fold's length is counted out at its own bits, the new one is counted in.
That the entry counted out is the one that was counted in is what `HistoryInv` gives
(`OldestRead`). `HistoryExactInPredictor` carries it over to the whole predictor.
`LoopConfidentTheorem` is about ages. An outcome's age counts how many outcomes of the same loop are
younger. `Tells` relates an entry of the loop table to the past: of the last `(confid + 1) *
NbIter + CurrentIter` outcomes exactly those whose age is a whole number of iterations
above `CurrentIter` ended the loop. A step adds one to every age and the entry remembers at most one
outcome more (`LoopStepAges`); an entry that has seen no loop end has no confidence (`Started`).
`ThetaPositiveTheorem` rests on parity: the threshold starts odd and moves by two, and the sum of
an odd number of odd terms is odd, hence never 0, the only value a threshold of 1 would call
unsure. The sum is a recursive function over sets; it is taken one size after the other
(`SumExists`, `SumParity`, `SumIsOdd`). `AllocationTheorem` needs `TagInv`: the indices and tags of a pending
prediction are those that the tables and folds still give when `update()` recomputes the tag,
since nothing moves the history in between. `TypeCorrect` rests on `TypeInv`, one conjunct for each
part of the predictor, with `TagInv` for the indices and `HistoryInv` for the position. `CounterStep`
keeps a counter within its width, `ByteStep` keeps `WORTHHYBRID`, from anywhere in its byte, within that byte;
the clauses of `SeznecAssumption` about powers of two are what the provers cannot compute.

**TraceCodecProofs** (assumptions `TableAssumption`, `TraceAssumption`). The invariant
has two cases: between records both sides are equal and the pipe is empty, or one
record is under way and `enc` is `AfterCompress(dec, r)`, the pipe its compressed form.
The lemmas `FoundIsRead`, `InFullIsRead` and `RecordIsRead` show that the decoder's update
undoes the three forms a record is written in, modular patches included. `LosslessTheorem`,
`InStepTheorem` and `NeverAbortsTheorem` follow. `NoDuplicatesTheorem` is about one side
alone: a record is entered only when no way of its set holds its branch. These hold for any table, stack and
word of at least four values.
`RecentBranchesAreShortTheorem` is about what least-recently-used replacement keeps. `Dated`: the clock is the
length of the trace, every time in the table is that of a use of its set, and no two entries of a
set have the same. `Held`: a branch is in the set it was predicted from, with a time not before its
last use there, or the set has been used `Assoc` times since. An entry is only replaced when no time in
its set is less, so that every other way has a later one, and these are `Assoc - 1` different uses
(`OthersUsedSince`, by an injection); the replacement is another.

**OgehlProofs** (assumptions `SizeAssumption`, `WidthAssumption`).
`IInv` adds to the types `IndexKept`: a pending prediction's indices are those
`TableIndex` would still compute. That is why `TrainsReadCorrect` holds although
`update()` computes them anew. `ThetaNeverBelow` strengthens `ThetaBounded` by nothing but the
type and `ThetaAccounts` by the range of the threshold counter between updates (never
saturated). `GehlRefinement` is the refinement of `Gehl`: without adaptations the threshold and
the choice of lengths stay what they are (`Fixed`), masking the path with the length alone is
masking it with the shorter of length and `MaxPath`, and the first lengths of a longer
geometric series are those of the shorter one. The last is about a recursively defined
function; it is shown with the least position at which the two would differ
(`GeometricExists`, `GeometricPrefix`). `WidthAssumption` states that `2^(bits-1)` is a
positive natural number; TLC evaluates it in every run.
For `makeTables()`, `MakesClosedForm` shows that the loop's counter is the number of tables so far that
took an additional length (`Rank`), from which the closed form in `Lengths` gets a table's index.
`IndexStaysInRange` and `EachUsedOnce` rest on `Spread`: when the additional lengths come out even, the
tables that take one are the multiples of the jump, and their ranks are 1 to the number of
lengths (`MultiplesCount`).

**Only model-checked**: liveness (`Terminates`, `Learns`), which needs fairness and is beyond the
provers here, and the four findings, which are counterexamples. The codec's theorems
are about `Spec`, one file; `FilesSpec`, where `Lossless` fails, is the finding.

## 6. Not modelled

* Command lines, printing, statistics, `popen` and decompression programs, debug strings
  (`_debug` is uninitialised in `cbp2`'s simulator; with garbage there the tournament predictor
  prints its histories, `tournament.cxx:139`, which asserts that they fit its buffers),
  `bitSize()`, dead code (`getIndex()`, `fetch_pathbits()`, `gehl_index_old()`), and the
  unit tests and scripts themselves.
* The parsing of a line of the trace (`instruction.cxx`): a record is what it yields.
* In GEHL, more tables than indices (bounds of the counters are looked up with the wrong
  subscript) and in O-GEHL more index bits than tag bits: out of range in the code, in no
  configuration of the repository; excluded by `GehlAssumption` and by the choice
  of a tag for every index. `MakeTables` is run for the even configurations: in an uneven
  one (`ogehl.hpp:365-389`) an index leaves the list of lengths and `at()` throws.
* In Seznec's predictor, `age` and the statistics under `MYOWNSTAT`, which nothing reads; the
  answer for an instruction that is not a conditional branch, which is the last
  one's and is not read either; the overflow of `TICK` and `Seed`; the
  computation of the lengths with `pow()`, whose results are constants here.
  `predict.cc` calls `update()` for every micro-op, not only for branches, so that all of them enter
  the history as taken: the model does the same.

## 7. Plan

Done: 1. `Processor`, `Sequential`, `Dataflow`; 2. `TraceTable`, `TraceCodec`; 3. `Folding`,
`FoldedHistory`, `Lengths`, `MakeTables`, `Gehl`, `Ogehl`; 4. `Predictors`, `PredictDriver`;
5. `PredictingProcessor` with `reset()`; 6. `SeznecHistory`, `Seznec`; the theorems of section 5.

Left: `reset()` followed by a trace as a refinement of `Sequential`; a lossless channel as an abstract
specification of the codec; the folds and counters of `Ogehl` while it adapts.

## 8. Findings

| run | what it shows |
|---|---|
| `codec_files` | `init_trace()` does not clear `last_one`: the second file of one `ct -d` is restored wrongly |
| `ogehl_uninit` | `use_long` is passed on uninitialised: history lengths may change at any update |
| `folded_switched` | after a change of length the fold keeps directions that have left the history |
| `seznec_word` | 26 of the 96 GEHL folds and 7 of the 19 TAGE index folds shift bits out of a 32-bit word and do not fold the history |

Smaller disagreements, without a run: the comment at `seznec_ogehl.h:465-466` has the
alternate prediction used when `USE_ALT_ON_NA` is negative, the code below it when it is
not.
