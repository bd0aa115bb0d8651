# A verification of rtsys

rtsys (`src/`) is a set of C modules for small and safety-critical programs:
FIFOs (`rtfifo`), hierarchical state machines (`rthsm`), a minimal unit-test
harness (`rttest`) and the platform layer under them (`rtplf`). This directory
holds TLA+ specifications translated from that code, model-checking
configurations for them, and proofs.

Paths below are relative to the repository (`src/rthsm/...`).

## The system

rtsys is a library without threads: it takes no lock, starts no thread, and is
meant to run bare-metal (README.md). What makes it hard is not concurrency but
the number of *situations* its small loops must get right: indices that wrap,
trees of any shape, callbacks that call back, writes that fail half-way.

| component | state it keeps | operations | who calls it |
|---|---|---|---|
| `rtfifo`, regular (`RTFifo`) | `head`, `tail`, `size`, `capacity`, `itemSize_B` (uint16_t), the caller's buffer | Init, Push, Pop, Size, Capacity, IsEmpty, IsFull | the program; `rthsm` for its event queue |
| `rtfifo`, small (`RTSmallFifo`) | the same with uint8_t | the same | the program |
| `rthsm` (`RTHsm`) | the array of states with cached `parent`/`initial`/`toState` pointers, `global`, `current`, the event queue | RTHsmInit, RTHsmPushEvent, RTHsmStep (RTHsmReset is declared, and defined nowhere) | the program; its own callbacks push events |
| `rttest` runner | the list of registered groups | RTPrivTestRegisterGroup, RTTestRun | `rttestmain.c`, the constructors of the test groups |
| `rttest2text.py` | the map of test names, the position in the report | MapBuilder.parse, RttParser.Parse | the developer, on the octets the runner wrote |
| `rtplf` | none | RTMemcpy, RTStr..., number conversions, RTNow_tick, RTNow_us, RTTickFrequency_Hz, RTPanic | everything |

Interactions:

- `RTHsmPushEvent` and `RTHsmStep` push and pop the FIFO handed to `RTHsmInit`
  (rthsm.c:210, 230).
- `RTHsmStep` calls guards, exit actions, transition actions and entry actions
  of the program. They may push events while the step is under way.
- `RTFifoPush`/`RTFifoPop` copy items with `RTMemcpy`, which copies the shorter
  of two sizes.
- `RTTestRun` writes the report octet by octet through a callback that may
  refuse an octet; `rttest2text.py` reads that report.
- A broken `RTASSERT` anywhere calls `RTPanic`, which ends the program.

Behaviours that are hard to test:

- FIFO: every combination of head, tail and size at every capacity; the ends of
  the counters' ranges; the offset product for large FIFOs; partial items.
- HSM: the exit/entry order over every shape of tree and every pair of states;
  the nearest common parent; a current-state pointer that is stale while the
  callbacks run; which of several answering states takes an event; termination;
  loops that end only because RTHsmInit refused cycles and deep nestings.
- Harness: a write refused or lost at any point of the report, aggregation of
  failures over groups, truncated reports.
- Platform: conversions at the limits of 32 bits, string ends.

What makes each part correct: the FIFO is a bounded queue; the HSM calls the
entry and exit actions a statechart prescribes, is at rest only in a fully
entered configuration, always returns and terminates for good; the runner's
report, if complete, says what happened, and the reader takes no report that was
cut short for a complete one; the conversions agree with their definition.

`PROJECT.json` lists the hazards with their lines and the properties that watch
them.

## Modules

| module | what it is |
|---|---|
| `BoundedQueue` | abstract: what `rtfifo.h` promises |
| `RTFifo` | the ring buffer, with the widths of the counters and of `int` as constants |
| `RTSmallFifo` | the uint8_t copy of that code: offsets always fit an int |
| `RTFifo_proofs`, `RTSmallFifo_proofs` | theorems about them |
| `Powers` | powers of naturals, for shifts and widths |
| `Sublists` | what a loop picks out of a list |
| `StateTree` | a machine description and the walks from a state up to the global state |
| `Statechart` | abstract: the entries and exits `rthsm.h` promises |
| `RTHsm` | the engine, callback by callback |
| `RTHsmArray` | `RTHsmInit` on the array of ids, loop by loop, and the engine on what it leaves |
| `RTTest` | the test runner: registration and the report |
| `RTTestReader` | the reader of source files and report, `rttest2text.py` |
| `RTTestRound` | both, joined by the report |
| `RTPlf` | strings, numbers and time, `rtplf.c` |
| `MCRTHsm`, `MCRTHsmArray`, `MCRTTest`, `MCRTPlf` | machines, arrays, test programs and strings for TLC |
| `RTHsm_proofs` | lemmas about the walks in a tree; theorems about the engine, which implements `Statechart` |
| `RTHsmArray_proofs` | theorems about the initialisation, and about the engine after it |
| `Powers_proofs` | powers, quotients, remainders and bits; recursive functions and least elements |
| `RTTest_proofs`, `RTTestRound_proofs` | theorems about the test runner, and about the reader of its report |
| `RTPlf_proofs` | theorems about strings, numbers and time |

Operators described as *faulty variants* in comments are wrong on purpose and
used by no specification: putting one in the place of the definition after it
is how each property was shown to be able to fail (`mutants` in PROJECT.json).

### RTFifo and RTSmallFifo

The variables are the fields of the structure, plus the memory behind `buffer`
byte by byte, the last return value, and the destination of the last pop. One
call is one action: nothing re-enters `rtfifo`. `RTFifoInit(cap, n)` may come at
any time and divide the same memory (`Memory` bytes) into another number of
items of another size, as long as they fit (`Fits`: rtfifo.h asks the caller for
that); what the memory holds stays. `RTFifoPush(n, x)` gets an item of `n`
bytes, legal or not (0 and one too many panic), and writes `n` of the slot's
bytes over what was there. Arithmetic is as in C: `Increment`/`Decrement` wrap
at `CounterMax`, and an offset above `IntMax` has no defined result, so that the
model stops with status `undefined`. NULL-pointer assertions are left out.

`RTFifo => BoundedQueue` is a refinement: `Contents` walks `size` slots from
`tail`. An item pushed with fewer bytes leaves the rest of the item
unspecified in the abstract queue; the code delivers stale bytes there.

### RTHsm

`hsm` is the description the program hands over (any member of `Machines`),
never changed; `RTHsmInit` accepts or panics, in one step here. Then one action
per callback: a call of `RTHsmStep` is a step up to the first callback, one per
exit action, one for the transition's action, one per entry action, and one for
the return. `phase` is the program counter in between, `transition`, `state` and
`i` are the C locals. `current` keeps the old state until the entry actions down
to the destination have run, as `hsm->current` does. Every callback may push
any number of events, until the queue is full.

- Ids are resolved to states: how they are is `RTHsmArray`'s subject.
- An event is its id; its parameters only travel to the callbacks.
- A guard answers anything in 0..GuardMax. Guards may not have side effects
  (rthsm.h:143-151), so evaluating all of them is part of the step that pops
  the event.
- The queue is a bounded sequence. `RTFifo` is proved to implement it.
- `active` is a history variable: the states whose entry action has been called
  and whose exit action has not. The engine never reads it.
- Callbacks do not call `RTHsmStep`: nothing in the code prevents it, and
  nothing says what it should do (listed as a hazard).

`Statechart` is the abstract machine: leave (innermost first, nothing that
surrounds the destination), act, arrive (outermost first, on the way to the
destination or into initial sub-states), rest (destination reached, no initial
sub-state left), stop in a final state. `ImplementsStatechart` maps the engine's
phases to it.

### RTHsmArray

`states` is what the program wrote in the array: ids. `RTHsmInit` keeps its
pointers in private fields of the same array, and these are `hsm.parent`,
`hsm.initial` and `hsm.transitions`: all null at first, filled state by state.
`loop` and `index` say where in the three loops of the function (and in the
block between the first two) it is; each turn is one step, and an assertion
that fails in it ends the program (`Panics`). `Lookup` finds the first place of
an id, as `rthsmLookupStateFromId` does. When the last loop is done, the steps
are those of `RTHsm` on the machine in the array, which is why this module
extends that one: nothing of the engine is written twice.

The code accepts a state whose own id is 0 (`RTHSM_NULL_STATE_ID`), which
rthsm.h:83 and 228 forbid: nothing can refer to such a state, and the
properties hold with it (`WellFormed`, which excludes it, is only used to say
which arrays may not be refused).

### RTTest, RTTestReader and RTTestRound

`RTTest` has one step per call the runner makes: of `wrOctet`, of a test case,
of an entry or exit action. `pc` says which comes next; `group`, `i`, `id`,
`asserted`, `resultBits` and `ret` are the C locals (`ret` of the three nested
functions is one variable, because each is assigned to the next before anything
reads it). An octet has `OctetBits` bits, so a group id has `4 * OctetBits` and
an octet of results stands for `OctetBits` test cases, as 32 and 8 in the code.

`wrOctet` may write the octet, refuse it (`RTFalse`: rttest.h:92-94), or, as
`writeOctet` of `rttestmain.c` does when `write()` fails, accept and lose
it. Every octet has a `write()` of its own and nothing is remembered, so each is
lost or not whatever happened before. A test case or a group action may panic,
which ends the program. `log`, `written` (the octets that were accepted, lost
or not) and `refused` are history variables. `FullReport` says what should be
written, computed from `log` without the runner's counters.

The runner's properties speak of `written`, and so hold whatever is lost. The
reader has `report` only, which has no check sum: if the octets of a whole group
are lost and those after it arrive, it says PASS, and no property can forbid
that. `PassIsTrue` and `FailuresAreNamed` are about an output that gives up for
good, as on a full disk or a closed pipe (`Unbroken`: the report is a
beginning of what was written).

`RTTestReader` first builds the map of groups from the source files as
`MapBuilder.parse` does, line by line (`ParseLine` is one turn of its loop, and
`MapOf` the loop; `inGroup`, `group` and `groups` are its locals), and stops
where that raises.
A line is a record that says which of the macros it holds, and for the start of
a group whether its id is a number (`valid`); taking it apart (`splitLine`) is
left out, as is the wording of what is printed. Then it takes
the octets one by one as `RttParser` does. The map has the test cases in the
order in which they are written, the runner runs them in the order of
`RTT_GROUP_END` (`cases`). It is the script as Python 2 runs it; under Python 3
a report opened as a file is octets, never equal to the text of the
four-character code.

`RTTestRound` lets the reader follow the runner at any distance, as through a
pipe. What the reader's source files hold need not be what the program was
built from.

### RTPlf

The functions have no state of their own; the state is the caller's: one array
of characters (`buffer`), on which the functions are called in any order, so
that what one leaves behind the terminator is there for the next. `call` keeps
the last call with its arguments and its result, `holds` is a history variable:
the number printed last and whether it fitted.

`Bits`, `LongBits`, `RTSTRMAX` and `Room` are the 32 bits of a number, the 64
of a `long`, the 50000 characters of a string and the length of the array.
Characters are ASCII codes, since the code computes with them. `sprintf`,
`sscanf`, `strncpy` and `gettimeofday` belong to the C library and are modelled
by what they do, those on numbers as glibc does: `sscanf` skips white space and
takes a sign of either kind and figures in either case (`Spelt`; they are
printed in lower case, `Digit`); `"0x"` without figures is 0 in base 16; a
numeral too long for a `long` gives the largest one, and with `%ld` and a minus
the smallest. What it gives is cut to `Bits` bits and reported as parsed, as the
code does. `RTStrcmp` and
`RTStrncmp` look for the first difference; where there is none up to the end of
the shorter of the two objects, the code reads memory that belongs to neither,
and the result is any that this can have.

Left out: NULL for the array or for the number to be read, with which the
functions change nothing; a base that is not one of `RTBase`, which is taken
for 10; and what `RTPanic` does to end the program.

## Runs

| run | question | size |
|---|---|---|
| `fifo_small` | is the ring buffer a queue, over the whole range of its counters, with partial items and illegal calls? | counters 0..3 (UINT8_MAX scaled), six bytes of two values divided in every way (up to three items of two bytes, or two of three) and divided anew at any time, IntMax = CounterMax^2; every initial content of the memory |
| `fifo_wide` | the same where offsets can overflow: are items delivered whole and in order up to that call? | the same, with IntMax = 3, less than the offset 2*2 of the third item of two bytes (65534*65535 > 2^31-1 in C) |
| `fifo_offset` | *fails*: rtfifo.h:70-71 promises 65,535 items of 65,535 bytes | as `fifo_wide` |
| `hsm_charts` | entry/exit discipline, rest, termination, return | all trees of 3 nested states (all depths up to RTHSM_MAX_NESTED_STATES = 3), all initial sub-states, no or one final state, all transitions internal or not, callbacks that push, queue of 1 |
| `hsm_arrays` | does RTHsmInit stop what the engine cannot run, and nothing else? which transition is taken; which events are given up | arrays of 5 states with ids in no order: every choice of parents (cycles, nesting of 4); every id in every wrong place (duplicate, unknown, null, misplaced initial sub-state, several roots, transitions from and to the global state); up to 2 guarded or unguarded transitions on each of two states, guards answer 0..2, callbacks push up to two events, queue of 2 |
| `hsm_self` | *fails*: a self-transition calls the exit action of its state, and where source and destination differ the internal flag is ignored (rthsm.h:105-111) | 2 nested states |
| `hsm_final` | *fails*: the engine stops when it transitions to a final state (rthsm.h:90-91) | 2 nested states |
| `test_round` | do what is written, the return value and the reader's verdict say what happened? | octets of two bits, marks 1, 2, 3; two groups of two and three cases, with an entry and an exit action, in both orders, with and without a selection; every outcome of every case; refusals, panics and lost octets anywhere, with one gap at most (below); source files of the program, and eight others (other order, missing groups, groups left open, nested or twice, an id that is no number, stray cases and ends) |
| `test_count` | *fails*: RTTestRun returns the number of failed test cases (rttest.h:190) | the same two groups, with nothing lost and nobody reading (`RunnerAlone`) |
| `plf` | do numbers and strings keep their value, their order and their terminator? | 4-bit numbers, 6-bit longs, an array of 5, RTSTRMAX 6; four numbers with both ends of the ranges, 12 strings (empty, every prefix, either case, white space and a sign, too large for each width, longer than the array, longer than RTSTRMAX), sizes 0, 1, 2 and 5, all bases; calls in any order |
| `plf_strcmp` | *fails*: strings none of whose characters to compare differ compare as 0 (rtplf.h:363, 368, 376) | as `plf` |
| `plf_zero` | *fails*: a text that is not octal or hexadecimal is decimal (rtplf.h:287), so "0" is 0 | as `plf` |

Why these bounds are enough to be interesting: with three slots and counters
that end at three, the indices wrap at the capacity and the increment reaches
the end of the field; two bytes per item tell a whole item from a partial one,
and two values per byte one item from another. Six bytes are three items of two
bytes and two of three, so that a division leaves the bytes of another one
behind.
Two paths in a tree are told apart by at most: a common part, two branches, and
sub-states below each end. Nesting is limited to three in the code, so three
nested states give every nesting; larger trees are covered by the proofs. Five
states in an array are four nested ones, one too many for a branch. A step looks
at one event only; in a queue of one event a callback can push one more or finds
it full, and `hsm_arrays` has room for two. The numbering of states in `MCRTHsm` (a parent before its
children) leaves out no tree up to the names of states.

For the report, two bits per octet make two cases fill an octet and three fill
one and a half; ids and result octets take every value of a mark, and one id
(228) begins with the mark of the end. The constraint `OneGroupUnlessGood` reads
the source files that are not the program's own with programs of at most one
group: which group a mistake in a source file is about does not depend on the
others. The constraint `OneGap` bounds the runs in which lost octets are followed
by others: one gap, of any length and anywhere, in a run that nothing else
disturbs, with a report that is read when it is complete. Losses at the end are
not bounded.

For the platform functions, an array of 5 just holds a 4-bit number in base 2
with its terminator and is shorter than the longest text; it is also shorter
than RTSTRMAX by one, so that no text in it is too long for RTStrlen (a source of
RTStrncpy can be), and that `Terminated` stays within RTSTRMAX in a longer array
rests on its theorem; the limits of 4 bits and of 6 are as far apart as it takes for
a numeral to pass one and not the other.

Deadlock is checked except where a failed assertion, undefined behaviour or the
end of the test run stops the program.

Fairness: `FairSpec` assumes `WF_vars(Engine)`: once `RTHsmStep` has been
called, it goes on, that is, each callback returns. The code is a sequence of
calls on one thread, so this is what a terminating callback gives. Nothing is
assumed about how often the program calls `RTHsmStep` or pushes.

`RTTestRound!FairSpec` assumes that a test run that was started goes on (test
cases and `wrOctet` return or panic: one thread again) and that the reader, a
process of its own, is scheduled. Nothing makes the program start a run.

### Disagreements with the documentation

The failing runs each show one: see `findings` in PROJECT.json. In short:

- rthsm classifies a transition by comparing its destination with the *current*
  state, while rthsm.h speaks of its *source*. Hence a self-transition of a
  composite state does not leave it, and a transition from a state around the
  current one to the current one obeys the internal flag. `SourceDecides` has a
  conjunct for each, and neither holds; TLC prints the second, which takes one
  callback less.
- The final flag is looked at on the current (innermost) state only.
- The offset of a slot in a regular FIFO is computed in an int.
- `RTTestRun` forgets the failures of all groups but the last.
- `RTStrcmp` and `RTStrncmp` do not stop at the end of equal strings, and
  `RTStrncmp` looks at its size only to see whether it is 0.
- With `RTBASE_AUTO` the text "0" is not a number, so that `rttestmain.c:41-42`
  panics when it is given the group id 0.

Where such a disagreement touches a property that passes, the property says only
what code and header agree on: `ActionBetween` asks that the flag is obeyed only in a
transition that the current state declares, and `ComparesInOrder` speaks of
differences within the characters to compare.

Others have no run of their own.

- The two answers of `RTStrncpy` are the other way round in rtplf.h:348-349:
  the code returns RTTrue when the string was truncated (rtplf.c:272, 276).
  `CopyIsTold` asks only that the answers tell the two outcomes apart, which
  both agree on.
- `writeOctet` of `rttestmain.c` answers RTTrue for an octet it could not write
  (line 24), where rttest.h:92-94 wants RTFalse, so that the tests go on.

In rttest, the check for duplicate group ids
(rttest.c:103-105) leaves out the last registered group; the id of a group is
written after its mark was refused, where rttest.h:92-94 says that the run
stops, so that an id which begins with the octet of the end mark makes the
reader believe it is the end (`IdTakenForEnd`, which `PassIsTrue` and
`FailuresAreNamed` except: the mark of the last group begun was refused, and the
octet in its place is the mark of the end); and runner and reader order test
cases differently when `RTT_GROUP_END` lists them in another order than they are
written in (`Listed`).

## Proofs

Everything below is checked by TLAPS for every value of the constants, under
the assumptions the modules state by name:

- `FifoAssumption`, `SmallFifoAssumption`: the bounds are naturals, a byte has a
  value, and, for the small FIFO, an `int` holds the square of the largest
  field;
- `NoneAssumption`: the null pointer is no state;
- `HsmAssumption`: the machines are records of the declared shape, callbacks
  push events of the program, the queue holds at least one, and None is no
  transition. It does not say that a machine is well formed: `RTHsmInit` does;
- `ArrayAssumption`: the states are the places of an array, and the fields of
  its elements hold ids, any ids;
- `RTTestAssumption`: the types of the groups, the marks and the selection, and
  that the mark of a group is not the mark of the end (rttest_format.h);
- `SourcesAssumption`: the lines of a source file are of the four kinds the
  reader tells apart, in any order, and the id of a group is a number or not;
- `PlfAssumption`: the widths are positive, a long is at least as wide as a
  number, the tick frequency fits a number, a size passed with the array is not
  larger than the array, strings are of characters other than NUL.

| theorem | what it says |
|---|---|
| `RTFifo_proofs!TypeCorrect`, `RingCorrect`, `FullOrEmptyCorrect` | the fields keep their ranges; head is `size` slots after tail; head = tail exactly when empty or full |
| `RTFifo_proofs!ImplementsBoundedQueue` | every call is a call of the bounded queue, or changes nothing it can see |
| `RTSmallFifo_proofs!SmallOffsetDefined`, `SmallImplementsBoundedQueue` | with uint8_t fields no offset overflows, so the small FIFO is a queue throughout |
| `RTHsm_proofs!TypeCorrect`, `AssertionsNeverFail` | types; no walk of the engine leaves the tree or its three levels, and a common parent exists |
| `RTHsm_proofs!SettledCorrect`, `ActionBetweenCorrect` | the states entered, at rest and when a transition's action runs |
| `RTHsm_proofs!InnerFirstCorrect`, `TerminatedForeverCorrect` | inner answers shadow outer ones; a final state is for good |
| `RTHsm_proofs!EventAnsweredCorrect` | no event is refused that a state around the current one answers without a guard, and none is discarded that one of them has a transition for |
| `RTHsm_proofs!EngineImplementsStatechart` | every callback is one a statechart allows there, and every return is at rest |
| `RTHsmArray_proofs!InitAcceptsCorrect` | an array RTHsmInit lets through is a tree of at most three levels whose pointers say what the ids said |
| `RTHsmArray_proofs!ArrayAssertionsNeverFail`, `ArraySettledCorrect` | so that no assertion of the engine fails on it, and the states entered are right |
| `RTHsmArray_proofs!InitRejectsCorrect` | and nothing is refused without reason: every array RTHsmInit stops breaks one of the documented constraints |
| `RTTest_proofs!TypeCorrect` | ids stay in 32 bits, result bits in an octet, the report is octets |
| `RTTest_proofs!ReportIsWhatHappenedCorrect` | a run without error ran every selected group to its last case, and wrote, octet for octet, what each case did |
| `RTTest_proofs!RefusalReportedCorrect`, `NoTestAfterRefusalCorrect` | RTTestRun returns -1 exactly after a refusal, and runs no test after it |
| `RTTest_proofs!AbortStopsItsGroupCorrect` | an assertion fails the later test cases of its group, and of no other |
| `RTTestRound_proofs!MapIsDeclaredCorrect` | the reader's map has exactly the declared groups with their cases in order; a disorderly file is refused |
| `RTTestRound_proofs!PassIsTrueCorrect` | of a report with no gap (`Unbroken`), "UNIT TEST PASS" is said only if the run did everything it was asked to, without a failure and without losing an octet; but for `IdTakenForEnd` |
| `RTTestRound_proofs!FailuresAreNamedCorrect` | and the cases printed as FAIL are those that failed, in order; with the same exception |
| `RTTestRound_proofs!NoFalseAlarmCorrect` | the whole report of a program whose groups the reader knows is never taken for a broken one |
| `RTPlf_proofs!TypeCorrect`, `ElapsedCorrect` | results fit their types; the difference of two readings of `RTNow_tick` or `RTNow_us` is the time between them modulo 2^32, over the wrap |
| `RTPlf_proofs!TerminatedCorrect`, `CopiesWhatFitsCorrect`, `CopyIsToldCorrect` | after any calls the array holds a terminated string; RTStrncpy leaves as much of its source as fits, and its two answers tell a whole copy from a truncated one |
| `RTPlf_proofs!PrintedIsCountedCorrect`, `RoundTripCorrect` | a printed number is its numeral, cut at the size, and the result is its length; if it fitted, it is read back as the same number, whatever calls came in between |
| `RTPlf_proofs!ReadsNumbersCorrect` | the number at the start of a text is read as documented, in the base given or guessed, if it fits the type; but for a lone zero. (A number that does not fit is no subject of it: the code cuts it to 32 bits and reports it as parsed) |
| `RTPlf_proofs!ComparesInOrderCorrect` | strings that differ within the characters to compare do so in the order of their first difference |

**FIFO.** The inductive invariant is `TypeOK /\ RingInv`. The ranges of the
fields alone are not inductive, because a push would be free to move `head`
past `tail`; `RingInv` ties head, tail, size and capacity together, and
from it the increments never wrap (`NoWrap`), the slot at head is free
unless the FIFO is full (`HeadIsFree`), and the walk from tail sees an appended
or a removed item. The refinement has one lemma per call.

**HSM.** `Settled` speaks of the engine at rest and is not inductive: in the
middle of a step, the states entered are neither those around `current` nor
those around the destination. `IInv` says, phase by phase, which ones they are:
around the cursor while leaving (`Exiting`, which also says that the cursor
has not passed the common parent), around the next destination parent while
arriving (`Entering`), around `current` while following initial sub-states
(`Traversing`), and around `current` with or without itself on a
self-transition (`OnSelf`). `Ready` carries the tree that `RTHsmInit` accepted.
Every callback has its lemma, with one step per part of the invariant it
disturbs.

The facts about trees come first in `RTHsm_proofs`. The only property of a
machine used for them is `Valid`, the assertions of `RTHsmInit`: the walk from a
state reaches the global state within three levels. Hence the states around a
state are finitely many named ones (`ChainUnfold`), no state is inside itself
(`Acyclic`, `ChainAntisymmetric`), and two walks that meet stay together
(`CommonChain`, `CommonExists`). No recursion and no induction over data is
needed, because `RTHSM_MAX_NESTED_STATES` is a constant of the code; the
proofs split on its levels.

The refinement shows, for each callback, that the abstract `Leave`, `Act`,
`Arrive` or `Rest` is enabled there and has the same effect, using `IInv`.

`EventAnswered` needs no more than that a guardless transition always says go: the
search covers every transition that the states around the current one have for
the event (`Candidates`), so that none of them is left when the engine gives up.

**Initialisation.** `InitAccepts` says nothing until the last loop is done, so
the invariant has a part per loop (`Loading`): which states the loop has
visited, and what is known of those. `CacheInv`: their ids are unique and their
pointers resolved, and `global` is the only one so far without a parent;
`GlobalInv`: there is a global state, with an initial sub-state and no
transitions; `HierarchyInv`: the visited states reach it within three levels and
their initial sub-states are their children; `TransitionsInv`: their transitions
point to the states named. After the last turn these are, together, `Valid`:
what `RTHsm` assumes of a machine it has accepted. Hence the invariant of the
engine holds there, every step of the engine keeps it by the lemmas of
`RTHsm_proofs`, and its theorems carry over to arrays. That a look-up finds the
first place of an id, if there is one, is the least element of a set of
naturals.

`InitRejects` is the other direction: an array that is `WellFormed` passes every
assertion. `WellFormed` tells the level of a state from the outside in (the
parent of a state of level n + 1 is at level n), `RTHsmInit` by a walk from the
state that counts; the proof unfolds both over the four levels there are, and
each assertion that could fail contradicts one conjunct.

**Powers and recursion.** The provers know neither exponentiation nor a
recursive definition, so shifts and widths are powers by a recursive function
(`Powers`), and `Powers_proofs` derives what is needed of such functions from
induction on naturals for a *set* of numbers, where no operator is a parameter:
an iteration of a step function exists and is unique (`Recursion`). The same
lemma gives the loops that pick cases out of a list (`Picked`), the loop over
source lines (`MapOf`) and the concatenation of the groups' reports their
meaning.

**Test runner.** The invariants tie `ret` and `refused` together at each `pc`:
after a refusal `ret` is -1 and the runner is nowhere but at the octets that
follow the refused one and at the end, from where no test case is run; without
one `ret` is no -1.

`ReportIsWhatHappened` speaks of a finished run. The invariant, `Followed`,
says of every place in the code, as long as nothing was refused, which octets
the log accounts for, and that these are the ones written: the four-character code and the reports of the
groups before the current one, then the mark, as many octets of the id as `i`
says, and one octet for each full set of cases (`Told`, `Expected`); that the bits
in `resultBits` are the failures since the last of these octets
(`BitsSoFar`); and that the groups in the log are the selected ones up to
`group` (`UpTo`). What the output then loses plays no part. Each call of
the runner has a lemma. The id is shifted left within 32 bits: that the top
octets seen one after the other are the big-endian ones is `ShiftedOctet`.

**The reader's map.** `ReadSoFar` says, after each line, what `MapBuilder` knows:
which group is open and with which cases, and that the map has the groups closed
so far; or that a line before was out of order. It is proved by induction on the
lines, with one lemma per kind of line. An end with no start since the last one
closes the same group again, as in the code, which does no harm.

**The reader's verdicts.** These relate two programs that never meet: the
runner may have been refused an octet, have lost the last ones or have died
anywhere, and the reader knows only octets. The proof has two halves.

The first is about what was written (end of `RTTest_proofs`). `Laid` says what
stands behind the reports of the first g groups, for every g whose cases have
all run: the report of the next group as far as it is written (`GoesOn`), the
mark of the end of a complete run or nothing (`Ends`), or, when the mark of
a group was refused, the octets of its id without the mark (`Torn`). While
nothing was refused this follows from `Followed`. After a refusal `Followed`
says nothing; `Astray` keeps what is still known where the runner has octets
left to write, and every step that writes one of them is shown to leave a
text that is `Laid`. `Grows` says that a step of the runner changes nothing that was there:
neither in the report nor in the part of the log that it tells.

The second follows the reader. `Reading` says where it is: it has read the
reports of the first g groups, all complete and known to its map, has printed
their failed cases (`MissedTo`), and stands in the report of the next one at the
octet that `pos` says, with as much of the id in `gid` (`IdRead`) or as many
cases in `testno` and names printed (`Part`) as it has read. An octet of a report
without a gap is the one written at that place (`ByteWritten`), so the octet it
reads next is the one `Laid` puts there; that four octets make the id
again is `IdRebuilt`, that a result octet says which of the next cases failed is
`OctetOfTells` of the runner's proof. `Judged` says what a verdict stands for:
"pass" or "fail" is said at a mark of the end, hence of a complete run, or where
the id behind a refused mark begins with that octet; "error", when all groups are known, only of a run with
a `Defect`. At the end of the file, a run without one would still have its last
octet to be read (`NoDefect`). The source files need be right only as the
properties say (`Counted`, `Listed`) and the report only without a gap, since
`Reading` and `Judged` are conditional on that (`Clear`). Each operation of the reader has a lemma.

**Strings and numbers.** `EndsInv` says that there is a terminator within the
array and within `RTSTRMAX`; it is inductive because every function that writes
the array puts one at or before the size it was passed, whatever it wrote
before it. `RoundTrip` needs to know what the array still holds: `HoldsInv` keeps
the numeral printed last as long as nothing overwrites it. The value of a
numeral is defined by recursion over its figures; that printing and reading are
inverse is an induction on places, with quotient and remainder by the base, and that
the run of digits a numeral begins with is unique.

**Only model-checked:** the liveness properties `StepReturns` and
`VerdictReached`, which are out of the prover's reach, as is ENABLED. Every
invariant and every action property the runs check is proved. That `RTFifo`
implements the queue and that the engine works on a queue are proved separately;
their composition is not modelled.

## Not modelled

- Taking a source line apart (`splitLine` of `rttest2text.py`): string
  handling with no state.
- The static FIFO initialisers' truncation of long arrays (rtfifo_priv.h:50,
  73): it happens in the compiler, before any state.
- Console and file output, the command line and exit status of
  `rttestmain.c`, build files: input and output, no logic.
- Re-entrant calls of `RTHsmStep`, and `RTHsmReset`: nothing says what they do.

## Plan

1. *(done)* FIFO: ring buffer, bounded queue, refinement, proofs.
2. *(done)* HSM engine: statechart, engine, families of machines, proofs of the
   safety properties and of the refinement.
3. *(done)* `RTHsmInit` on the array of ids, with proofs.
4. *(done)* `rttest`: registration, runner with a write callback that may fail,
   the reader of source files and report; proofs of the runner's report, of the
   reader's map and of its verdicts.
5. *(done)* `rtplf`: number and string conversions at scaled widths, with proofs.
6. The engine composed with the ring buffer itself, a queue shared by callbacks
   and program: events are handled in the order in which they were accepted.
7. The machine of `src/rthsm/test` as a description, with its documented
   transitions.
