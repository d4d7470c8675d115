# A model of the S.OS kernel

S.OS is a small x86-64 kernel: it is loaded by Limine, draws text on a
framebuffer, sets up descriptor tables and an interrupt controller and halts.
Its one piece of real algorithmics is the kernel heap. The modules here model
the heap, the memory and number functions, the console, the draft of a buffered
printf and the start of the hardware in TLA+; TLC checks them on small instances, and
TLAPS proves all of the checked invariants and action properties, and the refinements,
for every instance (section 5). Paths are relative to the repository.

## 1. Inventory

| part | source | state | operations | what makes it correct |
|---|---|---|---|---|
| heap allocator | `kernel/malloc.c` | page headers, page list per small bin, cell stacks, links of the big blocks | `malloc` `free` `realloc` `calloc` `valloc` | live blocks are disjoint, inside the arena and away from headers and link words; nothing is lost; no assertion fails; the heap grows only when it must |
| skip list of free big blocks | `kernel/malloc.c` 139-337 | `forward[]` of every block, `level` | `findbest` `insert` `delete` | sorted nested chains, exact best fit, delete unlinks everywhere, stale pointers are never followed, every call returns |
| memory primitives | `kernel/util/memory.c` | `pbreak` | `sbrk` `memcpy` `memset` `memzero` | the break never passes the limit; copies and fills cover what was asked |
| number conversion | `kernel/util/util.c`, `xtou64` in `print.c` | a 33-byte buffer | `itoa` `uitoa` `reverse` `xtou64` | the digits denote the number; the buffer is long enough |
| console | `kernel/print/print.c` | cursor, colour, state of the format parser | `Print` `printChar` `printStr` `printInt` `printUint` | every call returns, the cursor stays on the screen, the parser stops at the end of its string |
| drawing | `kernel/print/printbasic.c` | the framebuffer | `tPrintChar` `tPrintStr` `fillScreen` ... | writes stay inside the framebuffer |
| interrupt entry | `arch/x86-64/interrupts.asm`, `idt.c` | IDT, the stack frame | 256 stubs, `handleException` | the handler sees the frame the processor pushed; it does not return |
| hardware set-up | `arch/x86-64/hal.c`, `pic.c`, `apic.c`, `gdt.c` | interrupt flag, controller registers | `initHAL` `initPIC` `initAPIC` `setupGDT` | no interrupt reaches a table or a controller that is half set up |
| serial port | `arch/x86-64/serialports.c`, `util.c` | the transmitter | `writeSerial` | the wait ends |
| entry | `kernel/kernel.c` | - | `kMain` `strcpy` | - |
| printf draft | `randpseudocode.c` (no rule compiles it) | a buffer and an index, static digits | `vfprintf` `push_to_buf` `print_stream_buf` | characters leave in order and once, whatever the writer refuses; the index stays inside the buffer |

Interactions. There is one thread of control. Interrupt handlers print and
halt; none of them allocates and none returns. So the allocator's calls are
atomic with respect to each other, and the hard part of it is not concurrency
but long sequences of legal calls: a structure that is damaged by one call
shows many calls later, in another bin. The allocator gets memory from `sbrk()`,
keeps all its bookkeeping inside that memory, next to the caller's bytes, and
finds it again by masking pointers. A failed `assert()` prints its condition
through `{s}` with the condition as the pointer, that is, it reads address 0:
the kernel stops there, and the models treat a failed assertion as a stop.

Hard behaviours: alignment (a pointer on a page boundary belongs to the page
before), sizes at bin and page limits, exhaustion of the arena, blocks of equal
size in the skip list, forward pointers left over from an earlier stay in it,
loops that end only if a structure is sound, and, outside the heap, interrupts
enabled in the middle of the hardware set-up and cursor arithmetic in unsigned
numbers. `PROJECT.json` lists them one by one at their lines.

## 2. Plan

1. The allocator: `MallocSizes`, `BestFit`, `HeapSpec`, `FreeBlocks`,
   `Malloc`, `MallocInv`, run `malloc`, proofs
   `MallocProofs`. **Done.**
2. The skip list pointer by pointer: `SkipList`, `SkipListInv`, refining
   `FreeBlocks`, proofs `SkipListProofs`. **Done.**
3. `MemOps` (memcpy, memset, memzero and what calloc makes of them), with proofs
   in `MemOpsProofs`, and `Numbers` (itoa, uitoa, xtou64 with their widths), with
   proofs in `NumbersProofs`. **Done.**
4. `Console`: the cursor and the format parser of `Print`, with termination; proofs
   `ConsoleProofs`. **Done.**
5. `Interrupts` and `Boot`: the frame of each stub; the order of cli, lidt, sti and
   the controllers' initialisation words against arriving interrupts. **Done.**
6. `Drawing`: the bounds of the bytes that `tPrintChar` and `printRectangle` write,
   composed with the cursor in `Console`, with `tPrintStr` and `fillScreen`. **Done.**
7. `Stream`, refining `TextPipe`, with proofs in `StreamProofs`. **Done.**
8. The descriptor tables and the APIC in `Interrupts` and `Boot`; `sbrk()` for any
   size, cut to int, in `MemOps`. **Done.** The allocator's own sizes modulo 2^64
   are still to be done.
9. `StackBounded`, `TableFirst`, `ApicAnswers`, `MasksRestored`, `OwnVectors` and
   `HandlerSeesFrame` in `BootProofs`. **Done.**
10. `PrintsWhatIsMeant` of `Stream` and of `Console`, by how their parsers read each
    kind of piece, and `ReadingOrder`, in `StreamProofs` and `ConsoleProofs`; the best fit
    of `malloc_bin_size` in `MallocProofs`. **Done.**

## 3. Modules

| module | what it is |
|---|---|
| `MallocSizes` | bins, cells, pages: the constant arithmetic of `malloc.c` |
| `BestFit` | `findbest` as a set of admissible answers |
| `Malloc` | the allocator: one operator per function, one action per call |
| `MallocInv` | its invariant, the checked properties, the two refinements |
| `HeapSpec` | abstract: what callers are promised |
| `FreeBlocks` | abstract: what the list of free big blocks promises |
| `SkipList` | the list itself, one loop iteration per step |
| `SkipListInv` | its properties and its refinement of `FreeBlocks` |
| `MemOps` | `memcpy`, `memzero`, `memset`, one byte per step, and `sbrk` |
| `Numbers` | `itoa`, `uitoa`, `reverse`, `xtou64`, one character per step |
| `NumbersInv` | its properties |
| `TextPipe` | abstract: what a buffered stream promises |
| `Stream` | the draft of `vfprintf`, one character per step |
| `StreamInv` | its properties and its refinement of `TextPipe` |
| `Drawing` | which bytes of the framebuffer a glyph and a rectangle write, as operators |
| `Console` | `Print`, `tPrintStr` and what they call, one character per step; uses `Drawing` |
| `ConsoleInv` | its properties, and what the theorems about it assume |
| `Interrupts` | descriptors and the stack frame of an interrupt, as operators |
| `Boot` | `kMain` from `initHAL` on, one instruction or port access per step, with devices and faults; uses `Interrupts` |
| `BootInv` | its properties |
| `MCMalloc`, `MCSkipList`, `MCMemOps`, `MCNumbers`, `MCConsole`, `MCStream`, `MCBoot` | instances for TLC |
| `MallocProofs`, `SkipListProofs`, `MemOpsProofs`, `NumbersProofs`, `ConsoleProofs`, `StreamProofs`, `BootProofs` | theorems about the module each is named after, and their proofs |
| `Induction` | lemmas for them: induction over the natural numbers, iteration, powers of two |

### Malloc

`heap` is one record because `realloc()` is `malloc()` followed by `free()`, and
`valloc()` is `malloc()` of something else: the functions are operators from a
heap to a set of results, and an action applies one of them. Correspondence:

| model | code |
|---|---|
| `heap.brk` | `pbreak` |
| `heap.size`, its domain | `header->size`, the addresses where `BIN_MAGIC` was written |
| `heap.stack[b]` | the chain of link words that starts at `header->head` |
| `heap.bins[k]` | `malloc_bin_head[k]` and the `next` pointers |
| `heap.skip` | the blocks in the skip list |
| `heap.bigs` | `malloc_newest_big` and the `prev`/`next` pointers |
| `live` | what the caller may use: it is not in the code, it is the caller's knowledge |
| `status` | `ok`, or what stopped the kernel |

Abstractions. Addresses and sizes are the code's numbers, so every bit trick is
checked as arithmetic; the cells' contents are not modelled, except the link
words as sequences. `FindBest` may return any of several blocks of one size; the
pointer structure that picks one is `SkipList`. The caller frees and
reallocates only pointers it holds, each once. Its data is assumed never to look
like a page header at a page boundary (`BIN_MAGIC`), which is what the code
assumes too. A request is below 2^31 less four pages, so that neither `size_t` nor
`sbrk()`'s `int` wraps. `sbrk()` failing makes the caller write a header through
`(void*)-1`: status `fault`. The assertions of the four list and stack helpers are
checked where the code checks them; the two that the repository's own build
violates have a status of their own (`misaligned`, `badmagic`), all others are
`assert`.

### SkipList

`pc`, `node`, `i`, `update`, `value`, `lvl` are the local variables of the function that
runs; they are reset when it returns. The search loop, which is written three times
in the code, is one pair of actions (`Advance`, `Descend`). `malloc_random_level()` is
any level up to `SKIP_MAX_LEVEL`. `forward` pointers are never cleared, as in the
code. A block is in `held` while its `head` is NULL; blocks that do not exist yet
count as held. `Run` is weakly fair: the processor executes the next instruction,
nothing else runs, and no lock is waited for.

### MemOps

Memory is a function from a few addresses to bytes; `dest`, `src`, `n`, `c` and `i`
are the parameters and the loop counter, `old` is a ghost, the memory when the call
was made. A length is a `size_t` and is compared as an `int`: `AsInt` cuts it to
ints of `-Half .. Half - 1`. The three loops are one action `Step`; `memset()`
counts its length down and moves its pointer, which is the same as counting up.
The owners of the memory write any byte between two calls (`Write`), so every content
is met. `Calloc` is the second half of `calloc()`: the block `malloc()` returned,
whatever is in it. `pbreak` is `sbrk()`'s, counted from `global_mem`; `Growths` are sizes as
`malloc()` computes them, and what arrives is `AsInt` of them. `Malloc` has `sbrk()` again,
for requests that do not wrap, with what its caller does when it fails.

### Numbers

`num`, `i`, `negative`, `buffer` are `itoa()`'s locals, `k` is `reverse()`'s. Numbers
have `Bits` bits and the buffer `Bits + 1` bytes, as the callers' 33 for 32. C's
division is `Quotient` and `Remainder`; `-num` of the smallest int, undefined in C,
is itself in the shipped kernel. `uitoa()` is `itoa()` with `signed` false. `Shown` is what the
digits are to make up: the number, or its negation if it gets a sign. A remainder may be
negative, and its character then lies below `'0'`; `ValueOf` reads such characters too, `IsDigit`
says which of them a reader knows.

### Console

`cursor` is `term_ctx.x` and `.y`; `p`, `state`, `color` and `arg` are `Print()`'s locals
(`arg` counts the uses of `va_arg`); `text`, `i`, `j`, `room` those of the loop over a
number or a string. `pieces` is the format with what each piece of it is for, which
the properties need and the actions do not read; they read `fmt`, its characters.
A piece is the least that has a meaning: a plain character, a brace, a directive's letter,
a colour from its sign to its end (`Inside`, `Outside` and `Colour` in `ConsoleInv`); a format is
legible if each of its pieces stands where the braces before it allow it (`Legible`).
`shown`, `last` and `cursor.jumped` are ghosts; the last one says that the cursor may
stand where no glyph fits: behind a tab, where `printStr()` begins and where it ends
(it leaves up to a margin of the line, not a cell), and on the lines of a number that
began at such a place. Each character of a format waits for the
serial port (`ready`) before it is parsed; `Transmitted` is the port. The model
keeps the code's order: serial port, parser, drawing, cursor. Unsigned differences wrap
at `WordBits`, `int`s at `IntBits`, smaller than the code's 64 and 32 in the same
order. Texts of numbers are any text `itoa()` can return, the empty one for zero
among them. `sc[6]` has no terminator: `xtou64()` reads what stands behind it, given by
the constant `Behind`.

A label is what `tPrintStr()` prints: it has the loop variables of the others and a
place of its own, `at`, and leaves the cursor alone unless it clears the screen.
`fillScreen()` puts the cursor back and wipes the screen; `AfterFill` says which glyphs
that leaves, by the rows and columns the code passes to `printRectangle()`.
`Drawing` has the positions of bytes as the code computes them; colours are left out.

### Stream

`buf`, `buf_i` are the stream's, `i`, `parse_mode`, `arg` are `vfprintf()`'s locals, and
`val`, `base`, `todo` those of the function that pushes a number or a text; the digits
are collected from the last one on, as in the code, into `todo`. The writer takes a
whole text or refuses it (`print_stream_buf`): one that takes a part counts as refused
to the code, which compares lengths. `out` is what it has taken, and `spoiled` says
that something was refused, in this call or the last. `memset()` clears as
`memory.c` does it, up to the first zero byte. Each call has a format, its arguments
and, for `PrintsWhatIsMeant`, what it is to print. `StreamInv` says which of these belong
together: `IsPiece` has the kinds of pieces (a character, `{{`, `{s}`, a number `{d}` or `{u}`, or
one in base 16 or 8 as `{?xd}`, `{?ou}`), a number's digits are related to its value by `Spells`,
and `Regular` is the set of calls made of such pieces. What a negative number means there is
what the comment of `push_int_to_buf()` prescribes (lines 71 and 72), a sign and then the number as
an unsigned one (section 4). `{?dd}` and `{?du}` are no pieces: `BasesAsDocumented` has what the comment says of them.

### Interrupts and Boot

`Program` is `kMain()` as a sequence of steps: `cli`, `lgdt`, the loop that fills the
interrupt table, `lidt`, `sti`, and then `initPIC`, its eleven port
accesses, eight times, or the three register accesses of `initAPIC`. A descriptor is
its access byte and its flags, a gate the stub it leads to, its selector and its type;
`Stub` looks a vector up in the tables that are loaded. The APIC is a page number,
so that the code's masks are remainders. `chip` is the two interrupt controllers, external to the
repository: a command word restarts one, which clears its mask; three words as data
follow; any later one is a mask. `frames` is the stack of interrupts taken, each with
the words its stub has pushed. `masked` and `requests` are ghosts. A gate of type
`0xe` clears the interrupt flag; `handleException()` prints and halts, and only a
non-maskable interrupt wakes a halted processor whose flag is off, once, because
no handler executes `iretq`. Printing takes no part in this and is left out.
`NMI` and `Fault` do not look at the flag and may come at every step, also while the loader's
tables are in use, where `Stub` finds none of the kernel's stubs. The loader's handlers are
not in the repository: nothing is said of their stacks, and none is taken to come back.

## 4. Runs

Arena sizes are chosen in pages, since all decisions are taken per page.

| run | instance | shows |
|---|---|---|
| `malloc` | aligned arena of 13000 bytes (three pages), requests 0, 1000, 2048, 2049, 3999, 4001, calloc of 2x500 and 2x0, valloc of 1 and 4096 | `TypeOK`, `Inv` (the inductive invariant of the proofs), `NothingLost`, `GrowsOnlyWhenFull`, `MetadataApart`, `AssertionsHold`, `CopyFits`, `PhysicalOrder`, `ImplementsContract`, `UsesListProperly`. 2048 fills its cell to the byte and 2049 is a big block; 3999 is the largest of one page. Bin 7 has three cells a page and bin 8 one: pages fill, leave the list, come back, and the arena runs out; small pages and big blocks are neighbours; three big blocks of one size, or one and a larger one, are freed and reused in every order, by larger and smaller requests |
| `skiplist` | three blocks (two of one size behind a smaller one), three levels, requests of each size and one that nothing fits | `TypeOK`, `WellFormed`, `NeverOnStale`, `DeleteFindsNode`, `CallsReturn`, refinement of `FreeBlocks` |
| `memops` | five bytes, three values, ints of three bits, lengths 0 to 4 | `TypeOK`, `CopyIsExact`, `ZeroIsExact`, `FillStopsAtZero`, `NothingElse`, `BreakInArena`. 4 is the first length that is negative as an int; of an arena of three bytes, 5 and 7 give some back |
| `numbers` | 8 bits, bases 2, 8, 10, 16, every number | `BufferSuffices`, `DigitsDenote`, `ReadsBack`. Zero, the smallest int and negative numbers in every base are among them |
| `console` | a framebuffer of 64 by 88 pixels, that is six cells of 9 in a line and five lines of 17; formats of one or two parts, each with its braces, out of text, newline, tab, number, character, string and colour, and one with two directives and a text within one pair of braces; `printStr()`, labels at and beyond the edges, `fillScreen()`; calls begin up to x = 100 | `NeverPastEnd`, `PrintsWhatIsMeant`, `GlyphsFit`, `LabelsInside`, `ReadingOrder`, `CallsReturn` |
| `stream` | a buffer of five bytes, 64 unsigned ints, ten pieces and all pairs of them | `TypeOK`, `PrintsWhatIsMeant`, refinement of `TextPipe` (`ImplementsPipe`) |
| `boot` | three devices, four masks, all exceptions but 29 and 30 and an NMI at every step, before `lgdt`, between it and `lidt` and after, two requests, with and without APIC, one of its three addresses not on a boundary of 64 KB | `TableFirst`, `HandlerSeesFrame`, `StackBounded`, `MasksRestored`, `OwnVectors`, `ApicAnswers` |

Why this is enough: the small bins differ only in the number of cells; one, and
three, cells a page show a page that is exhausted at once and one that is
partly used. Two pages of one bin are needed for the order of a page list, and three
pages give that with a page of the other bin between. Three pages are also three big
blocks, or one and a larger one, so that best fit, exact fit and equal sizes all occur; the
theorems of section 5 state the same properties for any arena. For the skip list, three
levels give a level that is neither the lowest nor the highest and an insertion
that adds two levels at once; two blocks of one size behind a smaller one, in both
orders, are what the strict comparison of sizes and delete's walk can confuse. `memops`
has overlapping blocks in both directions and a zero byte at every place. The number
functions treat every digit alike, and eight bits have the same special cases as 32:
zero, the smallest int, a number that fills the buffer in base two. In the console a
number of four characters is longer than the room of most cursor positions in a
line of six, so lines fill at every place; `MaxX` and `MaxY` bound where a call
begins, not what it does, and `LastY` stops the cursor only in the loop that never ends,
where it would make infinitely many states. A buffer of five bytes holds three
characters, so that every text and pair of pieces meets a flush at each of its places,
and every flush may be refused. `boot` needs no more than two requests,
since the first interrupt that is taken stops the program.
The runs of `MCMalloc` and `boot` do not check for deadlock: a stopped kernel has
no next step. The others do.

Fairness. `CallsReturn` of the skip list assumes that its next instruction is executed
(`WF_vars(Run)`). `CallsReturn` of the console assumes that too, and that a serial port
which holds a character sends it some time (`WF_vars(Transmitted)`): the port's
transmitter needs nothing from the kernel to become empty. It makes two exceptions,
written in the property: a number that begins where not one digit has room
(`max_chars_per_line <= 0`) is never printed, and the loop of line 95 does not end;
nor does `tPrintStr()`'s once it meets a newline.
Interrupts, which would stop the console for ever, are not in that model.

Violations, each a disagreement between the code and what the sources say:

| run | property | what happens |
|---|---|---|
| `realloc_valloc` | `ReallocFindsHeader` | `realloc(valloc(n), m)` fails the assertion of line 607 |
| `big_misaligned` | `BlocksAreAligned` | with the shipped layout the first big request fails the assertion of line 484 |
| `calloc_dirty` | `CallocClears` | `memset()` stops at the first byte that is zero, so `calloc()` returns a block with an earlier owner's bytes |
| `zero_empty` | `ZeroIsPrinted` | `itoa(0)` is the empty text: the terminator overwrites the digit |
| `decimal_base` | `BasesAsDocumented` | `{?du}` and `{?dd}` take no argument and print `du}` and `dd}`: in the place of a base the code accepts only letters that are no directives (`randpseudocode.c:149` against 102 and 106) |

Further deviations met while modelling. They have no run of their own; the model has
the behaviour, and the properties above are stated so that they hold beside it:

- An exhausted arena is not reported: `malloc()` writes a header through `sbrk()`'s
  `(void*)-1` (`malloc.c:420`, 483), although `malloc.c:644` expects a NULL. In `Malloc`
  the kernel stops with status `fault`; `GrowsOnlyWhenFull` says when that may happen.
- A request whose pages wrap to a negative int moves the break back (`memory.c:43`) and
  is answered with memory that is not there. `BreakInArena` holds beside it.
- `valloc(0)` in a reused block of 4000 bytes returns its end (`malloc.c:578`), and
  `realloc()` then copies as many bytes as the next header says. Run `malloc` has no
  `valloc(0)`, and the proofs assume none; with it TLC refutes `CopyFits`.
- With the shipped, unaligned `global_mem`, `free()` of a cell finds no header and does
  nothing (`malloc.c:530`): with that base TLC refutes `NothingLost`.
- `realloc()` stays in place for small cells too, although `malloc.c:622` says that only
  a big block can (a cell of 1024 bytes asked for as 1000 and then as 1020).
- `sc[6]` is read as a string (`print.c:372`); in the shipped `iso/kernel.elf` the byte
  behind it is the first of `ap`, which is never zero, so every colour is shifted by a
  digit. `Behind` is that byte.
- The first command word of `initPIC()` clears the controller's mask (`pic.c:19`) while
  interrupts are enabled: a masked line can interrupt before the mask is restored,
  and the kernel halts in the handler. `MasksRestored` is stated between the rounds.
- `initPIC(0x08 + i, ...)` leaves the first controller's vectors at 8 to 15
  (`hal.c:26`), so `handleException()` reports the timer as "Double Fault".
- Exceptions 29 and 30 have error codes, but their stubs push another one
  (`interrupts.asm:101`); with 30 among `Faults` TLC refutes `HandlerSeesFrame`.
- A number that begins where not one digit has room is printed in a loop without end
  (`print.c:100`): the exception in the console's `CallsReturn`.

- `tPrintStr()` never ends on a newline (`printbasic.c:68`), and loses the character at
  which a line is full (line 71). After it has cleared the screen it goes on with the
  room of the old place, so a label may cross the right margin (not the framebuffer).
- `fillScreen()` passes the bytes of a row as its columns (`printbasic.c:34`), so with
  pixels of four bytes it writes into up to three rows below the last one.
- `setAPICbase()` clears sixteen bits (`apic.c:25`): an APIC elsewhere than on a boundary
  of 64 KB is moved, and its spurious vector written to where it was.
- The segment registers are not loaded again after `lgdt` (`gdt.c:23`); handlers do not
  return, so the loader's selectors on their stacks are never used.
- `vfprintf()` returns 0 although the writer has refused a text, and
  `push_all_to_buf()` drops the rest of that one. Zero has no digit.
- `{d}` of -3 prints a sign and the digits of 2^32 - 3 (`randpseudocode.c:156`): the comment
  at line 71 asks for this conversion, the one at line 100 for a signed number.
- A negative number in a base other than ten has no sign in `itoa()`, and its digits are
  characters below `'0'`; the smallest int has a sign and such digits, because its
  negation is itself (`util.c:37`). `DigitsDenote` says that no reader knows them.
- An NMI, or an exception, between `cli` and `lidt` is looked up in the loader's table,
  from `lgdt` on with the kernel's segments; no order of these instructions would avoid
  it. `TableFirst` says that nothing else meets that table, and they not after `lidt`.

## 5. Proofs

`MallocProofs` proves, for every arena, every set of request sizes and every order of
calls: `TypeCorrect` (`TypeOK`), `HeapConsistent` (`Inv`), `NoAssertionFails`
(`AssertionsHold`), `CallerCannotCorrupt` (`MetadataApart`) and `Refines`
(`ImplementsContract`). Assumptions: `ConstantsOK` (the base is not NULL and requests
do not wrap) and, as a hypothesis of each theorem, `NoEmptyValloc`: nobody calls
`valloc(0)`; section 4 says why it is needed.

None of the properties is inductive. `HeapInv(h, L)` is: it says of a heap and of the
caller's books that blocks tile the arena (`Layout`), that stacks hold distinct cells
of their page and lists hold exactly the pages with a stack (`SmallPages`), that
a big block is listed exactly while its payload is on its stack (`BigBlocks`), and
that every live pointer is a cell off its stack or a handle of a block off the list
(`Owned`). It speaks of any heap value, not of the variables, because `realloc()`
passes through a heap that no state shows. The proof goes bottom up: arithmetic of
bins and cells; stacks as sequences; growing, popping and pushing one by one
(`GrowSmallInv`, `PopCellInv`, `TakeBigInv`, `GrowBigInv`, `FreeCellInv`, `FreeBigInv`);
the functions (`MallocCall`, `VallocCall`, `FreeCall`, `ReallocCall`), and the actions
(`MallocStep` ... `Step`), each of which also maps to a step of `HeapSpec`.

These theorems hold for an arena on any base: without alignment `free()` may find no
header, which loses memory but breaks nothing they state. `SmallestBinThatFits` is about the
arithmetic alone: for every size, `malloc_bin_size()` counts bits to the smallest bin whose
cells hold it.

The second half of `MallocProofs` is about the memory nobody holds. `Whole` adds to
`HeapInv` that every cell is on its stack or with the caller and every big block in the
list or with the caller (`Lossless`), and that the links of the big blocks run through
all of them in the order of their addresses (`Ordered`). The first part is assumed only
of an arena that starts on a page boundary (`Aligned`): elsewhere `free()` finds no header
for a cell and loses it, as section 4 reports. From `Whole` follow `NoByteIsLost` (`NothingLost`),
`GrowsWhenNothingFits` (`GrowsOnlyWhenFull`: where a cell is free its page is at the head of a list, where a
block is large enough `FindBest` has an answer) and `LinksInPhysicalOrder` (`PhysicalOrder`);
`ReallocCopiesInside` (`CopyFits`) needs `HeapInv` alone. `ListUsedProperly`
(`UsesListProperly`) shows that each call is at most one step of `FreeBlocks`
(`Insert`, `TakeBest`, or `realloc()`'s `Exchange`).

`SkipListProofs` proves for every finite set of blocks with any sizes, every number of levels
and every level drawn: `SkipListTyped` (`TypeOK`), `SkipListStaysWellFormed` (`WellFormed`),
`NothingStaleIsUsed` (`NeverOnStale`), `DeleteFindsItsNode` (`DeleteFindsNode`) and
`SkipListIsSet` (`ImplementsFreeBlocks`). The assumptions are the constants', that the blocks
are finitely many among them (they lie in an arena of one size). With `ListUsedProperly` the last
one joins the two models: what `Malloc` asks of the list is a behaviour of `FreeBlocks`, and the
pointers implement it. None of the properties says how the pointers came about, so none is
inductive. `SkipListInvariant` is: there are a clock's reading `s[b]` for each block, the
time when it was listed, and a set of blocks `on[l]` for each level, such that each level's
pointers link exactly `on[l]`, by size and among equals the latest first (`Chained`); stale
pointers are those of blocks outside `on[l]` and are not spoken of. `Consistent` adds what
each loop has done so far: where the search stands, which entries of `update[]` are right in
front of the block, on which levels it is linked already or still. A chain is walked with
induction over its length, which gives what the hops of `SkipListInv` see.

`MemOpsProofs` proves the six properties of run `memops` for every memory, byte set,
int width and set of lengths: `MemoryTyped`, `MemcpyCopies`, `MemzeroClears`,
`MemsetStops`, `OthersUntouched`, and `BreakStays` (`BreakInArena`), which is inductive. The assumption is `MemConstants` only. The inductive
invariant is `LoopInv`: what the first `i` bytes of the destination hold, that the
rest, and the part of the source still to be read, is as it was when the call began,
and that `memset()` has met no zero among the first `i`. The properties speak of
finished calls; that a finished loop has treated all `n` bytes follows from `LoopInv`
and from `AsInt(n) = n` for lengths below `Half` (lemma `AsIntBounds`).

`StreamProofs` proves for every buffer of at least three bytes, every set of characters,
formats and arguments that the index never comes to the last two bytes
(`StreamTyped`, `TypeOK`), that the buffer is text up to a zero byte and zeros behind it
(`BufferIsText`, `ZerosBehind`), and that `Stream` implements `TextPipe` (`StreamIsPipe`).
The assumption is `StreamConstants`. The inductive invariant `StreamIInv` is
`TypeOK` and `ZerosBehind`, with what the parser knows of its format and arguments.
Each step of the stream then maps to one of the pipe: a push before
the last place to `Put`, one that flushes to `PutLast`, the last flush to `Flush`, the
call to `Begin`, and all steps of the parser and the digits to stuttering.

`CallsPrintTheirMeaning` proves `PrintsWhatIsMeant` for every regular call, of any length, with any
numbers and texts. The invariant `ReadOK` looks at what is still to come, not at what
has been: the rest of the format is a regular call `e` again, and what has been printed, with what
`e` means, is what the whole call means (`Told`). `Place` says where the parser can be
in front of `e`: between two pieces, at a letter of a specifier, in the loop over digits or over a
text. The digits come from the last one on: `todo` is the end of the number's spelling, and `val` is
what the digits before it come to (`InDigits`). All this
is asked of a call only while none of its texts is refused, and rests on `StreamIInv`.
The parser compares characters, so `StreamConstants` names those it knows. `{?dd}` and `{?du}` are
not regular (section 4); a zero is regular, and means no digit, as the code has it. `RegularCalls` shows that the hypothesis covers what it
should: the empty call is regular, any piece before a regular call makes one, and
every number has a piece in each base, signed and unsigned (`NumbersAreSpelled`).

`NumbersProofs` proves for every number of bits from two on, every set of bases from 2 to 36 (there
are no more digits and letters) and every number, zero, negative ones and the smallest int included:
`BuffersSuffice` (`BufferSuffices`), `TextsDenote` (`DigitsDenote`) and `HexIsReadBack`
(`ReadsBack`). `BufferOK` has the reason for the first: after `i` digits `|num| * 2^i` is still below
`2^Cap`, because every base is at least two, so the digits end before the buffer, and the sign
and the terminator have a place. `TextOK` follows a number other than zero through: the digits written
are those of the successive quotients of `Shown` (`Denoted`), the last first, none of them of
another sign than `Shown`; then they are all
written and have their sign (`Complete`); `reverse()` has swapped `k` of them from both ends (`Turned`).
The value of a text is a fold (`Horner`); that it follows the quotients backwards
is proved by induction over their number. If `Shown` is negative, so is its first digit, which
therefore is none to a reader (`WrittenDigits`). `ZeroOK` is that zero returns at once. The prover knows nothing of powers, so `Induction`
derives those of two from the library's count of subsets. Bits are at least two,
since one bit leaves no int but 0 and -1, whose negation is not defined.

`ConsoleProofs` proves for every framebuffer and font, and every set of formats, texts and
places: `GlyphsStayInLine` (`GlyphsFit`), `LabelsStayInside` (`LabelsInside`), `ParserStops`
(`NeverPastEnd`), `PrintIsFaithful` (`PrintsWhatIsMeant`) and `GlyphsInReadingOrder` (`ReadingOrder`). Their hypotheses are in `ConsoleInv`, and `MCConsole` has TLC evaluate that its
instance meets them. `MarginFits`: a cell is not wider than two margins and the cursor begins within
them, as with the kernel's 9, 5 and 5. Without the first a glyph crosses the edge after a
line `printChar()` left just unfilled. `WidthsFit`: a row has less pixels than an `int` has numbers.
`LabelsBegin`: labels begin within a row, however far down, and the framebuffer has a few
rows more than a glyph; further right the unsigned difference wraps. `ColorsEnd`: a `#` begins a colour that is
complete. The invariants: `LineOK`, that the cursor is a cell before the edge unless it
has jumped, and that the digits a loop still counts fit between it and the margin,
on this line and the next; `LabelOK`, that the room of a label belongs to the column
where it began, and that it stands there or in column 5; `ParserOK`, that before
a colour the end of it is in the format. The attempt to prove `GlyphsFit` first
failed on a step TLC had not met: `printStr()` may end a margin before the edge of a new line, and
the next `printChar()` then draws across it. The ghost `jumped` now records that, and the run
`console` has such a text.

`PrintIsFaithful` assumes `FormatsLegible`: formats are made of the language's pieces, and
a piece that needs braces has them. It says nothing else of them: braces may hold any
number of directives, texts and colours, a colour any digits or none, and the last brace may
be missing. Joining sequences is a recursive function in the library's `FlattenSeq`, so the
proof first takes it apart: `FlattenPrefixes` finds by induction the sequences that the
first `k` pieces come to, `PartStands` that the characters of a piece stand where those before it
end. With `w[m]` and `t[m]` for what `m` pieces are written with and mean, `PrintOK` says
that the parser is behind `m` pieces and has printed `t[m]` (`Between`), within the colour
behind them (`InColour`), or has printed of the argument behind them the first `i - 1` characters
(`InText`), and that its state is that of the braces and its arguments are those taken so far. At
the end of the format `m` is the number of pieces. It follows again that the end is
never passed, now from the language and not from `ColorsEnd`, which asks less.

`GlyphsInReadingOrder` needs no hypothesis on the instance. `LastY` is the model's and not the
code's, and stops the cursor, so that glyphs meet there; the theorem is therefore about
behaviours that stay above it (`[]RoomBelow`), for every `LastY`: any finite run of the
code is one of them if `LastY` is chosen large enough. Its invariant `OrderOK` is that the
cursor has left the last glyph behind, by a cell or by a line; `fillScreen()` needs `FillWipes`,
that the rows and columns it passes cover every glyph that was drawn.

`BootProofs` proves for every set of devices, masks and faults, any number of requests
and every page below 4 GB that the firmware may have given the APIC: `TablesFirst`
(`TableFirst`), `HandlersBounded` (`StackBounded`) and `ApicEnabled` (`ApicAnswers`).
The assumption is `BootConstants`; that the APIC is below 4 GB is what `getAPICbase()`
takes for granted when it returns `eax` alone. `TablesFirst` covers every step: between `cli` and
`lidt` it leaves an NMI and exceptions the loader's table, as the hardware does, and nobody after. None of the three says where the
program is, which decides everything: the inductive invariant `BootIInv` adds which
tables are in use at each of the first five steps and that the flag is off from `cli`
to `sti` (`TablesOK`), that a running handler has the flag off and a second one is a
non-maskable interrupt's (`FramesOK`), and what each of `initAPIC()`'s accesses has
left in the APIC (`ApicOK`). `ProgramSteps` computes the program from its parts,
and `StubFound` finds the gates' segment in the kernel's table.

`LoaderMasksKept` (`MasksRestored`) and `VectorsOwn` (`OwnVectors`) rest on `PicOK`: in which step
of its round `initPIC()` is (`Phase`) decides whether a controller's mask is in place or in `saved`, and
a controller takes a word for its vectors only between its command and the word
meant for it, so that both have their vectors again after every round. `HandlersSeeFrames`
(`HandlerSeesFrame`) follows the words each stub pushes, wherever one is found; its hypothesis `KnownCodes` leaves out
vectors 29 and 30, for which it is false (section 4).

Only model-checked: liveness (`CallsReturn` of the skip list and of the console), as the prover has
no liveness under fairness. Theorems of the library that take an operator as a parameter
cannot be used with the installed provers; induction is therefore done over sets of numbers
(`Induction`), and what remains out of reach are `RECURSIVE` operators, which no module proved about has.

## 6. Not modelled

Widths near 2^64 in the allocator. The contents of blocks are not part of `Malloc`:
`realloc()`'s copy and `calloc()`'s clearing are checked in `MemOps` for the block they
are given. The colours of pixels, and the cursor's passing of the lower edge: nothing
scrolls, so there is no bound to state. `putPixel`, `tPrintCharW`, `uRound`, `strcpy`,
`PICsendEOI`, `disablePIC`, `cpuHasMSR` and `loadTSS` have no caller; `tPrintStr` is called by
`tPrintInt` only, with digits, and is modelled for any text. Of a number in `Stream` the
20000 bytes of its static buffer are not modelled, which no `unsigned int` fills. A
fault inside a handler, the loader's handlers, and the stubs' way back behind
`handleException()`, which never returns. A colour whose
six digits reach past the end of its format: `Print()` then reads on behind the string,
and `NeverPastEnd` is stated for formats without one. `limine.h` is third-party;
`defines.h` holds type names only.
