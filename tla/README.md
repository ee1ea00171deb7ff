# A TLA+ model of excanalyse

excanalyse reads the exception log of a board (several logs of processes that
crashed, hung or looped, glued together), cuts it into records, explains each
record as far as it can and disassembles the functions of its call chain.  The
result is a list of documents, each a set of files in a temporary directory,
which a command line program prints and a Qt Creator plugin shows.  The library
is single threaded and keeps its state in memory and in that directory.

The comments of the source are in Chinese (GBK); where a property quotes one,
it is given in English.  The sources lack `exc_str.h`, the table of strings and
module names: names are therefore parameters of the models.  `parser/dasm.c`
declares two functions named `Exc_Dasm`, so that the tree does not compile as
it is; the models take the public one of `include/exc_parse.h`.

## The system

| component | state | operations | interacts with |
| --- | --- | --- | --- |
| record list: `parser/exclist.c` | `struct exclist_ctl` of a running load, the caller's `struct ExcList`, files under `<tmp>/exc` | `Exc_Load`, `Exc_Release`, internally `exclist_init`, `exclist_push`, `exclist_push_item`, `exclist_push_simple_record`, `exclist_release` | calls the text parser for each exception and the item builder for each record |
| item builder: `parser/exclist_apprec2list.c` | the item and its entries, one file each | `apprec_push2list` (`item_setbase`, `item_setanalyse`, `item_setstack`, `item_setdasms`) | calls the analysers (with `analyser_callback`) and the disassembly |
| text parser: `parser/exclist_appstr2rec.c` | the text, cut in place by writing `'\0'`; the fields of `T_AppExcRec` | `excstr2apprec`: `str2phases`, `get_exctype`, `phases2val` | called by `excblock_parse_appexc` until the block is used up |
| analysers: `parser/analyser*.c` | the global list of modules, built once | `Analyser_Analyse`, `AddModule`, five `analyse_*` | report through the item builder's callback |
| call chain disassembly: `parser/dasm.c` | `T_DasmInfo` (one item an address), `struct funcs_ctl` (cache and current item) | `Dasm_GetFromRec`, `Dasm_Release`, callbacks `funcs_actcheck`, `funcs_dump` | gives its callbacks to the objdump wrapper, once a file |
| objdump wrapper: `binutils/dumpwrap.c` | symbol tables of the file being dumped, `s_pctl` | `dumpwrap_load` | calls back for each function, each piece of text, each file |
| guarded heap: `parser/parser_comm.c` | guard words around each block | `Exc_Malloc`, `Exc_Free`, `Exc_StrDup` | used everywhere; any call may return NULL |
| disassembly commands: `parser/dasm.c` (`Exc_Dasm`) | none of its own | six modes, each a callback of the objdump wrapper | command line, plugin dialog |
| command line: `parser/app.c` | none | reads a file, loads, prints, releases; one operation for each mode of `Exc_Dasm` | public interface |
| plugin: `ui/` | `ExcInfoModel`: `struct ExcList` and a tree of `TreeItem`s over it; the view's current index; the open editors | `SetList`, `ResetList`, `ShowItem`, the dialog of `DasmDlg` | public interface; Qt's event loop |

What is hard here is not concurrency but failure and order: every allocation
and every `fopen` may fail, in the middle of a record that has written half of
its files; the text is cut in place while pointers into it are kept; callbacks
share one cache and one current item; a global list of modules depends on the
order of its registration; files of one load may still lie in the directory
of the next; and the event loop of the plugin runs while a message is shown in
the middle of `SetList`.

What makes the components correct:

* record list and items: every heap block has one owner on every path, a list
  that is shown has all its files with its own text, numbers agree between
  names, descriptions and the summary, a failed load shows nothing;
* text parser: every exception of the text gives one record with its lines and
  nobody else's; the parser comes to an end; a field is read from the last
  place of its own record that has it, an array has as many entries as its
  count says, whatever allocation fails;
* analysers: every module is registered once, basic information comes first, a
  record is reported on by just the modules that can explain it, searches stay
  inside the backtrace;
* disassembly: an entry shows the function its address is in, and no text of
  another one; a command prints what its mode and parameter ask for, and all of
  it;
* plugin: the tree shows the last list and nothing else, an index the view keeps
  points to an item in use, an editor shows the last text.

`PROJECT.json` lists the hazards of the code line by line, each with the
properties that would catch it going wrong.

## Modules

| module | models |
| --- | --- |
| `ExcApi` | what a caller of `Exc_Load` and `Exc_Release` may rely on, without internals |
| `ExcList` | `Exc_Load`, `Exc_Release` and the construction of items, with every failure; implements `ExcApi` (`Api == INSTANCE ExcApi WITH ...`) |
| `ExcListProofs` | theorems about `ExcList`: types, ownership, its documents, and that it implements `ExcApi` |
| `ExcText` | how the text becomes records: `exclist_parse`, `excblock_parse`, `str2phases`, `get_exctype`, `excblock_parse_otherexc` |
| `ExcTextProofs` | theorems about `ExcText` |
| `ExcFields` | how the sections of an exception become the fields of its record: `phases2val` and its handlers, `item_setstack` |
| `ExcFieldsProofs` | theorems about `ExcFields` |
| `ExcAnalyser` | `AddModule`, `Analyser_Init`, `Analyser_Analyse` and the five modules |
| `ExcAnalyserProofs` | theorems about `ExcAnalyser` |
| `ExcDasm` | `Dasm_GetFromRec` with the callbacks it gives to `dumpwrap_load`, and the choice of `item_setdasms` |
| `ExcDasmProofs` | theorems about `ExcDasm` |
| `ExcDump` | `dumpwrap_load`: files, tables of symbols, `find_symbol_for_address` and the walk of `disassemble_section` |
| `ExcDumpProofs` | theorems about `ExcDump` |
| `ExcDasmCmd` | `Exc_Dasm` with its six modes, as `main` and the dialog of the plugin call it, composed with `ExcDump` (`D == INSTANCE ExcDump`) |
| `ExcDasmCmdProofs` | theorems about `ExcDasmCmd`, with those of `ExcDump` (`P == INSTANCE ExcDumpProofs`) |
| `ExcUi` | `ExcInfoModel`, its tree and list, the view and the editors; implements the caller's side of `ExcApi` |
| `ExcUiProofs` | theorems about `ExcUi` |
| `*MC` | instances of the above for TLC |

### ExcList

`pc` is the place the running call has reached; an action is the code between
two calls that may fail, and has a disjunct for each outcome.  The heap is the
set `live` of the addresses in use; `Pick` is the allocator, a parameter: the
theorems hold for any allocator that returns free addresses, TLC uses first
fit, which reuses addresses as early as possible.  Files are pairs of a path
and the item that wrote them (`NULL` when that item is gone); a path is the
triple of number, kind and frame that `exclist_fmt_path` prints.  `lost` is a
history variable: blocks nobody will free, that is the items `exclist_push`
refused (its result is dropped) and buffers of sections that occur twice.
The text is reduced to the number of its blocks and to what the parsers find in
each, chosen at random; `ExcText` says what they find in which text.

`excblock_parse` takes any error of `excblock_parse_appexc`, lack of memory
included, for "no exception here" and goes on with the block as plain text
(`AppFail`); this is modelled as it is.  `Exc_Release` reads the paths in the
items before it frees them, one action.

### ExcText

A text is a sequence of lines, each of the kind that the searches of the code
tell apart (one token a line).  `cut` is the set of lines with a `'\0'` in
front of them: a string is the lines from its start to the next cut.  Sections
(`phases`) are sets of lines; what is read from them is in `ExcFields`.  The mark
of a beginning is "bare" when it has no stars in front: with nothing before it in
the string `exclist_parse` writes its `'\0'` over the mark, finds no end of that
line and loses the rest of the text (`Behind`).  The
comment at `exclist.c:370` calls a record without the line of its time illegal
and ignored; the code pushes it without details, and so does
`excblock_parse_otherexc` here.

### ExcFields

A text is a sequence of exceptions, each a sequence of sections; a section is a
record of what the handlers search for in it.  A field that is read from a line
has as its value the place it was read from (exception, section, line), so that
a property can say whose line a field shows; the numbers of a stack are numbers
because the code compares them with 0.  The tables of keys (`s_baseinfo` ...) are
those of the code, in its order, because the first match counts.  An action is
the handler of one section; each allocation may fail.  `Behind` is what the text
of a stack contains: `phase2val_stack` starts it one character after the next
line break, so that after an empty line it is what comes behind the section.
`heap` is the set of buffers in use, each with the field, exception and section
it was made for; `PushRecord` ends with `apprec_free`.

### ExcAnalyser

The links of the modules (`next`) are as the code writes them, including the
reset of a link before the search for a duplicate name.  A function name is the
set of marks `analyse_deadlock` searches in it ("read" stands for the names the
code treats like `read`).  `rec->lockstr` is never assigned by the program; the
branches that need it are unreachable and left out.  `AddModule` puts a module
behind the first before one of higher priority, so that the modules are asked in
the order normal, exc, stackoverflow, deadloop, deadlock.  That is not what the
comments of `AddModule` and `Analyser_Init` promise (see the end of this file);
`Verdict` states the order there is and what follows from it.

### ExcDasm

A file is its load address and its functions in the order `dumpwrap_load` comes
to them; `FuncStart`, `funcs_dump`, `FuncEnd` and `FileEnd` are the callbacks.
Addresses are small numbers; `IntSize` is the modulus of the `int` that
`func_startfunc` returns, so that an address whose low part is 0 is taken for
"nobody wants this function".  `loaded` is a history variable.

### ExcDump

What the callbacks of `ExcDasm` take as given, the list of functions of a file,
is computed here: the tables of symbols are read, filtered and sorted, a binary search finds
the symbol a section starts with, and the walk goes from symbol to symbol of the
section.  A symbol keeps its value and section; what else `compare_symbols`
looks at (flags, names) is a rank; the name comes last there, so that symbols
with one value, section and rank are one.  `qsort` is any permutation in the
order of `compare_symbols`.  Tables are static variables of the code and
survive from one file to the next, as here.  Failures of libbfd are choices.
`xmalloc` of binutils does not return without memory, so there is no such
failure.  Start and stop addresses, dynamic relocations and adjusted addresses
are constants of the code that switch their branches off.  `funcs` and `failed`
are history variables.  An address before the first symbol of its section has
the name of that symbol (`SymbolOf`), as in objdump: there the callback names
two ranges alike.  A section whose relocations cannot be read would be left out
(`dumpwrap.c:1929`, `:1942`); they are read only for a disassembler that wants
them (`disassembler_needs_relocs`), which is taken not to be the case.

### ExcDasmCmd

A command is chosen by `main` (the operation is the mode) or by
`on_execaction_clicked` (the mode depends on whether there is a parameter), is
refused or runs the walk of `ExcDump`: each action of the walk is used as it is
and extended by what the command prints.  `allowout` is the answer to the last
question `disassemble_section` has asked; it is a variable because it outlives
the function it was given for; a heading or the text of a function is written when it allows that and
the mode has a callback for text.  `out` is what the command wrote, a line of a
list, a heading or the text of a function each being one element.  The errors of
the walk (`wrap_errout`) go to the same file in every mode, whatever is allowed;
what one step writes of them is one element.  The names of
functions and parameters are atoms with `strcmp`, `strstr` and `strtoull`
given as a relation and a function.  Commands follow each other in one process,
as in the plugin, over the static tables of `dumpwrap.c`.

### ExcUi

`items` are the `TreeItem`s in use, by address; `Pick` is `new`, a parameter as
in `ExcList`.  `SetList` is divided where it calls the library, where it writes
`exc_orig.txt`, for each record and at `endResetModel`; the event loop runs
(`EventLoop`) between calls of `SetList` and while `QMessageBox::information` is
open.  The library is used through `ExcApi`: `Load`, `LoadOk`, `LoadFail` and
`Exc_Release` do to the files what `ExcApi` and `ExcList` allow.  A file's text
is the number of the text of the user it was written for, so that an editor that
was left open would show an old number.  External, from the way the code uses
it: a view forgets its indexes at `endResetModel`; Qt Creator's
`openEditorAt` shows the editor a file already has; editors are opened only from
the tree.

## Runs

| run | shows |
| --- | --- |
| `load` | two blocks, up to two frames, an array of two slots that grows by one (10 and 32 in the code): `OneOwner` (each block freed once), `Numbering`, `AppendOnly` across growth |
| `leftover` | loads one after the other when a file may refuse to be removed: `FilesOfItems`, `LoadReturns`, and that `ExcList` implements `ExcApi` |
| `analyser` | all kinds of records over backtraces of up to three frames, string tables with and without a repeated name: no module is lost (`Complete`), the modules are asked in the order `AddModule` makes of the priorities, highest first, then lowest, and those report that can explain the record (`Verdict`), the search for the cause of a dead lock (`FramesInBounds`, `DeadlockCause`), `AnalyseReturns` |
| `text` | every text of up to five lines of either alphabet and all triples of four typical exceptions, with an array of sections that only some of them fill: the records and sections are those of a declarative division of the text, up to a bare mark with nothing before it (`RecordsAsWritten`, `SectionsApart`), the search ends (`ParseEnds`) |
| `text_stars` (violated) | an exception that ends with stars gives a second record |
| `fields` | records of up to three sections after the first, out of twenty-one, and two records one after the other: each field comes from the last place of its record that has it (`FieldSource`, `StackOfItsSection`, `LastArrays`), the stack pointer is the last one printed for its stack, or that of the registers for the stack `phases2val` gives it to, which with two stacks is not the one shown (`ShownSp`), arrays and buffers with every allocation failing (`CountsOfArrays`: a count without its array is left only by a section that repeats another; `BuffersReleased`) |
| `fields_stack` (violated) | a stack without text shows text of the next section |
| `dasm` | chains of up to three addresses, with and without pc, over four sets of files any of which may be missing: `OwnFunction`, `NothingMissed`, `AssertPc` (the assertion of `set_a_dasm`), `FirstFrameShown` |
| `dump` | sets of up to four of thirteen symbols in linked and relocatable layouts, pairs of files and archive members with and without tables: `Tiled` (each section of code is divided without gap or overlap and none is left out), `NamedByItsSymbol` (the search and the walk against a declarative definition), `OwnSymbols` (no symbol of an earlier file) |
| `cmd` | every mode from either caller, over all sets of six symbols in both layouts and over two files or two objects: the code shown is that of the names asked for (`RightAddresses`), an address gives one function, the one it is in, in each section that contains it (`FunctionOfAddress`), a list has one line for each function asked for, in order, and besides only the errors of what failed (`ListOfFunctions`), the dialog gives no command that is refused (`DialogChecks`), a command ends (`CommandEnds`) |
| `cmd_ret` (violated) | 0 is returned for a file that could not be disassembled |
| `ui` | three texts one after the other, of three kinds of lists, each load succeeding, failing or refused, with clicks and closed editors in between: the tree (`IndexesLeadBack`, `TreeShowsList`), the view's index (`ViewValid`), the editors (`EditorsCurrent`), and that the plugin is a caller as `ExcApi` wants it (`CallsAsPromised`) |

Why the bounds are enough.  `load` fills the array after one record and makes
it grow twice, so both sides of the test in `exclist_push` and the copy are
taken with items before and behind; six addresses are more than a load holds
at once with two frames, and using them up adds failures.  `leftover` needs one
file that survives a release and a later load that reuses its name.  In
`analyser` three frames are a handler, a frame that waits and its successor in
any order; more add nothing the loops can tell apart.  In `text` five lines
hold a title, two sections and their separators; the triples of whole
exceptions cover what one exception leaves for the next, and one of five
sections fills the array.  `dasm` has every
relation of two chain addresses: same address, same function, same file, other
file, none.  The symbols of `dump` are before, at, inside, at the end of and
behind a section, equal, foreign, rejected and useless; four are enough for the
binary search to take both sides and end beside a group of equals.  The sections
of `fields` are one or more for each handler: with and without each number of a
stack, with text, an empty line or nothing behind them, arrays that are empty,
fit and are too long; two sections in every order are what one handler can do to
the field of another, and three are needed for a register section between two
stacks.  `cmd` has names one of which is part of the other, equal names in
two sections, and addresses at a start, inside and in a relocatable section with
the same numbers; a second file or object keeps what the first has left in the
tables and in `allowout`.  `ui` offers eight addresses, two more than the
largest tree, and an allocator that takes either the lowest ones, which have been
used before, or the highest; three texts allow a failure between two successes.
The programs stop when a text, a record or the last command is finished or the
plugin is gone, so deadlock is not checked in those runs.

The violated runs show a comment or assertion of the source against what the
code does; `PROJECT.json` quotes both.

Fairness.  The library is single threaded and no step waits for anything: a
call that has begun runs to its end.  `WF(Step)` in `ExcList` and `ExcAnalyser`
says so and leaves the caller free never to call; `WF(Running)` in `ExcDasmCmd`
says it of a command, not of who gives commands; in `ExcText` the whole
specification is one call.

## Theorems

Every theorem holds for all values of the constants that the named assumptions
of its module allow; those say what an input is (a file, a section, a list) and
that sizes are numbers, nothing about what the code does with it.  A theorem
follows from an inductive invariant, a conjunction of named parts with a lemma
for each part or group of parts and in it a case for each action.  The parts
were checked with TLC on the instances of the runs before they were proved.

`ExcListProofs` (`ListAssumption`, `HeapAssumption`: sizes are positive, the
allocator returns free addresses):

* `TypeCorrect`: `Spec => []TypeOK`;
* `Ownership`: `Spec => []OneOwner`: every block in use has one owner;
* `PushAppends`: `Spec => AppendOnly`.

`OneOwner` is not inductive: that `exclist_release` frees everything needs that
the array is full up to `list_index` and empty behind it (`SlotsInv`), and that
a pointer is only set where the code has it (`ControlInv`).  The ownership lemma
uses general facts about taking an address into and out of disjoint sets.
The second part of the module is about documents:

* `NumbersOfItems`: `Spec => []Numbering`;
* `FilesAreTheItems`: `Spec => []FilesOfItems`;
* `LoadKeepsThePromise`: `Spec => ImplementsApi`, the refinement of `ExcApi`.

`DocsInv` adds to the invariant above what the summary has while records are
numbered (`SummaryInv`), which number and entries the item in each slot of the
array has, in increasing order (`NumberInv`), and what the item in hand, which
is in no slot yet, has so far (`HandInv`): a failure or a release in the middle of
an item disturbs no file of an item in the list because no two of them have one
number.  In the refinement a load is a stutter until it returns; the step that
returns a list, or an error with an empty one, is a step of `ExcApi`.

`ExcTextProofs` (`TextAssumption`):

* `SectionsStayApart`: `Spec => []SectionsApart`;
* `RecordsAreAsWritten`: `Spec => []RecordsAsWritten`: what the parsers compute
  by cutting the text as they go is the division of the text into blocks,
  sections and exceptions that is defined by its lines alone, as far as the text
  is read: a bare mark with nothing before it ends it.

`SectionsApart` is about finished records.  Its invariant says it of the
sections of the exception in hand, and that all of them lie before `pstr`, where
`str2phases` goes on (`PhasesInv`).  `SplitIs` says what the code that divides a
register section at its call track makes of it.

`RecordsAsWritten` speaks of the end of the text, and is not inductive: nothing
in it says what an unfinished exception must have.  `DivisionInv` does.  Its
`BlockInv` puts the block in hand last of the blocks before `next`.  `SectionInv`
says that nothing is cut behind the line to go on at, so that a string of the
code is the rest of the block and `Section` a section of the division
(`StrWhole`, `SectionWhole`); that there is always a title left, so that
`excstr2apprec` never fails after it has given a record (`AlwaysFound`); and that
the sections in hand are the lines of the first title from `str` on, up to `pstr`
or, at the end, up to the next title (`InHand`).  `DoneInv` says that the records
are those of the earlier blocks and of the titles before `str`, in order.  Two
suppositions of the property are needed by the steps: without a line of stars
`AddSection` never ends an exception in the middle of a section, and while no
record has filled the array (`Room`) an exception ends only at a title or at the
end of its block.

`ExcFieldsProofs` (`FieldsAssumption`: what a section is):

* `ArraysHaveTheirCounts`: `Spec => []CountsOfArrays`: the count is that of the
  array; a missing array beside a count means that two sections print the thing;
* `BuffersAreReleased`: `Spec => []BuffersReleased`: a buffer is released with
  its record unless a later section of the same kind has overwritten it;
* `LastArraysShown`: `Spec => []LastArrays`;
* `FieldsHaveTheirSource`: `Spec => []FieldSource`;
* `StacksAreTheirSections`: `Spec => []StackOfItsSection`;
* `StackPointerShown`: `Spec => []ShownSp`.

Here the invariant says of each buffer the record has which section of this
exception made it, that `phases2val` has passed that section, and that its handler
is the one for the field (`OwnerInv`): what a handler overwrites was made by an
earlier section of the same kind.  `LastArrays`, `FieldSource` and the
properties of stacks are stated at the end of a record; their invariants
(`LastInv`, `SourceInv`, `PrintedInv`) say it of the sections passed so far.
For a field that is the greatest line of the last section that has one; a
stack nobody has printed so far is empty and has no numbers, so that a section
that stops in the middle leaves only its own.

`ExcAnalyserProofs` (`AnalyserAssumption`):

* `SearchStaysInBacktrace`: `Spec => []FramesInBounds`: with a record in hand
  whenever the walk is not idle, the frames left are those behind `btitem`;
* `NoModuleLost`: `Spec => []Complete`;
* `VerdictOfTheRecord`: `Spec => []Verdict`;
* `CauseOfTheDeadlock`: `Spec => []DeadlockCause`.

`ListInv` gives the links a meaning: the list is a sequence of modules without
repetition, each linked to the next, of those registered so far; `AddModule`
puts one before the first or behind another.  A call that fails leaves a list
that has the first module, so that every later `Analyser_Init` fails and no
record is analysed with it.  `Listed(k)` is the list after k registrations, as their
priorities make it (`Ranked`); `CalledInv` says how much of the last one the walk
has passed, and `OrderAsked` compares it with the priorities.  `WalkInv` says
which of the modules the walk has passed have reported (`Said`).  `BehindInv`:
the frames `analyse_deadlock` has left behind hold no signal handler, or no
wait, according to the loop it is in; the search that starts over makes this
two statements.

`ExcDasmProofs` (`DasmAssumption`: what a file and a chain are):

* `TextFitsTheCache`: `Spec => []TypeOK`, the text collected for a function fits
  into the cache with its final zero;
* `ItemsShowTheirFunction`: `Spec => []OwnFunction`;
* `LostToAnEarlierItem`: `Spec => []NothingMissed`;
* `AssertionHolds`: `Spec => []AssertPc`;
* `FirstFrameShows`: `Spec => []FirstFrameShown`.

`OwnFunction` is stated between two files; its invariant (`ItemsInv`) says in
the middle of a file that only the current item may still have other text, and
relates the address an item has to the function it came from.  `NothingMissed`
is stated at the end; its invariant (`MissedInv`) says it of the functions the
walk has passed (`Passed`).  Its step is the choice of the first item that wants
a function: an item that wants it and is not chosen has one before it that is,
and this one keeps the function, since only functions at 0 are taken again.

`ExcDumpProofs` (`DumpAssumption`: what a file is):

* `SectionsAreDivided`: `Spec => []Tiled`;
* `NamedByTheirObject`: `Spec => []OwnSymbols`;
* `FunctionsHaveTheirNames`: `Spec => []NamedByItsSymbol`.

The invariant says of the functions so far that those of one section are next
to each other and each begins where the one before ends (`TilesInv`), that none
is of what is still to come (`FuncsInv`), that every section of code the walk
has passed has some, unless its object was not disassembled (`CoverInv`), and
that the tables are those of the object in hand and empty between two
(`SymsInv`).  `NamesInv`: `sym` is the
symbol nearest to the address the walk has reached.  That it is when a section
begins is `FindNearest`, about the binary search: `SearchEnds` shows that the
recursive function the search is written as exists, `SearchIs` where it comes
down, both by the size of the least range for which it would not hold.  That
it stays so is `NextSymbol` and `NearestUpTo`, about the step to the next symbol
of the section.  The order of the table is that of `qsort` (`SortInv`).  Lemmas
for the modules that use the walk say what these invariants mean for addresses:
`Follow`, `FirstIn`, `LastIn`, `AddressIn` (an address of a section that has
functions is in one of them) and `AskedOnce`.

`ExcDasmCmdProofs` (`CmdAssumption`: what a file and a parameter are):

* `NamedCodeIsShown`: `Spec => []RightAddresses`;
* `AddressHasItsFunction`: `Spec => []FunctionOfAddress`;
* `ListIsComplete`: `Spec => []ListOfFunctions`;
* `DialogIsNotRefused`: `Spec => []DialogChecks`.

A step of a command is a step of the walk or leaves it alone (`WalkStep`), so
the invariant of `ExcDumpProofs` holds here too; it is there under the
names of the instance `P`, and the lemmas `Same...` say that these are
what `D` calls them.  `TextInv` says at every moment of a command that the texts
written are those of the functions of its file so far that its mode wants, each
once, `ListInv` that the lines are those of the functions listed, each once and in
their order, and that all else is an error (`Aside2` is what a step that asks
about no function may write); a function the walk asks about is new
(`AskedOnce`), which makes both inductive.  `ClosedInv` keeps for the end that no section of the file was
left out.  That a text has the right addresses is then what `ExcDumpProofs` says
of functions and their symbols.

`ExcUiProofs` (`UiAssumption`, `ListsAssumption`: `new` returns free addresses,
`Exc_Load` lists files of its own, each once):

* `TypeCorrect`: `Spec => []TypeOK`;
* `ViewAlwaysValid`: `Spec => []ViewValid`;
* `EditorsAlwaysCurrent`: `Spec => []EditorsCurrent`;
* `PluginCallsAsPromised`: `Spec => CallsAsPromised`, the refinement of `ExcApi`;
* `EveryIndexLeadsBack`: `Spec => []IndexesLeadBack`;
* `TreeIsTheList`: `Spec => []TreeShowsList`.

The invariant is that every item hangs below the root (`StructureInv`: deleting
the root deletes all, so the current index is the only pointer that could be
left over, and `endResetModel` comes before the next turn of the event loop), the
place of `SetList` (`ControlInv`), and that listed files are those of the last
text and editors belong to items (`ShownInv`).  `TreeInv` says what the tree is
in the middle of `SetList`: its k-th row is the k-th record added so far, with
the rest of its files below it.  As no file is listed twice, an item has one
place, which is why its index leads back to it.

Every safety property a passing run checks is a theorem.  Only model-checked:

* liveness (the provers have no fairness): `LoadReturns`, `AnalyseReturns`,
  `ParseEnds`, `CommandEnds`.

## Plan

Done: all modules above and the theorems listed.  Left: `ExcDump` composed with
`ExcDasm` as it is with `ExcDasmCmd`, so that the functions `func_startfunc` is
asked about come from the walk.

## Seen on the way

The violated runs show two comments and a promise of a header against what the
code does; `PROJECT.json` quotes both sides.  Other places where code and
comments disagree, seen while modelling; the models follow the code, and no run
is about them:

* `exclist.c:223` drops the result of `exclist_push`: when the array cannot grow
  the record is in the summary but its item in no list (`lost` in `ExcList`),
  while `exclist.c:26` says that a record with details is in both;
* `analyser.c:77` puts a module that is not the first before one of higher
  priority: the order is normal, exc, stackoverflow, deadloop, deadlock, while
  `analyser.c:27` says that the highest is called first, `analyser.c:102` that
  dead locks and dead loops are analysed first and `analyser.c:116` that exc is
  called only when all others cannot explain the record; with a stack that
  overflowed both exc and stackoverflow report;
* `exclist.c:306` writes the end of a block over the mark of the next one when
  nothing is before that mark: the rest of the text gives no record, while
  `exclist.c:295` says a piece may begin with the mark and `exclist.c:519` that
  each exception gives a record;
* `dasm.c:94`: an item without a pc takes the first function of the program;
  `dasm.h:8` calls the result the function of the pc;
* `dasm.c:122`: of two frames in one function only the first is disassembled,
  while `dasm.c:189` says each frame is;
* `dumpwrap.c:2206` returns without freeing the sorted table when there is no
  disassembler;
* `parser_comm.h:101` says `libnum` is the length of `libs`: after a failed
  allocation for a second section of libraries the count of the first remains
  beside a NULL array, and the same holds for the calls (`btfuncnum`);
  `Dasm_GetFromRec` tests the array of calls, `item_setbase`, `analyse_deadlock`
  and the loop over the libraries go by the count.  `CountsOfArrays` says that
  this is the only way to such a state;
* `exclist_appstr2rec.c:592`: with the texts of two stacks the SP register goes
  to the stack of the task, and `item_setstack` shows that of the job, with 0 for
  its pointer when its section prints none (`ShownSp`);
* `analyser_deadlock.c:47`: `rec->lockstr` is never assigned;
* `navwidget.cpp:398`: when `exc_orig.txt` cannot be opened, the first item of
  the tree shows an older text.

## Not modelled

* `asm2c` (built by no makefile), `ulist.h` and the pcre headers (vendored),
  build files: no behaviour of the program.
* `parse_exc` of `app.c` reads a file, calls `Exc_Load`, prints and releases:
  sequential I/O around `ExcApi`.
* In the plugin: the dialog that asks for a text, the registration with Qt
  Creator, fonts and titles; `ExcInfoManager`, which nothing uses.
* In `dumpwrap.c`: how an instruction, a relocation or a header is printed, the
  options the program never sets, and what libbfd and libopcodes do.
* The wording of files and titles, the digits of numbers and lengths of strings.
* Two processes with one temporary directory: the code knows of none, and
  `ExcApi` assumes there is none.
* Guard words of the heap: `OneOwner` shows the checks of `Exc_Free` never fire
  for a block of the library.
