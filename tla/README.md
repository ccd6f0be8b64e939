# GbxDump in TLA+

GbxDump is a Windows dialog that shows what is in the header of a GameBox (GBX)
file of the Trackmania games, shows the picture in it, and asks the web services
TMX/MX and Dedimania about the track. This directory holds a model of it: TLA+
modules translated from `src/GbxDump`, TLC configurations that check them on small
instances, and theorems that TLAPS proves for all values of the constants.

Contents: [inventory](#1-the-program) · [modules](#2-modules-and-the-code) ·
[runs and bounds](#3-what-is-checked) · [fairness](#4-fairness) ·
[proofs](#5-what-is-proved) · [findings](#6-disagreements-found) ·
[limits](#7-what-is-not-modelled) · [plan](#8-plan)

## 1. The program

Everything runs in one thread: there is no worker, no lock, no atomic variable.
What makes the program hard is that its handlers are not atomic all the same. A
handler that shows a message box, the file dialog, the about box or WinINet's "go
online" prompt runs a message loop inside itself, and that loop dispatches whatever
was posted to the dialog meanwhile: `WM_DROPFILES` from the shell, `IDC_PASTE` from
the output window. So handlers nest, over static variables they all share. The rest
is partial failure: reads, allocations, requests and a C library that leaves by
`longjmp`.

| Component | State it keeps | Operations | Talks to | Correct when |
|---|---|---|---|---|
| Dialog (`GbxDump.cpp`) | `s_szUid`, `s_szEnvi`, the two online buttons, `g_hDibThumb`, `g_hBitmapThumb`, the about-box guard | initialise, drop, paste, open, TMX, Dedimania, F1, close; `DumpFile`, `ReplaceThumbnail`, `MarkAsUnsupported` | every component, by calls; the shell, by posted messages | what is shown, and what a click will ask, belongs to the file dumped last, whatever nests |
| Decoder of JPEG (`ImgFmt.cpp`) | `JmpBuffer`; per call: libjpeg's object, ICC profile, DIB | `JpegToDib` and the callbacks `my_error_exit`, `my_output_message`, `my_emit_message` | libjpeg by callbacks, the dialog by message boxes | an error returns into the call that had it; nothing is leaked, nothing released twice; rows stay in the DIB |
| Online query (`Tmx.cpp`, `Dedimania.cpp`, `Internet.cpp`) | the UID it was given (the dialog's own static), buffer, session and file of a request | `DumpTmx`, `DumpDedimania`, `ProcessTmx`, `ProcessMx`, `RequestMxData`, `ReadInternetFile` | WinINet, XmlLite | one map per query, newest exchange first, "not found" only when all have answered without it, every handle closed, the button back exactly after a failure |
| Answers (`Tmx.cpp`, `Dedimania.cpp`) | the place in the buffer (a static of `strtok`/`estrtok`); stream, reader and the locals of `ParseAndOutputXml` | cut into lines and fields; read node by node | output window, XmlLite | every field under its own record and column, never outside the line; a record's texts are printed for it, under their names; all that was created is released |
| GBX header (`DumpGbx.cpp`) | position, fixed fields, one chunk slot per section | `DumpGbx`, `DumpChallenge` and its eight siblings, the sections | the dialog (UID, environment, picture) | the table is read from the right place, sections do not overlap and are all tried |
| Identifiers (`Archive.cpp`) | `IDENTIFIER`: version, eight names | `ReadIdentifier`, `ResetIdentifier` | the sections, the buttons | an identifier reads as what the file means |
| Header texts, references (`Archive.cpp`, `Misc.cpp`, `DumpGbx.cpp`) | blocks of memory, path buffers, the number of the last folder | `ReadString`, `ConvertGbxString`, `CleanupString`, `ReadRefTable`, `ReadSubFolders` | all dumpers | codes are removed and nothing else, every buffer has room, folders have their own path |
| Other files (`DumpPak.cpp`, `DumpBmp.cpp`, `DumpDds.cpp`, WebP) | blocks of memory | dump | the dialog | fields by version, every block freed, the bits are found where the file has them |
| Pictures (`ImgFmt.cpp`, `DumpGbx.cpp`) | DIB, blended copy, rows for the encoder | `WebpToDib`, `DdsToDib`, icons, `CreatePremultipliedBitmap`, `SavePngFile` | the dialog, libwebp, crunch | every pixel keeps its place and colours through all conversions |
| Commands (`GbxDump.cpp`) | clipboard, file being saved, output window | menus, copy, save, paste, word wrap | shell, other programs | the clipboard is given back, what is saved is what was shown, under its name |
| Settings, layout, DPI, dark mode | registry values, fonts, window positions | | window manager | |
| libjpeg, libwebp, crunch | third-party | | | not ours |

Behaviours that are hard to test, and the properties aimed at them, are listed one by
one (`hazards` in `PROJECT.json`). The main groups:

* **Nesting.** A batch of files is overtaken while it waits in the box of a decoder
  message; a query is overtaken while WinINet asks; a second box or query is tried
  while the first is open. Input cannot do this (owned modal windows disable the
  dialog), posted messages can.
* **Shared cells.** The UID, environment, buttons, picture, blended copy, file name,
  output window, clipboard and `JmpBuffer` are written by whoever comes last; the
  clipboard also by other programs.
* **Partial failure.** Any read, allocation or request fails; four ways out of a
  decoder; five early returns of a request; dozens of returns between
  the allocation of a pack's comment and its printing. Some failures are not noticed: a
  page about an error is an answer, XML that breaks off is read to its end, an exception
  while a picture is converted is swallowed.
* **Locals that outlive what they are about.** A record's fields of an XML answer, the
  table of identifiers, the path buffers of a recursion.
* **Width and place.** Chunk offsets and the size of a DIB are `DWORD` sums; six loops
  copy pictures, each with its own order of rows and colours; the bits of a bitmap
  file are where its header says, those of a packed DIB behind its colours.

## 2. Modules and the code

| Module | Models | State ↔ code |
|---|---|---|
| `Viewer` | the dialog's thread | `stack`: active handlers, innermost last, each with the place (`pc`) it stands at; `queue`: posted messages; shared cells are represented by the number (*ticket*) of the `DumpFile` call that filled them: `uidOf`, `enviOf`/`envi`, `tmx`/`dedi` (buttons), `thumbOf`, `bitmapOf`, `titleOf`, `jmpOf`; `bAboutBox`; `boxed`, `overtaken`: history (was a decoder message shown in a box; was the last file dumped inside a query?) |
| `TrackPanel` | abstract specification: what the dialog promises about its two buttons | implemented by `Viewer` under the mapping at its end |
| `OnlineQuery` | one query with every request of it | `chain`: endpoints left; `request`: 1–3; `buffer`, `session`, `file`: held resources; `success`, `found`: the locals of `DumpTmx`; `told`, `urls`, `failed`, `notFound`: history. `told` has what each endpoint has really sent (`Sayings`): nothing about the track, the track, an error page, or data in which no identifier is read, whatever the program takes it for |
| `AnswerLines` | cutting an answer into lines and fields, in place | `lpszData`, `lpsz`, `lpszNewLine`, `token`, `last`, `i`, `uRecords` as in the code; `fields`: history |
| `MxAnswer` | `ParseAndOutputXml` with the part of `RequestMxData` that owns the answer | `held`: what is to be released; `open`, `leaf`, `rank`: where XmlLite is in the tree; `arrayType`, `wszElement`, `field`, `pnTrackId`: the locals; `lastSent`, `idSent`, `printed`, `labelled`: history |
| `GbxHeader` | `DumpGbx` and the class functions | `pos`, fixed fields, `slots` (one `CHUNK` per section), `toParse`; `table`, `parsed`, `wrapped`: history |
| `Identifiers` | `ReadIdentifier` in its sections | `idVersion`, `index`, `names` = `IDENTIFIER`; `uid`, `envi`, `tmx`, `dedi`; `tokens`/`got`: history |
| `RefTable` | `ReadRefTable`, `ReadSubFolders` and `ReadString` | `stack`: the active calls of `ReadSubFolders`, each with its path buffer; `dwIndex`: the shared number; `output`: history |
| `Strings` | `ConvertGbxString`, `CleanupString`, `AllocReplaceString`, `AllocCleanupString` | `lpszOriginal`, `lpszOrigPtr`, `lpszReturn`, `cchRetLen`, `lpszTemp`; `held`: blocks; `written`: history, the pieces a text that follows the rules consists of |
| `PackHeader` | `DumpPack`, `DumpPackHeader` and what they call | `packTodo`: fields still to be read; `lpData`, `owned`: the blocks and who frees them; `printed`: history |
| `JpegDecode` | one call of `JpegToDib` with its caller | `jpeg`, `bNeedDestroy`, `profile`, `dib`, `locked`, `hDib`, `shape`, `size`, `scanline`; `written`, `destroys`, `lost`, `faulted`: history |
| `Pictures` | the row loops of the other decoders, of the blended copy and of `SavePngFile` | `hDib`, `hbmpDib`, `lpRGBA`: sequences of bytes, each byte named by what it says; `held`, `hasDib`: blocks |
| `BitmapFile` | `DumpBitmap` and where `DibBitsOffset` then looks | `size`, `colours`, `offBits` as the code changes them; `bitsAt`, `cleared`: history; `owner`, `allocated`: the block |
| `Commands` | menus, clipboard, saving, word wrap | `stack`, `queue` as in `Viewer`; `holder`, `contents`: the clipboard; `hNewDib`; `named` (`s_szFileName`), `picture`, `window`, `saved`; in the frame of a save, `whole`: was the picture converted without an exception? |

Actions are named for the handler or the step they model. An action is everything
between two points where something else can happen: a message loop, a call that can
fail, a read that chooses a value. `DumpFile`, for instance, is `StartDump` (it clears
UID, environment, buttons and thumbnail and opens the file), `OpenFile`, `ReadIds`,
one of the picture actions, and the next file or the end of the batch; only a decoder
message (`ShowTrace`, `ReportError`) lets others in between.

How the modules fit together:

```
 shell, user ──► Viewer ──implements──► TrackPanel
                   │  IDC_TMX, IDC_DEDIMANIA       (ClickTmx … QuerySucceeds/QueryFails)
                   ├───────────────► OnlineQuery ──► AnswerLines, MxAnswer
                   │  DumpFile                     (OpenFile, ReadIds)
                   ├───────────────► GbxHeader ───► Identifiers, RefTable, Strings
                   ├───────────────► PackHeader, BitmapFile
                   │  pictures                     (StartJpeg … FinishJpeg/Jump, DecodeImage)
                   ├───────────────► JpegDecode, Pictures, BitmapFile
                   │  the same loops, other commands
                   └─ ─ ─ ─ ─ ─ ─ ─► Commands
```

`Viewer` is the composition of what the dialog can observe (a query may succeed, fail
or prompt; a file may have identifiers and a picture; a decoder may finish, warn, fail,
jump or fault), and the module below says when each of those happens. Assumptions that
`Viewer` makes are properties of the parts: identifiers come before the picture
(`GbxHeader!IdsBeforePicture`; `Viewer` has `ReadIds` before the picture), and the buttons
are enabled for environments the services know (`Identifiers!ButtonsLeadSomewhere`;
`Viewer` has the classes of environments only). Conversely `OnlineQuery`'s `DropDumped` is
what `Viewer` shows to be possible. `Commands` has the message loops of `Viewer` once more,
with the state that `Viewer` leaves out; a batch of files there is only its pictures.

Three parts are shown to be, step by step, what `Viewer` has for them. Each has at its end
a mapping `Dialog` of its variables to those of `Viewer` (a dialog that does nothing else),
and the property is that every step of the part is a step of `Viewer`'s next-state relation or
a stutter; the initial states differ, as `Viewer`'s come before any file or click.

* `OnlineQuery!QueryAsInDialog`: a query is one handler, which spends its button when it is
  clicked, lets others in only where WinINet prompts, and returns once. A batch inside the
  prompt is many steps of `Viewer`; `BatchInPrompt` stands for them. It allows all cells of
  the dialog to change, but not the handler.
* `JpegDecode!DecodeAsInDialog`, for a thumbnail and for a JPEG file: `StartJpeg`, then
  `FinishJpeg`, `AbandonJpeg` or `ReportError` and `Jump`. A new picture there is one that
  was completed. What the decoder shows in boxes is in `Viewer` only.
* `Identifiers!IdsAsInDialog`, for a map and for a replay: all tokens of all sections are the
  one step `ReadIds`, taken where the section that names the track ends or breaks off.

Three modules put parts next to each other for TLC. `MCAnswers` composes `OnlineQuery`
with the two ways in which an answer is read; `MCContents` composes the five readers of
a header (`GbxHeader`, `Identifiers`, `RefTable`, `Strings`, `PackHeader`); `MCJpegDecode`
composes the three ways of a picture into a DIB. The parts share no state in the code
either: a behaviour of the composition is a behaviour of one part while the others
stand still.

Definitions named as mutants (`StartDumpKeepingUid`, `RowBelow`, ...) stand before the
definition they spoil. No specification uses them; each turns one property false when
it takes the place of the real definition, which shows that the property depends
on that piece of code.

## 3. What is checked

| Run | Module | Question | Distinct states |
|---|---|---|---|
| `viewer` | `MCViewer` | handlers nested three deep in every way: do the cells stay consistent (`IdsOfLatest`, `BitmapOfThumb`), does no query or box open twice (`NoHandlerTwice`), and, as long as no decoder message was shown in a box, is the picture of the last file (`PictureOfLatest`) and does every jump return to its own call (`JumpReturnsUnboxed`)? Are enabled buttons truthful (`ButtonsTruthful`) and is `TrackPanel` implemented (`PanelPromise`), unless a file is dumped inside a query? Does the program come back to a loop (`Responsive`), are posted messages dispatched (`PostedAreDispatched`)? | 116 k |
| `viewer_longjmp` | `MCViewer` | *violation*: `JumpReturns` when the box has no owner | |
| `query` | `MCAnswers` | every step of every request failing or not: leaks (`NothingLeaks`), order (`NewestFirst`), "not found" (`NotFoundOnlyAfterAnswers`), the button (`FailureGivesButtonBack`), termination (`QueryEnds`); every short answer cut into fields (`FieldsAsSplit`); every small tree of XML, cut off anywhere (`PrintedAsSent`, `AnswerReleased`); is a query what `Viewer` has for it (`QueryAsInDialog`)? | 128 k |
| `query_tmo` | `MCOnlineQuery` | *violation*: a failed last request is reported as "not found" | |
| `query_mapinfo` | `MCOnlineQuery` | *violation*: a known map is reported as "not found" | |
| `answer_stale` | `MxAnswer` | *violation*: a replay without a user's name is printed with the one before | |
| `query_onemap` | `MCOnlineQuery` | *violation*: one query asks about two maps | |
| `contents` | `MCContents` | every small header, every read failing: is the table that of the file (`TableAsInFile`), do sections overlap (`SectionsDisjoint`), is each one tried (`AllSectionsTried`), do identifiers come before the picture (`IdsBeforePicture`)? And its contents: every mix of identifiers (`ReadAsMeant`, `ButtonsLeadSomewhere`), nested folders (`FoldersAsNested`), texts (`CleanedAsMeant`, `LinesFit`) and packs of all versions with every field missing (`PackPrinted`); is reading a section's identifiers the step of `Viewer` (`IdsAsInDialog`)? | 643 k |
| `jpeg` | `MCJpegDecode` | every small picture and every failure: all rows inside the DIB (`PictureInDib`), each resource released exactly once (`GivenBackOnce`); the pixels of all other formats keep place and colours until they are saved (`PixelsKept`); blocks of memory are freed (`BlocksFreed`); is a call of `JpegToDib` what `Viewer` has for it (`DecodeAsInDialog`)? | 121 k |
| `bitmap_gap` | `BitmapFile` | *violation*: the gap that `DumpBitmap` declares as colours hides the colours that were implied | |
| `commands` | `MCCommands` | menu, clipboard, saving and word wrap while handlers nest and other programs use the clipboard: six properties, see below | 4.3 M |
| `save_damaged` | `MCCommands` | *violation*: what an exception has left of a picture is saved as a success | |

The properties of `commands`: the clipboard is never left open nor
taken away from a paste that works off its list (`ClipboardKept`); who prints has the window
that is there (`OutputIsCurrent`); the copied DIB is freed exactly if the clipboard has
not taken it (`DibOwnedOnce`); a save ends in a file that was written to its end, or in a
message and no part of a file (`SavedOrSaid`; that the file has the whole picture is proved
of bitmaps only, see `save_damaged`), with the picture of the file whose name it proposes
(`SavedUnderItsName`); a copy chosen from the menu finds a picture it can copy
(`CopyFindsPicture`). Three of them hold only as long as no decoder message was shown in
a box of its own, and say so; what happens behind such a box is the subject of
`viewer_longjmp`.

What an answer is taken for and what it is are two things in `OnlineQuery`.
`NotFoundIsTruthful` says that "not found" is printed only if each endpoint has said so; the
runs `query_tmo` and `query_mapinfo` refute it for servers that answer in full, each in
its own way, and what remains of it is a theorem (`HonestAnswersAreTruthful`). With error
pages and broken answers it cannot hold, as the code does not know them from others.
`NotFoundOnlyAfterAnswers` and `NewestFirst`, in the run `query` with error pages and broken
answers, say what the code does guarantee: no endpoint is skipped, no failed request
counts as an answer, and nothing that was taken for the track is forgotten
(`TakenForUnknown` lists the answers that count as "unknown").

`RecordsAsSent`, a part of `PrintedAsSent`, says which text stands where one is printed: the
last one sent of its kind. So what a record has is its own, while what it lacks is that of
an earlier record; an object's user is the exception the code makes, and `answer_stale`
shows the replay for which it does not.

`SavedAsShown`, a part of `PixelsKept`, covers pictures that a read has failed in: pixels may be
missing, none is displaced. `BitsFound`, the other part, covers gaps and overlaps of whole
colour entries; its comment lists the gaps of which it says nothing.

### Bounds, and why they are enough

* `Viewer`: three dumps, batches of up to two files out of three offered (so that the
  cap `MAX_FILES`, 100 in the code and 2 here, is reached), two posted messages, three
  handlers. A violation of a shared cell takes the owner, one who overtakes it and what
  is resumed afterwards: two dumps and two handlers; one more of each lets the one who
  overtakes be overtaken. The nesting bound stops dispatching, and the property that it
  could falsify (`PostedAreDispatched`) names it. The proofs of section 5 do not depend on
  any of these bounds.
* `Commands`: the same numbers, and one change of the output window: a handler holds
  either the old one or the new one. Proved without the bounds, too.
* `OnlineQuery`: all groups of environments with their full chains; answers of 0 to 3
  chunks and a buffer of 2, so that answers are shorter than it, fill it and exceed it. Two
  switches say what servers may do: `ErrorPages`, that one answers with a page about an
  error, which may even look like data to the readers of TMX and Dedimania (they want one
  separator); `XmlBreaks`, that an MX answer ends before its identifier. Both are on in `query`.
* `AnswerLines`: seven characters hold a skipped line and two records with an empty
  field, or three lines; all such answers are taken.
* `MxAnswer`: two records of any kinds, every text present or missing, the answer cut off
  behind every node: what is left over from one record meets the next.
* `GbxHeader`: a `DWORD` of 7 bits, so that two chunks can make the offset overflow;
  tables of up to three chunks with any identifiers, repeated and unknown ones
  included; sizes empty, plain and "heavy"; text and binary files of versions on both
  sides of every comparison (2, 3, 5, 6). Two classes, the ones with most sections and
  those that identify a track; the order of the others is in the module and in the
  proofs.
* `Identifiers`: a table of two names and four identifiers per section, so that it
  overflows; names listed by both services, by one, and a mere part of a name (`"Sta"`,
  which `strstr` accepts).
* `RefTable`: a path buffer of five characters and folder names of 0, 1, 2 and 6, so that
  names fit alone, with others, or not at all; four folders nested up to three deep,
  so that a path is continued, shortened again and continued differently.
* `Strings`: every text of up to six of the four kinds of characters: a code of one
  and of three characters, one cut short by the end, escaped dollar signs next to
  codes; those that are a sequence of well-formed pieces are also checked against what the
  pieces say one by one. The output buffer is one character larger than needed.
* `PackHeader`: every version that some comparison distinguishes (5 to 17), and up to two
  packs, folders and files.
* `JpegDecode`: a `DWORD` of 5 bits; the largest pictures overflow, the others do not.
* `Pictures`: one to three columns and rows: rows with every kind of padding, first,
  middle and last rows. Alpha 0, 128 and 255: invisible, partly and fully visible.
* `BitmapFile`: the real sizes of DIB headers, every class of bit depth, numbers of
  colours on both sides of the limit, gaps that are a multiple of a colour's size or
  not, overlaps with the colours and with the header.

`CHECK_DEADLOCK FALSE` in every configuration: the program ends when the dialog is
closed, a query, a file or an answer when it is finished, and the bounds end the rest.

## 4. Fairness

* `Viewer!FairSpec`: weak fairness of what the *program* does, never of the user or
  the shell. One thread runs on until it enters a message loop, and a loop dispatches
  what is posted. Whether a box is ever dismissed is not assumed; `Responsive` counts
  waiting in a loop as progress, and `PostedAreDispatched` holds because all modal
  loops dispatch too.
* `OnlineQuery!FairSpec` (in `MCAnswers`, `AnswersSpec`): weak fairness of the program's
  steps. The calls into WinINet return: `Internet.cpp` sets connect and receive timeouts.
  The prompt is the user's.

The other modules are checked for safety only. Their loops end by the shape of what they
read: a number of rows, of entries, of characters.

## 5. What is proved

Eight proof modules, all leaves checked by TLAPS. Assumptions are only the named ones on
constants (`BoundsAssumption`, `WordAssumption`, ...: bounds are natural numbers, switches
are Boolean, a converted text leaves room in its buffer), and what a theorem states itself.

**`Induction`** — what the others need about data. The induction principles of the library
take a predicate, which no installed prover can instantiate; `SetInduction` takes a set
instead, and `RecursionExists` shows that a function defined by a first value and a step
exists, so that the recursive functions of the models (`SizesUpTo`, `InFolders`, `Counting`)
have the values that their definitions say. Division with remainder is here, too.

**`ViewerProofs`** — for any number of files, messages and nested handlers. The properties
are not inductive: `IdsOfLatest` is preserved by `ReadIds` only if the dump that reads is
the last one started, which is a fact about the *other* activations. `IInv` adds what is
needed:

* `StackInv`: each activation stands at a place of its own kind, and all but the
  innermost stand in a message loop. So only the top of the stack can run.
* `FreshInv`, `UnreadInv`: a dump that has not come to its picture has not been
  overtaken, because nothing before the picture runs a loop.
* `QueryInv` (unless the last file was dumped inside a query) and `JpegInv` (until a decoder
  message is shown in a box): a query, or a decoder, is not overtaken either.

`InvariantHolds` proves `Spec => []IInv`, one step per action; the rest are consequences:
`TypeCorrect`, `IdsAlwaysOfLatest`, `HandlersDoNotDouble`, `BitmapAlwaysOfThumb`;
`PictureAlwaysOfLatest` and `JumpsAlwaysReturn`, whose properties speak of the time before
a decoder message was shown in a box; `ButtonsAlwaysTruthful`, whose property leaves out the
file that was dumped inside a query (until the next one is dumped outside); and
`PanelImplemented`, refinement of `TrackPanel`: each action maps to a step of it or to a
stutter, but for the steps of a dump inside a query (`DumpInQuery`), which may enable
buttons while a query is open. A click and the end of a query, with what it does to its
button, are always steps of `TrackPanel`. The exceptions are necessary: the runs `query_onemap` and `viewer_longjmp` show
what happens inside a prompt and behind a box.

**`CommandsProofs`** — all six properties of the run `commands`, for any number of files,
messages, windows and nested handlers. The first half says once what a step can do to the
stack (`Still`, `Pushed`, `Returned`, `Became`; closing the clipboard also marks the lists
of pastes) and to the queue. `IInv` then has:

* `StackInv`, as in `Viewer`.
* `HistoryInv`: nobody knows of a later dump than the last; a command to save has the
  name of the dump that was the last when it began; before any box, the picture is that of
  the last dump, and so is the one a command to save has taken, or of a dump behind it.
  A picture that is to be saved as a bitmap is whole (`Converted`).
* `DibInv`: the DIB is ours only while the command that made it runs, which no loop
  interrupts.
* `CopyInv`: the least obvious one. A copy finds its picture because, whenever a batch
  replaces the picture without a new dump, it has waited in a box before, and boxes are
  left only when no message is waiting — unless the nesting is at its bound, and then
  what waits is older than the dump.

`ClipboardAlwaysGivenBack` and `ListAlwaysHeld`, together `ClipboardAlwaysKept`, `OutputAlwaysCurrent`, `DibAlwaysOwnedOnce`,
`AlwaysSavedOrSaid`, `AlwaysSavedUnderItsName`, `CopyAlwaysFindsPicture` follow.

**`AnswersProofs`**, `OnlineQuery` — for any set of groups and any size of buffer and answer.
`NothingLeaks` is inductive with the types. `OutcomeInv` relates the place in the chain to
what the endpoints have said: those behind are the ones told (`OrderInv`), the one asked is
the next (`AskingInv`), a query that goes on with `found = FALSE` has an answer from everyone
in which nothing was taken for the track (`ChooseInv`). From it: `NewestAlwaysFirst`,
`NotFoundAlwaysAfterAnswers`, `FailureAlwaysGivesButtonBack`, and, from the second of these,
`HonestAnswersAreTruthful`: without error pages and broken answers, "not found" is the truth
on all groups but the three of `query_tmo` and `query_mapinfo`.

**`GbxHeaderProofs`** — for any width of a `DWORD`, any file and any table. `PositionInv`
follows the fixed fields to `POS_NUMBER_CHUNKS` (`TableIsAtUserData`); `OffsetInv` bounds the
running offset while the table is read. `SectionsNeverOverlap` rests on both and on lemmas
about masked sizes and remainders. `OrderInv` says that what is still to do is the end of
the class's order of sections, with no identifying one left once a picture's was parsed
(`IdsAlwaysBeforePicture`). `HeaderTypeCorrect`
includes that offsets keep their width. Two theorems are about data of any length:
`SlotsAlwaysFollowTable` (every slot has the offset and the size of the last entry with its
identifier; the invariant `TableInv` says so of the entries read, where an offset is the
sum of the sizes before it, modulo the width; with `TableIsAtUserData` it is
`TableAlwaysAsInFile`) and `AllSectionsAreTried` (`TriedInv`: what is
left to do is the end of the class's order, and each section before it was tried).

**`JpegDecodeProofs`** — for pictures and profiles of any size and any width of a `DWORD`.
`ObjectInv` and `MemoryInv` say at each place what is allocated and which flag knows it;
`RowInv` describes the rows written so far in either direction and that the size is that of
the shape; `ResultInv` what is returned. From them: `NeverReleasedTwice`, `NothingEverLeft`,
together `EverythingGivenBackOnce`; `RowsAlwaysInside` (with a lemma about products)
and `PictureAlwaysComplete`, together `PictureAlwaysInDib`; `DecodeTypeCorrect`.

**`JpegDecodeProofs`**, `Pictures` and `BitmapFile` — for pictures with any number of rows and
columns, and for bitmap files with headers, numbers of bits and of colours, gaps and
lengths of any size. `BmpBlockInv` and `PicBlockInv` say at each place which blocks are
allocated: `BlocksAlwaysFreed`. The other theorem, `PixelsAlwaysKept`, has two parts.

* `BmpPlaceInv`: until the gap is looked at, everything is as the file has it; behind that,
  the offset that `DibBitsOffset` calculates from the changed number of colours is the place of
  the bits (`Placed`), if there is no gap or one that the table's entries can make up for.
  `GapLands` and `OverlapLands` are the arithmetic: a gap of whole entries, positive or
  negative, is the size of the colours that are added or taken away. Left out are gaps
  that are not of whole entries, follow a core bitmap's table or would make more than 4096
  colours, overlaps into the colour masks, and gaps behind a table of implied length, where
  the code is wrong (`bitmap_gap`).
* `PixelInv`: the rows stored so far, in the DIB, in the copy or in the file, are those of the
  picture in the order and with the colours that are meant, or black where a read has failed
  (`RowsIn`, `Present`, `Kept`); none is another row's. It is one formula
  for all three, with the length of a row, the order of rows and the colours as parameters;
  `RowStored` says that one more row keeps it, and `RowDecoded` and `RowTaken` that
  the loops put such a row: the first although a row of WebP is copied with the bytes
  behind it, the second although rows differ in length, order and colours.

Assumed are `PictureAssumption` (a picture has a row and a column) and `BitmapAssumption`
(what a file counts has no sign, and no file comes near the size at which a `DWORD` wraps:
the code compares differences of `DWORD`s with the size of the file, see `Less`).

**`AnswersProofs`**, `MxAnswer` — for any number of records. `TreeInv` says where in the answer the
reader can be, `ArrayInv` and `NameInv` that the locals `arrayType` and `wszElement` agree
with it, `SentInv` that the texts of a record arrive in order and that each local holds the text of its
kind that was sent last (`Latest`). `MxAnswerPrintedAsSent` assumes
that an answer has records only of the four kinds whose texts `MxAnswer` lists (`Arrays \subseteq Kinds`).
`MxAnswerReleased` has an inductive invariant of its own: what is held at each place.

**`AnswersProofs`**, `AnswerLines` — for answers of any length. `FieldsAsSplit` compares the
fields handed to the switch with those that can be read off the answer as it was received;
the proof first restates these for a format and an answer alone (`EndsOf`, `StartIn`,
`LineIn`, `CountsIn`, `FieldAt`), as the buffer changes while it is cut. `LinesInv` has a
part for each place of the loop:

* the fields printed are those that end below the token (`FieldsBelow`), and its column is the
  number of fields that count between the start of the line and the token (`Columns`);
* only the end of the line and the end of the token are overwritten (`CutOff`); the static
  of the tokenizer holds the place behind the token, or, for `estrtok`, none at the
  end of the line (`Remembers`);
* from that place on everything is as received, up to the NUL at the end of the
  line (`Closed`), and unchanged behind it (`Uncut`). This is why a search never leaves the line.

`EstrtokFinds` and `StrtokFinds` say what one call of either tokenizer does to this; the
separators that `strtok` skips are empty fields, which do not count for it. That the search for a
character finds the first one needs that a set of numbers has a least element (`LeastNatural`).
`FieldsAlwaysAsSplit` follows.

**`PackHeaderProofs`** — for packs of any version with any number of included packs, folders and
files. The code keeps the blocks in locals of `DumpPack` and returns from dozens of places;
what is allocated is told by the fields that still wait. `Phases` says of each phase which
fields these are (`Collects`: at most one comment and one XML text, and behind them what is
printed), and with that who owns which block. `PackAlwaysPrinted` follows.

**`ContentsProofs`** — what the contents of a header are read as, in three parts.

* `Identifiers`, for any texts and any number of sections. `TablesInv` are the types
  of the lookback table; `OnceInv` says that the section that names the track is parsed at
  most once, and that where it has enabled the button, the environment read there as its
  second identifier is one of those it enables it for. No later section can change that:
  `ButtonsAlwaysLeadSomewhere`. `NamesInv` relates the table to the tokens of the section:
  the names are those of its first named tokens, the index counts them until the table is
  full. A number in the file refers to that count, so `AlwaysReadAsMeant` needs induction on it.
* `RefTable`, for buffers of any size, any names, and folders nested as deeply as one likes.
  `PathsInv` says that the buffer of each active call holds the names of the folders around it,
  joined and cut off where the buffer ends; that cutting off twice is cutting off once
  (`FitsTwice`) makes it inductive. `FoldersInv` is about the one counter that all calls share:
  with the folders still to come in every frame it adds up to those announced, which
  needs a sum over the stack (`Open`). From both, `FoldersAlwaysAsNested`.
* `Strings`, for any text and any buffer. The loop that copies a text must find the pattern as
  often as the loop that has counted it. `Counting` is the counting loop round by round;
  `MatchesLeftFacts` says that the matches still to come fit into the rest of the text and that
  there are none when no further one is found. `TextInv` has the copying loop at some
  round of the counting one (`EscapeInv`), and that the other passes write no more
  than they read. `LinesAlwaysFit` follows.
  `TextsAlwaysCleaned` is about the three passes together. A text that follows the rules
  is a sequence of pieces; every pass turns them from one form into the next (`Spelling`,
  `EscapedForm`, `StrippedForm`, `Meaning`). `CleanInv` says that a pass has read some number
  of pieces in the one form and written as many in the other. That a pass continues it
  (`PassGoesOn`, `PassEnds`) rests on `FindPiece`: the pattern that `_tcsstr` finds is that
  of the next piece the pass is meant for, never one formed by the end of one
  piece and the beginning of another (`Tells` is what the forms need for this).
  `SaysLess`, that a text with a dollar sign says less than it is long, is why the buffer of the
  size of the text cuts nothing off.

**The dialog's parts.** `QueryImplementsDialog` (`AnswersProofs`), `DecodeImplementsDialog`
(`JpegDecodeProofs`) and `IdentifiersImplementDialog` (`ContentsProofs`) prove the
three mappings of section 2 for every value of the constants, one step per action. The first
needs the types only. The second needs `Answered`: there is no result
until the decoder has returned, and one from then on. The third needs `ButtonsInv`: the
two buttons are at all times those of the class of the environment's name (`Fit`; Stadium is
in two classes, told apart by the number of its collection), nothing is known of
the track before the naming section has read it; and, from `OnceInv`, no other section
names the track again.

Every safety property of a passing run is so the property of a theorem, some under the
assumptions named above. Only model-checked is liveness (`Responsive`, `PostedAreDispatched`,
`QueryEnds`), which is beyond the prover.

## 6. Disagreements found

Each is a run that TLC must find violated; `PROJECT.json` quotes the lines.

1. `JmpBuffer` is one static (`ImgFmt.cpp:486`), and `ImgFmt.cpp:737` says that
   `longjmp` returns "to setjmp in JpegToDib". When a decoder error is shown in a box
   without owner (the dialog is not active), a waiting drop is decoded inside it and
   refills the buffer; the outer error then jumps into a call that has returned
   (`viewer_longjmp`).
2. `Tmx.cpp:149` drops the result of the last exchange of the first TrackMania: a
   request that failed is reported as "map not found" (`query_tmo`).
3. `Tmx.cpp:538` accepts `<SmMapInfo` and `<QmMapInfo` as valid data, but nothing reads
   an identifier from them: a known map is reported as not found (`query_mapinfo`).
4. `DumpTmx` is to ask about "a specific map" (`Tmx.h:19`), but works on the dialog's
   static: a file dropped during WinINet's prompt changes it between two requests
   (`query_onemap`).
5. "Username element can be empty or missing" (`Tmx.cpp:657`): for objects the local is
   cleared, for replays it is not, and one without a name is printed with the user of the
   record before (`answer_stale`).
6. `SavePngFile` "saves a DIB as a PNG file" (`ImgFmt.h:37`), but swallows an exception in
   the conversion (`ImgFmt.cpp:426`), saves what it has and returns `TRUE`: a damaged
   picture, and no message (`save_damaged`).
7. `DumpBmp.cpp:585` declares a gap "as (additional) color table entries", but adds them to a
   number of colours that is 0 when the file leaves it to the bit depth: the implied
   colours are then taken for picture (`bitmap_gap`).

Other states that the code reaches and no text of the repository rules out are values of
the models, and the properties name them as exceptions: the DIB whose handle is lost by
the jump (`lost`, a local that is not `volatile`), and what stays allocated after an
exception in libjpeg that the caller swallows (`faulted`), both in `NothingLeft`; a page about
an error, as nobody asks for the status of an HTTP answer (`Internet.cpp:50`), and data in
XML that breaks off before the identifier, as `Tmx.cpp:716` makes the end of the data and
a failure of XmlLite both `S_OK`, two answers that end in "map not found" and a button that
stays disabled, in `TakenForUnknown`; a file dumped inside a query, over which the failed
query enables its button (`GbxDump.cpp:693`), in `ButtonsTruthful` and `PanelPromise`; the DIB of
an icon that cannot be locked (`DumpGbx.cpp:3754`), in `BlocksFreed`; and what happens
behind a box without owner, in every property with `boxed`. `ImgFmt.cpp:330` and `:404` carry
the note "TODO: Add test for visible pixels": a picture with nothing but zeros for alpha is
saved invisible, though the dialog shows it.

## 7. What is not modelled

* libjpeg, libwebp and crunch, which are most of the repository's lines: third-party code.
  The models stand for about half the lines of the program's own source (`src/GbxDump`);
  the libraries are external to the models, calls that may succeed, fail, call back or fault as
  their callers rely on. So are WinINet, XmlLite, GDI, Video for Windows and User32. That
  keyboard and mouse input comes after posted messages, and that owned modal windows
  disable the dialog, is taken from how the code relies on it.
* Fields of the header sections that are read in sequence, printed and forgotten, of
  whatever class: no decision, cell or block depends on them. The same holds for the
  header of a DDS file. Identifiers, texts, references and packs have their modules.
* Wording, formatting of numbers, dates and sizes; names are model values or one of a few
  strings.
* Arithmetic within one colour (palettes, CMYK, colour management, scaling, drawing):
  `Pictures` has the place and the order of colours, and which conversions happen.
* Registry, fonts, layout, DPI, dark mode, window placement: straight calls into the
  window manager. `SetWordWrap` is in `Commands`, as it replaces a window others hold.
* Concurrency of threads: there is one thread.

## 8. Plan

Done: all modules above, with eight proof modules. Left are the contents of the
remaining sections, where versions decide which fields follow.
