# A verification of rosco-cli

`rosco` builds programs for rosco_m68k and rosco_6502 boards, uploads them over
a serial line, talks to the board's console and runs the emulator in its place.
With every m68k project it ships the boards' C libraries, which the programs it
builds are linked against. This directory holds TLA+ models of the parts that
keep state across steps somebody else can get between: two upload protocols,
the console session, the emulator sessions, the settings with the search for an
emulator that writes to them, the commands of a project from its sources to the
image that is handed over, and, of the libraries, the FAT file system and the
heap. TLC checks them on small instances; TLAPS proves the central invariants
of all of them for every value of their constants. Paths below are relative to
the repository's root; `kermit.rs` and the like are in its `src/`, and
`fat_*.c`, `heap.c` and `llist.c` in
`templates/rosco_m68k/common/libs/src/` (`sdfat/fat_io_lib`, `shmall`).

To check a module: `tlc -config kermit.cfg MCKermitTransfer`; to prove:
`tlapm KermitTransferProofs.tla`. `PROJECT.json` maps every definition to the
lines it translates and lists the runs, the mutants each property must catch,
the hazards and the theorems.

## The system

| Component | State | Operations | Talks to | What makes it correct |
| --- | --- | --- | --- | --- |
| Kermit transfer (`kermit.rs`) | packet being sent, attempts, cancel flag | `send_file`, `exchange_init`, `send_and_ack`, `read_packet` | the rosco_m68k firmware's receiver over a UART | the file is stored once and in order; success means stored; the command ends |
| Kermit codec (`kermit.rs`) | negotiated parameters, the packet being filled | `parse_params`, `encode_byte`, `build_packet`, `read_packet` | the same | bytes survive; packets fit; damage is noticed |
| Hex upload (`ihex.rs`) | record, attempt, what has been read | `send_program`, `send_record`, `write_command`, `settle`, the waits | the rosco_6502 monitor over a UART | only whole programs are started; success means started |
| Console (`serial.rs`) | the shared flag `running`, a read chunk, `last_was_cr` | `console`: a stdin thread and the main loop | terminal, board or emulator | input in order, output as printed, and a way out |
| Emulator session (`emulator.rs`) | child process, container, scratch directory, listener | `start_here`, `start_in_docker`, `remove_abandoned_containers`, `accept_console`, `attach`, `drop` | Docker, the emulator, other rosco processes | nothing left behind; nothing of another's taken |
| Settings (`settings.rs`, `config.rs`) | two TOML files, merged in layers | `set`, `unset`, `edit`, `remember`, `pins` | other rosco processes through the files | no setting lost; what is written is what is read |
| Installation (`install.rs`) | a checkout on disk, settings | `ready`, `offer`, `fetch`, `compile` | git, make, Docker | a half-made emulator is not taken for one |
| Commands (`app.rs`) | none of their own: the project on disk | `run`, `upload`, `build`, `monitor`; `ports`, `doctor`, `init` | all of the above | checks before effects; the image handed over is the right one |
| Build (`build.rs`) | files on disk: the artifact, `libs/build` | `build`, `Runner::run` | make, Docker | the artifact is this build's, against whole libraries |
| FAT files (`fat_filelib.c`, `fat_write.c`, `fat_cache.c`, `fat_access.c`) | handles with a one-sector buffer, a place in their chain and a cache of it; the directory | `fl_fopen`, `fl_fread`, `fl_fwrite`, `fl_fseek`, `fl_fflush`, `fl_fclose`, `fl_remove` | the FAT, the card | no cluster has two owners; what is written is read; what is closed survives a reset |
| FAT buffers (`fat_table.c`) | a list of buffers of several FAT sectors | `fatfs_fat_read_sector`, `..._writeback`, `..._purge`, `..._set_cluster` | the card | what is read is what was set |
| Heap (`heap.c`, `llist.c`) | headers and footers in the heap, nine size-ordered lists | `heap_alloc`, `heap_free` | `malloc`, `free` | no byte has two owners; no hole is lost |
| GDB stub (`m68k-stub.c`) | packet buffers, saved registers | `getpacket`, `putpacket`, the exception handler | a debugger on the serial line | commands run once |
| Other libraries (`libm`, `printf`, `cstdlib`, `vterm`, ...) | none between calls | | | |
| Creation, prompts, toolchain, command line (`init.rs`, `prompt.rs`, `toolchain.rs`, `cli.rs`) | none between steps | | | |
| Templates' make files and samples | what make leaves on disk | `all`, `clean`, `install` | `build.rs` | `libs/build` is usable when its link script is there |

The commands run one thing after the other; the concurrency is with what is
outside. A UART upload races the board's own timers and whatever an interrupted
upload left on the line. The console has two threads and a far end that may
close, fail or stall. A session shares Docker with every other session. The
settings files are shared without a lock. A project's commands come one after
another, but each starts from what the last one left, and the user edits and
presses Ctrl-C at any step. The boards' libraries run in one program on one
processor; what gets between their steps is a reset, a card that fails or fills
up, and the order in which a program calls them on several handles or blocks.

## What is hard here

* **Late answers.** A timeout resends; the answer to the first send then comes
  after all, and is read for something later (`kermit.rs:285`, `ihex.rs:205`).
* **Left-overs.** Neither board is reset before an upload: what an earlier one
  left on the line, in the monitor's buffer or in memory is this one's start.
* **Numbers modulo 64.** Only the low six bits tell packets apart.
* **Retry limits.** The last attempt, and zero of them.
* **Budgets.** A packet must fit a limit the board chose, with characters that
  encode to one, two or three.
* **Typing at a monitor that prints.** The board drops characters.
* **Two threads and one flag.** Either thread can be stuck where it cannot see
  the flag.
* **Clean-up that races creation.** Docker creates the container whenever it
  gets to it.
* **Files without locks**, and truncated before they are written.
* **Existence as a sign of completeness.** An artifact, or one link script, that
  is there says that a build, or an installation, has been finished.
* **Caches of a chain that grows**, and buffers that may overlap.
* **A card that is written in no order**, and may be taken away at any moment.
* **A heap that keeps its books inside itself.**

`PROJECT.json` has each of these at its line, with the properties that cover it.

## The modules

| Module | What it is |
| --- | --- |
| `FileTransfer` | what any upload promises: pieces stored in order, each once; done only when all are |
| `KermitTransfer`, `MCKermitTransfer`, `KermitTransferProofs` | the Kermit transfer, its checking, its proofs |
| `KermitCodec`, `KermitFrame`, `MCKermitCodec`, `KermitCodecProofs` | parameters, quoting, packing; framing and block checks; checking; proofs |
| `HexUpload`, `MCHexUpload`, `HexUploadProofs` | Intel hex uploads to one monitor, one after another; checking; proofs |
| `Console`, `MCConsole` | the console session; checking |
| `EmulatorSession`, `MCEmulatorSession`, `EmulatorSessionProofs` | several processes' emulator sessions; checking; proofs |
| `Settings` | the two settings files and the commands that change them |
| `Installation`, `MCInstallation`, `InstallationProofs` | finding or getting an emulator, and saving the answer, on top of `Settings`; checking; proofs, also of `Settings` |
| `Workflow`, `CommandProofs` | a project's commands and its build; proofs, also of `Console` |
| `FatVolume` | what any use of a FAT promises: chains that share no cluster |
| `FatFiles`, `MCFatFiles`, `FatProofs` | files on a card, down to FAT entries and handles; checking; proofs, also of `FatVolume` and `FatTable` |
| `FatTable` | the FAT's sector buffers over a card that fails |
| `Heap`, `MCHeap`, `HeapProofs` | allocation and freeing; proofs |

### KermitTransfer

`idx` is the packet being sent: 0 is Send-Init, 1 the file header, then the
data packets, the end of file and the break (`Final`). `sender` is `"send"` at
the top of the loops of `exchange_init` and `send_and_ack` and `"wait"` inside
`read_packet`. One turn of a loop is `SendPacket` and one of `ReadAck`,
`ReadRemoteError`, `ReadUnexpected`, `Timeout` and `ReadInterrupted`, in the
order of the code's match; `Cancelled` and `SendFails` are its other ways out.
`exchange_init` takes any `Y`, `send_and_ack` one with the packet's number: that
is `Acknowledges`. A packet is its sequence number and its index; its bytes are
KermitCodec's business.

The board is external: a stop-and-wait receiver that takes the packet it
expects, acknowledges the one before it again, refuses others, and leaves after
the break. `toBoard` and `toHost` are the two directions of the line: it loses
and damages, but a UART neither reorders nor duplicates. An answer may be late
(`Timeout` with something under way), and then the surplus it causes travels on.

### KermitCodec and KermitFrame

The parameters come from an answer by `ParseParams`; the state machine is the
loop of `send_file` that encodes bytes into `chunk` while four characters still
fit. `Decode` is a receiver's reading of what `encode_byte` writes, external
(`Decoding` has it from each place of a packet on), and `Received` what the board
has of the file after each packet.
`KermitFrame` has `build_packet` and `read_packet` as functions on byte
sequences; it is apart since it uses the `Bitwise` module, which the provers do
not take.

### HexUpload

`host` follows `send_program`: `settle L`, the keystrokes `L` and `L cr`, `ready`
(waiting for `READY`), `write` and `answer` per record, `eof`, `report`, `rest`
(the rest of the report's line), `settle R`, the keystrokes of the start command.
What is written is a sequence of pieces: a keystroke, or a record's text, its
carriage return and its line feed, so that a line can be damaged, cut, split by
a stray line feed or joined to the next. Reads bring any number of words at once,
as the code's buffers do. The monitor is external and follows the fake of the
unit tests (`ihex.rs`, tests): a command ends at a carriage return; a record
ends at a line feed and begins at its colon, and a line without one damages the
load; a program that is started may return to the prompt. `memory` and `started`
exist for the properties.

Uploads follow each other on one board, each from whatever the one before left.
`StartsWhole` and `ProgressHonest` are of any number of them, on a board nobody
resets; `ResetHarmless` says the same of the first two, resets or not (see
Findings for the third).
Assumptions about the outside: a new load forgets an earlier load's damage; a
board misses keystrokes only while it prints; the board's printing ends within
the two seconds `settle` allows; an answer may be lost or garbled but not turned
into the other answer; the monitor's echo is left out.

### Console

`input` is the stdin thread: check the flag, read a chunk, write it key by key.
`main` is the main loop. A key is either the quit key (Ctrl-C or Ctrl-]) or
not; a byte is `x`, `cr` or `lf`. `device` is the far end: open, stalled (takes
no input), closed or failed. A serial port's write times out; a socket's blocks.
Once the main loop has ended the process goes and nothing else moves. What a
printed byte becomes on the terminal is `Shown`; the property says where each
byte is to be (`PlaceOf`): behind those before it, and behind one more for each
line feed among them that a carriage return was put before (`Adds`).

### EmulatorSession

`phase[p]` follows one process through `start_here` or `start_in_docker`, the
three looks of `accept_console` (listener, child, deadline) as three steps, and
the three steps of the clean-up, which `attach` and `drop` have in the same
order. A container is `asked` between the client's request and the daemon's
creation of it. A sweep looks at each listed name (`Sweep`) and, a step later,
removes it (`RemoveAbandoned`); docker may fail at that, and nobody is told.
`AsRoot` has the processes that root runs: to anybody else the question after one
of them is refused, and `process_exists` takes that for its absence. `doomed`,
`stuck`, `swept` and `missed` exist for the properties. A process may be killed
outright at any step. Process ids are not reused, and there is one computer.

### Settings and Installation

A file is absent, a text that does not parse (`Garbled`), or a document: the two
keys of the emulator section, and whether that section is an inline table, which
`merge_tables` sees through and `pins`, `insert` and `unset` do not. A command is
`ReadChange`, `Truncate`, `Write`, once for each change in `todo`; `CutShort` is a
full disk or a kill inside `fs::write`, and a write over what another has just
written may leave a mixture (`Written`). `ConfigEdit` and `EditorSaves` are the two
ends of the user's editor. `kept` is what the finished commands make of a file in
the order they wrote; `hurt` that two overlapped on it, or one was cut short.

Installation extends it with the commands that need an emulator. `LoadGlobal` and
`LoadProject` are the two reads of `load_from`; `Ready` resolves and looks;
`UseImage`, `BuildHere`, `UseExisting` and `Cancel` are the menu; `Fetch`, `Clone`
and `Compile` are `build_here`'s steps on a tree that survives kills; `Remember`
chooses the file, and from there the steps are those of Settings. A path is a model
of its place: the same everywhere, or relative and another place in each working
directory. `told` is the last answer saved until somebody changes a file.

git, make, Docker and the user are external: a killed clone leaves `.git` and
unfinished sources, which make does not build; a clone that fails removes what it
made. `ROSCO_EMULATOR` is not told apart from the name looked for on `PATH`: both
come after everything saved.

### Workflow

`at` is where a command is: `file` and `flags` (what `upload` looks for, and
`use_emulator`), `ready` (`install::ready`), `prepare`, `clean`, `libraries`,
`install`, `make`, `making`, `check` (the steps of `build::build` and the test of
the machine's family behind it), `deliver`. The order of these is the code's, and
each may be the last: a command fails there, or `Interrupt` is Ctrl-C. `Edit`
makes a new revision of the sources at any step. `artifact` is the file at the
path `rosco.toml` names; an image records the revision it was made from (`source`),
the earlier edits that are not in it (`lacks`), and whether the headers and
archives it was made against were whole. `libs` follows the three parts of `make
install` in its order; a part being copied is `cut`. `handed` is what the last
command gave a board or an emulator.

make goes by modification times, over the dependencies that the make files give
it, and these are not all there are: C++ and assembler objects depend on no header
(`software.mk:132`, `:135`), and an edit made while its object is being compiled is
older than that object. So where there are objects (`compiled`) an edit may be one
that make does not see (`unseen`). A build takes every edit that make sees and any
of the others with it, whichever objects happen to be compiled anew; an image
whose later edits are all unseen is left as it is (`UpToDate`); a build that stops
half-way has compiled some of what it had to (`BuildStops`). `Clean` removes the
objects, and what is built behind it lacks nothing but what was edited since
(`Escaped`). The clock does not go back, the user's edits keep no old time, and the
arguments of `clean` remove the objects, as both templates' do.

make and the user are external: make deletes the target it was writing when
interrupted, and a project may name an artifact that its build does not write. One
command at a time runs in a project. A firmware, and the 6502, need no libraries. What the image does after
it is handed over is the other modules' matter.

### FatVolume and FatFiles

`FatVolume` allocates, extends and releases chains of clusters; its invariant is
that chains are disjoint and lead to no free cluster. An extension may link new
clusters behind several of the file's: one `fl_fwrite` can extend twice, to flush
the buffer and then to write a sector, and the second time it begins wherever a
stale cluster cache says the chain ends. `FatFiles` is the library:
one action per call, or per pass of the loops of `fl_fread` and `fl_fwrite`, on
a record `w` of the FAT in memory, the hint, the data sectors and the handle.
`Walk` is the search for a cluster in `_read_sectors` and `_write_sectors` with
its two short cuts, the last cluster looked up and the cluster cache (`cached`
says whether the library is built with it). `card`, `dir` and `data` are what a
reset at that moment would leave; so no action is a reset, and a property about
a reset is one of these three in every state. Operations that write to the card
more than once (`Create`, `Close`, `Remove`) are cut between their writes;
`WriteBack` puts any dirty FAT sector on the card at any time. `content` and
`kept` are what was written to a file, and what it held when it was closed.

Assumptions: a cluster has one sector; one directory, whose entries are written
at once and which has room or not; fewer than sixteen handles; the volume was
formatted so that an empty file has a cluster (as this library makes them); the
FAT has as many entries as the card has clusters; reads beyond the card's end
fail and nothing else of the medium does; the FAT is coherent in memory. The
last two are `FatTable`'s subject. The hint moves as it does on
FAT32; on FAT16 it never moves (`fat_table.c:262`), and each search begins at the
front, which finds every free cluster that a search from the hint does.

### FatTable

`list` is the chain of buffers from `fat_buffer_head` on. `Look`, `SetHit` and
`SetMiss` are `fatfs_fat_read_sector` for a read and for a write of an entry;
a miss recycles the last buffer (`Spare`), whose write-back (`WritebackFails`) or
refill (`ReadFails`) may fail after it has been moved to the front. `onCard` is the
card's FAT, `intended` the FAT as it was set and `overlapped` whether two buffers
have ever had a sector in common; the last two are for the properties. A failed
write leaves the card as it was.

### Heap

A block is named by the address of its header; `foot[a]` is the header that the
footer before address `a` leads to, `bins` the nodes of each list in order. The
lists are sequences: a `prev` or `next` that is still read after its node was
removed (`remove_node` leaves both as they were, `llist.c:43`) would not be seen.
`TakeWhole` and `TakePart` are `heap_alloc` without and with a split, `FreeFirst`
and `Free` the two branches of `heap_free`. `heap_free` looks at the header
behind a block; behind the last block that is memory outside the heap, which
reads as in use here, and `Escape` is the step where it reads as a hole:
`escaped` is then set and the model goes no further. Callers free what they
were given, once, and write only inside it.

## The runs

| Run | Question | Bounds |
| --- | --- | --- |
| `kermit` | order, honest success and progress, retries that suffice, the refinement of FileTransfer, and an end | 2 data packets (6 packets), sequence numbers modulo 2, 4 attempts, 3 faults, in three settings |
| `kermit_codec` | packing, quoting, framing | maxl of 5, 8, 10, 80, 94 and 0, with and without 8th-bit quote, all three checks, files of up to two bytes of each kind of byte and one of twelve |
| `hex_upload` | two uploads over each other's left-overs: what is started, reported and written, with and without a reset, and an end | records of 2 bytes, 4 addresses, programs of 0, 3 and 4 bytes at address 1, 1 retry, one fault of each of six kinds |
| `console` | input, output, and the ends of a session | 2 keys, 3 bytes, every kind of fault |
| `emulator` | two sessions, clean-up and sweeps | 2 processes, one of them root's, both runners, every failure |
| `settings` | what the files hold, where a saved answer leads, what is run | 2 commands of any kind over any two files to begin with, one path and the CLI's own, inline tables, every failure |
| `workflow` | what the image that is handed over was made from | any number of commands, 3 edits, every project and every command |
| `fat_files` | whose a cluster is, what a file gives back, what a reset leaves | 2 files, 3 clusters of 2 units, FAT sectors of 2 entries; one file read, sought in and overwritten, one appended to |
| `fat_table` | reads of the FAT give what was set | 2 buffers of 2 sectors over 4 sectors of 2 values, every failure |
| `heap` | blocks, bins, room and best fit | 36 bytes, 4 bins, 4 bytes of overhead, requests of 0, 3, 6, 10 and 255 of 256 |
| `emulator_outlives`, `fat_cache` | what a document says and the code does not do | see Findings |

`kermit` has three settings, chosen in the initial state: in a rough one
everything may happen, aborts, cancellation and a dead board among it; in a calm
one the line has fewer faults than there are attempts and nobody gives up; a
stale one is calm and begins with an interrupted upload's acknowledgement on the
line. The safety properties and `AlwaysEnds` are of all three; `RetriesSuffice`
and arrival are of the calm one, and `StaleAloneHarmless` of the stale one.

Why the bounds are enough. The Kermit state depends on a packet's index only
through "first", "last", "data" and its number, and two neighbours are what can
be confused: modulo 2 over six packets wraps twice and leaves the numbers the
least information; the proof covers the rest. Four attempts against three
faults let one late answer cost a later packet an attempt, again and again, up
to the limit: a fourth fault breaks `RetriesSuffice`. The codec tells apart bytes
by kind (plain, quote, control, each with and without the 8th bit) and files by
whether a packet fills: with maxl 8 it fills at the second byte. In `hex_upload`
a program of three bytes has a short last record, one of four bytes at address 1
runs one over the end, and 0 is refused; two uploads suffice for one to meet
what another left. Two keys and three bytes put a quit key before, behind and
beside another key, and a line end across reads. Of two sessions each may be the
sweeper, the swept or a bystander. Two commands over the settings are what it
takes to overlap, or for one to change what the other has read; longer histories
come in through the initial files and trees, which are all there can be. In
`workflow` three edits put one before a command that make does not see, one that
it sees, and one during the build; commands are not bounded. Three clusters are two for one file and one for
the other, so that the card fills while a file grows, a chain crosses a FAT
sector, and what one file frees another takes; a file of two sectors has a
first, a next and an end to remember. Two FAT buffers of two sectors overlap,
miss and are recycled; the proof covers the rest. The heap of 36 bytes has room
for enough blocks that one is freed with a hole on either side, on both and on
none, and that a bin holds nodes of several sizes.

Every property of a passing run has a mutant (a definition marked as a slip in
its module) that breaks it under the same bounds. `fat_files`, `fat_table`,
`heap` and others may stop where their bounds leave nothing to do; their
configurations say so.

## Findings

Each of these is shown by a run that violates one property, the document's claim.

* **A container can outlive its session** (`emulator_outlives`): the removal may
  come before Docker has created it. A later session's sweep takes it once this
  process has ended, unless docker fails again (`SweepsAbandoned`).
* **The cluster cache loses the end of a file** (`fat_cache`): the boards'
  library is built with it, and it remembers the end of a chain that then grows.
  A file written past its first cluster and sought back in stops there, and a write
  from there on truncates its chain. Without the cache the same run keeps
  `ReadsBack`.

These are stated in the modules as what a document or a comment says; each was
seen violated by TLC while modelling, and no run repeats it.

* **The end-of-file record is never sent again** (`RejectedIsSentAgain` in
  `HexUpload`), though `ihex.rs:39` documents `max_retries` as how often a
  rejected record is.
* **Ctrl-C stops working after one failed write** (`CtrlCEnds` in `Console`,
  `serial.rs:91` and `:142`): the stdin thread returns without clearing the flag.
* **A sweep takes the container of another user's live session** (`SparesLive` in
  `EmulatorSession`): `kill(pid, 0)` is refused for a process of root's, or of
  anybody else's, and `process_exists` (`emulator.rs:506`) takes any refusal for
  the process's absence. The comment at `emulator.rs:473` says that the sweep stops
  what "a session that was killed outright" left behind. TLC's run has root at its
  emulator (`AsRoot = {p1}`) while another user starts one.
* **A relative answer is asked for again** (`AskedOnce` in `Installation`): an
  existing build, or a place to build in, is saved as it was typed, and read back
  from wherever the next command runs; `install.rs:5` and `README.md:515` say the
  question comes once. `pins` does not see an inline table either, so an answer
  may go to the user's file where the project's hides it.
* **A machine of the wrong family is refused after the build**
  (`BadFlagsFailFirst` in `Workflow`), though `app.rs:102` says a bad flag "fails
  in a second rather than after a toolchain run". The test is at `app.rs:124`.
* **FAT buffers of more than one sector can disagree** (`Coherent` in `FatTable`):
  a buffer begins at whichever sector was asked for, so two can overlap; a change
  in one is not seen through the other, and the later write-back undoes it. The
  boards' library is built with eight sectors a buffer (`fat_custom.h:28`).
  `SingleCoherent` proves that one sector a buffer is safe, `TableCoherent` that
  overlaps are the only way.

Noticed on the way, of the libraries:

* Opening an existing file with `"w"` or `"w+"` does not erase it, as the comment
  at `fat_filelib.c:709` says it does: `FILE_ERASE` is set and never read.
* `fl_fseek` drops a dirty buffer unwritten (`fat_filelib.c:1131`), and `fl_fread`
  one for which no cluster was left. `ReadsBack` excepts bytes lost so.
* `fl_fwrite` returns the full count when the card was full
  (`fat_filelib.c:1392`), and clusters freed below the hint are not found again
  before the volume is mounted anew (`fat_table.c:288`).
* A failed removal (`fl_remove` whose entry is not found) leaves its handle open.
* `malloc(0xFFFFFFFF)` rounds up to 0 and returns a block of no bytes
  (`heap.c:67`); `HasRoom` excepts it. The first block is never joined with the
  hole behind it when it is freed (`heap.c:110`). A free of the last block reads
  a header behind the heap (`heap.c:131`); see `Escape`.
* `software.mk` rebuilds C objects, not C++ ones, when a header changes.
* A third hex upload can be one answer ahead of the monitor, after a reset. The
  first is killed once `L` is out; its `READY` is printed after the second has
  settled, and the board is reset. The second takes that `READY` for its own and
  writes a record to a monitor that has not read its `L`; it is killed too. The
  third then finds a `READY` and an answer to the second's record on the line,
  reads each of its own answers one record late, and counts a record that was
  refused: the report may still say `successful`. TLC finds it with three
  uploads (a checksum fault, two kills, a reset) as a violation of what
  `ResetHarmless` says of two. Waiting for the line to be quiet does not help:
  `settle` (`ihex.rs:285`) drops only what has arrived.
* `max_retries` is the number of sends in `kermit.rs:271` and one less than it in
  `ihex.rs:151`. `init` records an emulator's path without its source
  (`init.rs:177`).

Some properties are stated around what the code does and no document denies:
`KeepsTheRest` excepts commands that overlap on a file and writes cut short,
either of which loses settings; `LeavesNothing` excepts the scratch directory of
a `rom_set` that failed; `RoundTrip` needs an 8th-bit quote in the ranges the
protocol allows, which `parse_params` does not check; `RunHandsOverItsOwn` is of
projects whose `rosco.toml` names the file the build writes, and excepts edits that
make does not see, unless `--clean` was given: then it demands every edit made
before the command; `SweepsAbandoned` excepts a removal that docker fails;
`LinkedAgainstWhole`
is of headers and archives: the link script itself, copied last, may be cut
short and is then taken for a sign of success.

## Fairness

The Kermit and hex senders are single threads whose every wait has a deadline:
their steps, and the timeout of a quiet line, are weakly fair. A board with
power reads its line; its steps are weakly fair too, and so is the line's
delivery, since losing is a fault with a budget. No fault, late answer, abort,
cancellation, reset or return of a program is owed. In `Console` both threads
are scheduled (weak fairness of each), the main loop's read returns because its
port or socket has a read timeout (`app.rs`, 50 ms for the emulator), and
nobody owes a key or a byte. In `EmulatorSession` each process runs; `Expires`
is strongly fair because its deadline is a clock's: the poll comes round to it
again and again and it passes at last. The other modules state no liveness: a
menu waits for its user, a command's make for its compiler, and the libraries'
calls are loops over finite chains and lists that run to their end in one step.

## What is proved

`KermitTransferProofs`, for every number of data packets, every modulus of at
least 2, every retry limit and fault bound (`TransferAssumption`). The
properties are not inductive: that an acknowledgement read for the current
packet was sent for it rests on what can be under way. `IndInv` says it:
`Position`, the board is at the sender's packet or one ahead; `PacketsFollow`,
the packets on the line are of the sender's packet or the one before, in order,
and once the board is ahead only of the sender's; `RepliesFollow`, the same of
acknowledgements; `ReportFollows`, the progress is the index's. Two neighbours
differ modulo any number from 2 up, so `ReadAck` implies that the board has the
packet (`AckIsCurrent`). From it: `Typing`, `Ordering`, `Delivery`, `Progress`,
and `Refinement`, the step simulation of `FileTransfer`, where an accepted
packet is `Store`, the last acknowledgement `Succeed`, and each way to give up
`Fail`. These are about `Spec`; a transfer that begins with a stale
acknowledgement does not satisfy `IndInv`, and is model-checked.

`FaultsArePaid` is of the calm setting of `MCKermitTransfer`: with fewer faults
than attempts nobody gives up. A late answer costs every later packet an
attempt, so the faults so far do not bound the attempts by themselves. What does
is `Paid`: the attempts at this packet, with what is under way and not this
packet's, never exceed the faults so far, or exceed them by the one attempt
whose answer may still come. So a surplus answer is weighed once: as a left-over
while it is under way, as an attempt once it has been read.

`KermitCodecProofs`, for every set of answers, names and files
(`CodecAssumption`). `ByteSurvives`: decoding what `encode_byte` makes of a byte
gives the byte and stops where the encoding does, for every legal quote and
whatever follows. `Invariance` of `ChunkOK`, `PacketsOK` and `HeaderFirst`, from
which `Fits` and `NoControl`: the packet being filled is within the
budget because a byte takes at most three characters (four are required), and
not empty because the budget is at least four. `Survives` is of whole files: the
bytes before each packet's end (`cut`, one for each packet) are those decoded
from the packets so far. `Decoding` and `Received` are recursive functions; what
they are on every packet is shown by the least place where it would fail.

`FatProofs` of `FatFiles`, for any card, files, modes, lengths and places to seek
(`FilesAssumption`, `VolumeAssumption`), with the cluster cache or without it.
The invariant is `IndInv`, of four parts besides the types. `Apart` is what keeps
chains apart: a cluster is free or some file's, links stay in their file, no two
lead to one cluster, none leads to a file's first. `HandleOK`: what an open file's
handle remembers of its chain, the cluster looked up last and the cache, are
clusters of its own file. It does not say that they are the right ones: with the
cache they need not be (`fat_cache.cfg`), and no file meets another all the same,
because a wrong cluster is still its own. `OpOK`: a file half created
or half removed is not open, and the cluster of one being created ends its chain.
`SettledOK`: of a file that is closed, the card has every link of its clusters,
not only of its chain, and the file is what it was.

A call is a chain of changes to the record `w`, and each operation (`Hop`, `Walk`,
`AddFreeSpace`, `WriteSector`, `Flushed`, `Loaded`) is shown to keep `IsLibrary`,
that the handle remembers clusters of its file, and to do nothing but `Grows`:
blank clusters become the file's and are linked behind its own. `Grows` composes
(`GrowsTwice`), so a call grows once (`GoesOn`), and that is one `Extend` of
`FatVolume`. `LeftAlone` is the other half: what a call does not own it leaves as
it was. That the library frees just what `FatVolume` does has a reason
of its own: it follows as many links as the card has clusters, while `FatVolume`
takes the least closed set. A chain that nothing links to and whose links come
apart repeats no cluster (`NeverAgain`), so by counting it has ended by then
(`ChainEnds`). `Follow` is a recursive function; `Least` and `Induction`, from
the well-foundedness of the natural numbers, unfold it. From these come
`LibraryKeepsVolume`, `FilesNeverMeet` and `ClosedFilesSurvive`.

`FilesReadBack` is `ReadsBack`, so of the library without the cache. Beside
`IndInv` it needs `BackInv`: an open file is carried by the library (`Carries`)
and a closed one is what its entry's chain has (`ClosedBack`). `Carries` says of
every unit that the handle's buffer has it, if the buffer is of its sector, and
that its chain leads to it on the card, unless that buffer is still to be written.
It holds from call to call because the cluster looked up last is where the chain
has it (`AtOK`), so that a walk ends at the sector's own cluster (`OnPath`);
because a chain that a write prolongs is unchanged as far as it went (`Prolongs`),
which needs that no link leads to a blank cluster, to the first or to the same
one as another (`Straight`); and because a buffer to be written has a cluster
before it (`Reach`), or its write would come to lie too early. None of the three
is so with the cache. Each operation of the library carries whatever was carried
(`ReadMoves`, `WriteSectorIs`, `FlushedIs`, `ThroughCarries`), each call then keeps
`BackInv` for its file, and `OthersBack` does so for all files that are left alone.

`ChainsStayDisjoint` is the promise of `FatVolume` for whatever uses it, with
variables of its own (`AnyVol`): an extension only takes free clusters, and a
release only gives up a chain that is closed under its links and that no link
from outside leads into.

The proof changed the model once. `FatVolume` used to let an extension begin
behind one cluster only; that a call may extend behind two came out when
`GrowsTwice` would not go through. The cards TLC had tried were too small for it.

`FatProofs` of `FatTable`, for any FAT, values, and number and size of buffers
(`TableAssumption`). While no two buffers overlap, at most one has a sector; the
invariant says that a buffer has of its sectors what was set, and that a sector
in no dirty buffer is on the card as it was set. From it `TableCoherent` and
`TableSaved`. `SingleCoherent` adds that buffers of one sector can only overlap
by having the same address, which a miss rules out.

`HeapProofs`, for every heap, overhead, ladder of bins and set of requests
(`HeapAssumption`). The blocks tile the heap (`Tiles`) because each header's
footer leads back to it, and the first block begins at the start (`Preceded`:
whatever is before a block's address is the block its footer names); a split or
a join moves one border and its footer. That a removal from a bin finds its node
needs `Binned`, each bin's nodes being holes of its sizes, each once. `IInv` is
these with `TypeOK` and `HasRoom`. From it `BlocksTile`, `CallersHaveRoom` and
`BinsAreRight`. `BestFit` needs `Sorted` as well: each list is in the order of
its holes' sizes, which an insertion keeps. Then the first node that fits, of
the first bin that has one, is a smallest of all, the bins being in the order of
their sizes too.

`CommandProofs` of `Workflow`, for any number of edits. `Installed`: a link script is there
only when headers and archives are whole; `Installing`: what of the parts is
done is what is not in `todo`; `Building`: what is built with the libraries has
them, whole; `OwnWork`: what a build makes, and behind a build that succeeded the
artifact, is `Recent`, of no revision before the command's, and after `--clean`
lacking no edit from before it, because what make does not see was made since;
`Accepted`: whoever is at `deliver` has passed the flags and the family. From them
`NothingLinkedAgainstHalves`, `RunBuildsWhatItHandsOver` and
`ImagesSuitTheirMachines` (`SuitsTheMachine`: a firmware's image goes down no
cable, and `run` starts its image on no machine of another family).

`CommandProofs` of `Console`, for any number of keys and printed bytes, any kind
of session and any faults (`ConsoleAssumption`). `Forwards`: what has been sent,
with the chunk that has been read, is what was typed up to there, and no quit key
is in it, though a chunk is cut at one wherever it comes. `Ending`: the flag is
false only behind a quit key or an error of the main loop, and each way the loop
ended has its cause. `Shows` is of the display: the bytes shown so far are those
printed, each at `PlaceOf`; `LastIs` says that `last_was_cr` is about the last
byte of the *previous* read, without which a line end cut in two by a read would
get two carriage returns. The display of a whole read is a recursive function,
shown to be right for every length by the least place where it would not be.
From these `ForwardsInOrderHolds`, `AllIsShown` and `OnlyQuitEndsHolds`.

`InstallationProofs`, for any number of processes, of paths and of directories
(`SettingsAssumption`, `InstallationAssumption`). Three invariants, each on top of
the ones before. `FilesInv`: while nobody overlapped on a file, one command at
most holds it, it began from what the finished commands made of it (`Making`),
and between truncation and write the file is empty; so `RestIsKept`. `MenuInv`:
nobody but one command clones into a place, what `ready` returns is built where
its command runs and stays so whatever others are cut short in, and is not this
program; so `EmulatorIsThere`. `AnswerInv` follows an answer to the files: a
command whose files nobody changed meanwhile has in `todo` just the changes its
answer asks for, and with the rest of them made the files lead to that answer
(`Outcome`), in whichever of the two files it writes and whatever the other
holds. That it may take two changes, and that the first alone leads elsewhere, is
why the invariant speaks of the end and not of each step. Hence
`AskedOnceWithTables`, of answers that are not relative and projects whose
section is no inline table; the Findings say why not of the others.

`EmulatorSessionProofs`, for any number of processes, whoever of them are root's,
and any faults (`SessionAssumption`). `DoomedOK`: a process that was gone when it
was listed stays gone, and its container is gone, still to be looked at, about to
be removed, or one that docker failed to remove; `AimOK`: a sweep is about to
remove one container at most, and none once it is over; `CleanedUp`: behind the
removal there is nothing left to remove but what was missed. From them
`SweepTakesAbandoned` and `EndsClean`.

`HexUploadProofs`, for any records, memory, retries, number of uploads and
faults (`HexAssumption`). `Inbox` is what the board has not acted on, its input
line and the line to it; `Outbox` what it has said, printed or not. `Confined`:
every piece is of an upload so far, and of the last one inside its program; so
`WritesInsideOnly`, and no record wraps. `Position` is where `send_program` is,
with its counters. `StartsLast`: the pieces are in the order of their uploads,
and a start command of the last one is out only if the upload came to it; so
`FailureIsIdle`. `Sequential` holds while nobody presses reset, over any number
of uploads that were killed, lost or late: at most one record is on its way, and
only to a loader (`OneRecord`); the loader's `READY` is there only while none is
(`OneReady`); a start command's digits are first in the line at the prompt, of a
complete program (`DigitsFirst`); and what is said belongs to what the program
waits for (`Speaking`). So an answer is the one to the record just written, and
`WholeStarts` and `ReportsStored` follow. A reset breaks it: a loader's `READY`
is then there without a loader. `RejectionsOutlived` has an invariant of its
own, `Lockstep`, for a first upload with nothing amiss but damaged records: the
program and the monitor take turns, `attempt` is at most the records damaged so
far, and one of the two always has something to do.

Only model-checked: everything temporal beyond invariants (liveness under
fairness is outside the prover), so that uploads, transfers, sessions and waits
end; `ResetHarmless`, which is true of two uploads and not of three, so that an
invariant would have to count them; the transfer that begins with a stale
acknowledgement; the framing and its checks, which need `Bitwise`.

## What is not modelled

Of the settings, the schema, the board's defaults and the keys other than the
emulator's are left out: no other part of the program writes those. Project
creation, prompts, toolchain checks and the command line keep no state between
steps that anything can interleave with: text generation, menus, lookups. Port
listing, the emulator's arguments and mounts, image pulls and `capture` are calls
or pure functions. A Kermit receiver left waiting after a failed transfer is the
firmware's. Process ids that are reused, several computers on one Docker daemon
(`emulator.rs:506`), and an accepted socket that inherits
non-blocking mode (`emulator.rs:640`) are left out.

Of the FAT library: subdirectories, growing directories, long names and their
short forms, listing, mounting and formatting; clusters of several sectors; the
FSINFO sector. Of the heap: `calloc` and `realloc`, which are compositions of
allocation, copying and freeing. The GDB stub is left out because what matters
in it, a command that is run twice when its `+` is lost, depends on a debugger
that is not in the repository. The remaining board libraries have no state that
another step could get between: `libm` is newlib's numerical code (two thirds of
all lines in the repository), `printf` and `cstdlib` format and copy, `vterm`,
`easy68k`, `sst_flash` and the start-up code write to devices.

So the mapped share of the C sources is small and will stay so: most of those
lines are `libm`'s. The program itself is the Rust in `src/`, of which the
modules translate what keeps state.

## What could come next

`HexUpload` as an
implementation of `FileTransfer` for a board that starts at its prompt; clusters of
several sectors and directories that grow in `FatFiles`; the composition of
`FatFiles` with `FatTable` in place of a coherent FAT.
