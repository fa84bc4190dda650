# Verification of control_iot

TLA+ models, TLC runs and TLAPS proofs for the firmware of a solar inverter on
an ESP32: `src/main` and `src/includes` (the application) and
`src/components` (SPI driver, display library, SPIFFS file system).
`PROJECT.json` maps every definition to the lines it models and lists runs,
mutants, findings, hazards and theorems. Paths below are relative to
`src/`.

## 1. The system

| Component | State | Operations | Talks to |
|---|---|---|---|
| Application start: `main/main.c`, `includes/Utilities.h` | `nvs_started` | NVS init with one erase and retry; pins, display, LED strip; four tasks | everything below |
| Power controller: `includes/SysteMeasurements.h`, `ScreenFunctions.h` | the globals `sysState`, `inverterState`, `screenState`, `defaultLoad`, `LoadPwr`, GPIO 18, the backlight | `GetSystemInputTask` (overload line, two buttons), `GetSystemParams` (ADC limits, charger, fan), `ScreenUpdateTask` (panel) | each other, by unlocked globals; display; files (icons) |
| Panel contents: `UpdateVal`, lamp and fan icons | `flashUpdate`, `Prev*`, animation flags | drawing texts and icons | `LoadPwr`, `FlashState`; display |
| SPI driver: `components/spidriver/spi_master_lobo.c` | bus semaphore, per handle `selected`, clock and bus; per host current device, bus, registers, DMA channel | select, deselect, get/set speed, transfer, bus init and free, device add and remove | FreeRTOS semaphore, DMA |
| Display transfers: `components/tft/tftspi.c` | `trans_cline`, `_dma_sending` | commands, pixels (direct or DMA), reading pixels | SPI driver through one handle, `disp_spi` |
| Drawing library: `components/tft/tft.c`, fonts, `stmpe610.h` | colours, font, clip window | lines, text, JPEG and BMP images | display transfers; files |
| VFS layer: `components/spiffs/spiffs_vfs.c` | list of open files, `fs.err_code` | POSIX calls on paths and descriptors | descriptor list, SPIFFS |
| Descriptor list: `components/spiffs/list.c`, `mutex.c` | array, `indexes`, free chain | init, add, get, remove | VFS layer |
| SPIFFS calls: `spiffs_hydrogen.c` | `fd_space`: object, flags, size, position, cache page | open, read, write, lseek, stat, close, remove, rename, ... under one mutex | cache, objects |
| SPIFFS cache: `spiffs_cache.c` | pages: read (page index) or write (object, offset, size) | get, allocate, evict, release, read- and write-through | calls above, flash |
| SPIFFS objects: `spiffs_nucleus.c` | lookup tables, index pages, data pages on flash | append, modify, truncate, read, find, events to descriptors | cache, garbage collection |
| SPIFFS gc and check: `spiffs_gc.c`, `spiffs_check.c` | free and deleted page counts | make room, repair | objects |
| Flash access: `esp_spiffs.c` | none | aligned read, write, erase | `spi_flash` |
| LED strip: `led_strip.h`, `RGBCtrl.h` | one pixel buffer | a fixed colour sequence | RMT |

`.vscode/` (older copies and the host tool mkspiffs), `build/` (generated) and
the fonts are no part of the behaviour of the firmware.

**What is hard.** The three power tasks share plain globals and one GPIO pin
without any lock, on two cores: every read-modify-write can be interleaved, and
several are (the reset of `sysState`, the acknowledgement of an alarm, the
redraw). All tasks that draw share one SPI handle, whose `selected` flag is tested
outside the semaphore that protects the transfer. SPIFFS is serialised by a
mutex, but its descriptors keep copies of sizes and pointers to cache pages
that other descriptors' calls must keep right, and its VFS layer makes several
such calls, and reads the error code, outside the mutex. Flash may be full at any
write; a call is a sequence of page writes and erases, with garbage collection
in front of it, and power may fail between any two. Section 5 lists what was found; `PROJECT.json` lists every hazard at its
line.

**What makes each part correct.** Power: no alarm path turns the inverter on,
limits are disabled only while an alarm is shown, a persistent overload always
cuts the inverter, a press that leaves an alarm ends in the redrawn panel. SPI:
a transfer runs inside its own task's session with its own device's
registers, and the bus is always given back. List: a descriptor stands for one
item from add to remove. Files: a call has the effect it would have without a
cache; sizes agree; one write page per object, and it belongs to an open file.
Volume: a call changes its file and no other, wherever its pages are moved and
wherever power fails; no page is used twice or lost; a volume mounts again.
VFS: a descriptor stands for the file it was given for until it is closed; no SPIFFS
file stays open without a user; an unlink deletes the file it looked up, and
closes no other.

## 2. Modules

| Module | What it is |
|---|---|
| `PowerController` | the three tasks, the buttons, the overload line, the watchdog |
| `PowerControllerProofs` | type correctness and seven properties, for all constants |
| `SpiBus` | select, deselect, set_speed and transfers by several tasks |
| `BusSession` | abstract: one session at a time, with its device's settings |
| `SpiBusOwn` | `SpiBus` with a handle per task and one bus, refining `BusSession` |
| `SpiBusProofs` | its safety and the refinement |
| `FdList` | `list.c` |
| `FdTable` | abstract: descriptors to items |
| `FdListProofs` | its safety and the refinement |
| `SpiffsFiles` | SPIFFS calls on open files of one page, with the write cache |
| `SpiffsFilesProofs` | who has which write page, and the sizes while flash has room |
| `UncachedProofs` | its bytes: cached writes reach the flash, and the refinement |
| `FileStore` | abstract: files whose calls take effect at once |
| `SpiffsFlash` | flash, lookup tables, one-page operations of `spiffs_nucleus.c` |
| `SpiffsGc` | index pages and `spiffs_gc.c` |
| `SpiffsObjects` | create, append, modify, truncate, read, page by page |
| `SpiffsVolume` | the calls, mounts and power losses on a volume |
| `LoopInduction` | what every round of a loop keeps, the loop keeps |
| `SpiffsVolumeProofs` | types; deletions, erase counts and magic numbers wherever power is lost |
| `FlatFiles` | abstract: files, and what a call or a power loss may do to them |
| `SpiffsVfs` | the POSIX calls of several tasks, one list or SPIFFS call a step |
| `SpiffsVfsProofs` | its four properties, until an unlink has closed a number in use |
| `MC...` | values of the constants for TLC |

Operators marked "Faulty variant" are bugs the code might have had; each is put in
place of the definition it varies to see that some property notices.

**PowerController.** One action holds at most one access to something another
task writes: a test of `sysState` and the assignment after it are two steps. `pcI`,
`pcP`, `pcS` are the places between accesses, named after what is done next.
Measured values are classes (`Batteries`, `Loads`), so the arithmetic of
`GetSystemParams` is abstracted to what its comparisons tell apart, and
delays are places where the task waits. The load is stored as measured, below zero
too (`LoadStore`, line 232), and set to zero by a second step (`LoadClamp`, 235): the
other tasks may read it in between. `SampleAndCharger` covers the sampling and
the charger's write to GPIO 18. Button and overload line change at any time.
`WatchdogReset` is the only way out of a button held down: the spin at line 120 never
blocks. The panel's details, the fan and the lamp touch none of these
variables.

**SpiBus.** A call goes through `selCheck` (the unlocked test of `selected`),
`selTake` (the semaphore, 2000 ticks), `selBus` (another bus configuration),
`selRegs` (registers, chip select), `selMark`; then `xfer`; then the mirror image.
`op` tells the select of a transfer from those of `get_speed` and
`set_speed`. `HandleOf` says which handle each task passes: injective in `SpiBusOwn`
(the driver's intended use), constant in the application. A speed is taken as
given, but for a full duplex device behind the GPIO matrix (`Limited`), whose speed
the driver cuts when it sets the registers (`Speed`). `aborted` is a failed assertion: that of FreeRTOS
that a mutex is given by its holder (`CONFIG_FREERTOS_CHECK_MUTEX_GIVEN_BY_OWNER`), or the
driver's that its DMA channel is claimed.

**FdList.** One action per function under the list's mutex. `array` is as
long as the last successful allocation, `indexes` what the code counts: the
two differ after a failed `malloc`. A later growth then copies `indexes` entries out of a
shorter array (`list.c:83`): the entries from behind its end are whatever was in
memory, any of `Junk`. `held` is what the callers remember, and `issued`
(auxiliary) the indexes `list_add` has given, which those entries are not among.

**SpiffsFiles.** One action per call, as the volume's mutex makes it; the
calls are operators from a state to the outcomes it may have (`HydroWrite`,
`Dump`, `Flush`, `Cache`, `WriteOutcomes`), because one call flushes, writes and
allocates in sequence. A file has at most one data page and one index page: append,
modify and truncate are reduced to what they do to the bytes, the sizes and
the descriptors. Two switches select what the callers and the flash do:
`SharedFiles` (a file open twice) and `MayFill`. Nobody removes or truncates a file
that is open elsewhere (section 5 tells what the code does then). A page with no
`obj` is free or holds a read page, which any allocation may evict except the one used
last. `O_APPEND` and `O_DIRECT` are absent: `vfs_spiffs_open` passes neither.

**SpiffsFlash, SpiffsGc, SpiffsObjects, SpiffsVolume.** Four layers of one component, as in
`spiffs_nucleus.c` and `spiffs_gc.c`: single pages; index pages, events and
collection; objects; calls. A call holds the volume's mutex, so it is one action, but it
is computed write by write: every operation is a function on the struct `spiffs`
(flash, counters, cursors, descriptors), whose `log` has the flash after each
write; `PowerLoss` takes any entry of it. An operation on a call that has failed does
nothing (`SPIFFS_CHECK_RES`), so sequences are compositions; the two loops that
remember an error and go on (`append`, `modify`) keep it in `at.error`. `Overlay`
is NOR flash: a free cell takes a value, a cell keeps an equal one,
anything else is `Garbled`. A page has its header, and either bytes or page
numbers; lookup pages are `lu`, without page numbers. Bytes are the number of the call that
wrote them. A variable the code leaves unset (`stray`: the page number a modify
names when its allocation failed) is any page or none. A block is erased sector by
sector: `HeadPages` of its pages go with the lookup, the count and the magic number, the
others with the second sector, and power may be lost in between (marked pages of the
second sector then have free entries until the mount erases the block again, so
`MarkedIsEntered` speaks of mounted volumes). Each HAL write is atomic: the chunks of a
page copy are one write, as are the bytes before and after a modified part. Left out: the cache (its writes are in
`SpiffsFiles`; here writes go straight to flash), the temporal descriptor cache,
index maps, truncation to sizes other than 0 (no caller), the compaction of object ids,
meta data, the wrap of the 16 bit erase count at 0x8000 (`spiffs_nucleus.c:259`), `SPIFFS_check`. After a power loss
only mounts are followed, which may lose power again: section 5 tells what further
use does. `torn` is set when a call has failed half done, `hurt` has the
files that interrupted calls were about; `FlatFiles` promises nothing of either.

**SpiffsVfs.** A call of `spiffs_vfs.c` is a sequence of calls that each take a mutex
of their own, so each of those is a step: `open` adds a list entry, stats, reads the
directory (`is_dir`), opens, reads the error code, updates the times; `close` closes, reads
the error code, removes the entry; `unlink` reads the directory, opens, removes,
closes. `slot` is `fd_space`: a SPIFFS file number is an index of it and is given to the
next open once free. `errCode` is `fs.err_code` by what `spiffs_result` makes
of it, overwritten by every failing call of any task. `table` is the list as
`FdTable` promises it. `held` is what the tasks were given. File contents are not in
it: a call on a descriptor may succeed or leave an error. Names are plain files; `mkdir`,
directories and mounting are left out. Any task may open, rename or unlink any file at
any time. `struck` (auxiliary) notes that an unlink has closed a number another
call was using: `SPIFFS_fremove` closes every descriptor of the object
(`UnlinkRemove`), and the close after it one that may be another task's by then
(`UnlinkClose`). The properties are promised until then, and `vfs_unlink` shows what
happens after.

## 3. Runs

| Run | Module, cfg | Shows |
|---|---|---|
| power_safety | `MCPowerController`, `PowerSafety` | `TypeOK` and five safety and action properties over every interleaving, with resets and a load that is negative until it is clamped |
| power_liveness | `PowerLiveness` | `OverloadKeepsCutting`, `PressWakes` |
| spi_own | `MCSpiOwn`, `SpiOwn` | two tasks with a handle each: exclusive transfers with the right registers, refinement of `BusSession`, every call returns (that the semaphore is held in a transfer is a theorem, and the property `spi_shared` violates) |
| spi_two_buses | `MCSpiTwoBuses`, `SpiTwoBuses` | three tasks, two devices, bus configurations of their own, one handle shared: a free bus is quiet, and the semaphore is given back on every error path, until an assertion stops the chip |
| fd_list | `MCFdList`, `FdList` | two tasks, three items, failed growths that leave entries of any content: refinement of `FdTable`, free chain, no leak |
| files_own | `MCSpiffsFiles`, `FilesOwn` | each file open once: refinement of `FileStore` |
| files_shared | `FilesShared` | two descriptors of a file: sizes agree, one write page per object, owned by an open file, cached bytes reach flash |
| vfs | `MCSpiffsVfs`, `Vfs` | three tasks, two names: until an unlink has closed a number in use, descriptors keep their files, no SPIFFS file is lost, unlink deletes its own |
| vfs_unlink | `VfsUnlink` | violation, see section 5 |
| volume | `MCSpiffsVolume`, `Volume` | two files on fifteen pages: refinement of `FlatFiles` with power losses; no cell programmed twice, every page referenced once, counters right, nothing leaked, one block at most unerased, on a mounted volume no page marked deleted that the lookup has in use, erase counts below the next one, cursors current |
| volume_full | `VolumeFull` | violation, see section 5 |
| spi_shared | `MCSpiShared`, `SpiShared` | violation, see section 5 |

**Bounds.** `MaxPresses` bounds presses between two boots: two are a
press that races an alarm and the one that acknowledges it. `Loads` takes a value on each
side of 310 W and 500 W and none between, `Batteries` one for each outcome of
the voltage comparisons. SPI: two tasks are a holder and one that waits or times out
(section 4 covers any number), and `spi_two_buses` has three;
two clocks are enough to tell a stale register from a fresh one. List:
three items and `MaxIndexes` give chains of length three, reused in every order,
with up to five failed growths; `CHECK_DEADLOCK FALSE` because growth ends at
that bound with every item in use. The SPI runs stop when the chip has aborted, which no step follows. Files: two names, two descriptors, `LogPage`
2 and `MaxSize` 3 give a write that fits the page, one that overruns it, one that is
as big as a page, and an append behind a modify; a call reads up to `LogPage` bytes too.
One cache page in `files_own` makes the two files compete for it; `files_shared` has two
pages, for otherwise no object could get a second one, and takes states that differ
only in the result of the last call, which no action reads, as one (`VIEW`); action properties
are still checked on every step. Both have room on the flash: on a
full one the size copies part and cached bytes are lost (section 5), and the one write page
per object and its owner are theorems that hold there too (`MayFill` is not assumed). Names, descriptors and bytes are
symmetric (no liveness is checked there). VFS: three tasks are one that unlinks, one
that is given its number and one that the second unlink harms; two slots and two
list entries run out; two names are enough for a rename and for a file created under a
number that was another's. Nothing is counted there: the state space is finite
without a bound, and no state of it is stuck.

Volume: the firmware has blocks of 8 KB and pages of 256 bytes; here are five blocks of
three pages and pages of two bytes, index pages of one and two entries, so that a file of five
bytes needs a header, two more data pages and an index page, and files cross page and
index boundaries. Five calls of two or five bytes fill the volume, make every path of `GcCheck` run,
and fail it. Two power losses are one inside a call and one inside the mount that
repairs it. `CHECK_DEADLOCK FALSE`: with the calls used up and every file closed
nothing is left to do.

**Fairness.** The power tasks block in `vTaskDelay` in every round and run on
two cores, so each keeps getting the processor (`WF` of each task); a button is
released some day, and resets by the watchdog are finite in number. These are
assumptions about the user, not the code, and both liveness properties need them.
SPI: each task inside a call keeps running and a semaphore wait ends after 2000
ticks (`WF` of `Call`); that a task starts a call is not assumed. The list, the
files and the VFS calls have no liveness property: nothing in them waits but for a mutex.

## 4. Proofs

TLAPS proves, for all constants that satisfy the named assumptions:

* **PowerController**: `TypeOK`; `OnePressOneToggle`; `CommandFollowsSwitch`;
  `ChargingIsDeadHere`; `PanelLitWhileOn`; `NoneMeansAlarmShown`;
  `PinRisesForSwitch`; `GraceAlwaysTrips`. The invariant adds to each property the
  places at which it could be lost: a button seen released has been released
  once more than the switch was flipped; every way to the supply test rewrites
  `Charging`; an alarm is drawn before it is acknowledged; the grace delay is entered with
  a load above the limit, which only the same task changes. `ChargingIsDeadHere`, on
  which `PanelLitWhileOn` rests, and `GraceAlwaysTrips` are proved only; no run repeats them.
* **SpiBus**, with a handle per task and one bus: `TypeOK`,
  `TransferHoldsSemaphore`, `TransferToOwnDevice`, `NeverAborts`, `FreeBusIsQuiet`,
  and the refinement of `BusSession`. The invariant ties the holder of the
  semaphore to the places between taking and giving it, `selected` and the chip select
  to sub-ranges of those, and the registers to the current device. The hard part
  is `StaleRegs`: the forced select of `set_speed` may time out after the clock
  field was changed, so registers may lag behind it; but a time-out needs another holder, who
  makes its own device the current one.
* **FdList**: `TypeOK`, `GetReturnsOwn`, `NothingLeaks`, `FreeChainIsDeleted`
  and the refinement of `FdTable`, whatever a failed growth left in the array. The
  invariant is that every held descriptor's
  entry is live and stores its item, that no two tasks hold one, and that a
  sequence lists the deleted entries from the head of the chain, each once
  (`Chained`); removing puts an element in front of it, reuse takes it off.

* **SpiffsVfs**, with any opens, renames and unlinks: `TypeOK` always, and
  until an unlink has closed a number in use `HeldStaysOpen`, `SlotsAccounted` and
  `UnlinkRemovesOwn`. The invariant says that a descriptor has one task and one use
  (`OneUse`); what each list entry says of the file opened under it, the entries of
  failed opens included (`EntriesRight`); that an open slot is named by exactly one live
  entry or one unlink (`SlotsUsed`), and that an unlink has a slot of its own on what
  it removes (`OneUnlink`). An entry stops being live when its file
  is closed, two steps before it leaves the list, which is why the last speaks of
  live entries. So the two closes of an unlink are the only way a descriptor can
  lose its file; that they happen is shown in section 5.

* **SpiffsFiles**: `TypeOK`, `OneWritePage`, `PagesOwned`, whatever is shared and
  however often the flash is full; `SizesAgree` when it never is. The invariant (`Good`)
  is one of states, so that it can be followed through the writes, releases and moves
  a call is made of (`HydroShape`, `ReleaseRight`, `StoreGood`, `MoveGood`, `GoneGood`).
  A write page is pointed to by a descriptor of its file and every pointer is to a page of
  its own file, which is what makes the search by object id find the page of another
  descriptor (`PageOfRight`) and lets a removal leave none behind. The sizes need
  `Reach`: with room on flash nobody stands, and no page begins, behind what flash and the
  file's write page hold; otherwise `HydroWrite` would fail to append behind the end of an
  empty file. On a full flash it does exactly that, so there `SizesRight` only speaks
  of files with bytes.

  `CachedWritesFlushed` and the refinement of `FileStore` (`UncachedProofs`) hold while
  the flash has room (`MayFill` false; on a full flash a flush is swallowed, section 5),
  the first with any number of descriptors on a file. They are about bytes, and rest on
  lemmas about `Overwrite` (an overwrite on top of an overwrite is one, `OverwriteTwice`
  and `OverwriteInTwo`), on `HydroExact` (with room `HydroWrite` is exactly an overwrite of
  the flash) and on what a user of a file sees, the flash below its page (`ViewOf`):
  a flush leaves it alone (`FlushExact`), a write overwrites it at the descriptor's
  position (`WriteExact`). Files opened once need more than `Good`: no two descriptors
  are open on an object, the one there is stands at the end of the file's write
  page (`AtEnd`), so that a write that does not fit the page has no hole before it, and
  an open object has a name (`Named`), so that a new file never takes its id.

* **SpiffsVolume**: `TypeOK`, `MarkedIsEntered`, `ErasedBefore` and `MountsAgain`, for
  every geometry, number of files, descriptors, calls and power losses. None of them is
  inductive alone. A page is copied with its flags and may become anybody's next page, so
  `MarkedIsEntered` needs that what is programmed was read from a page without the mark
  (`SPIFFS_VALIDATE_OBJIX` and the collector's tests), that the page held in `fs->work` has none
  either (`WorkSafe`), and that a page that is taken has a free entry (`Fresh`), which needs
  cursors on the volume. Ids come from the lookup or from an open descriptor, which thus must have an object and a
  header page (`OpenFd`) in the middle of every call; a call begins by opening one, or has
  it open, and nothing but the end of a removal closes it (`EventSafe`, `EventCloses`).
  An erase takes a magic number and a count away, so at most one block may lack its
  own, none while mounted, and `max_erase_count` is above every count (`Whole`,
  `Mountable`); a mount finds the highest again (`CountedMax`), also of the block whose
  erase lost power after its count and before its magic number. Marked pages are entered
  as deleted in every block that has its magic number; one without may be half erased. `Formed` is what holds after
  every write to the flash, `Safe` what holds of a call between them, with `Mountable` of every
  flash in its log; `IInv` is what is left of it between calls. `Safe` is told of every operation
  of the four layers in the order they call each other, about seventy lemmas.

  Calls loop over pages. No installed prover
  instantiates an induction theorem, which takes the invariant as a parameter, but an
  instance of a module needs no instantiation: `LoopInduction` proves, from the
  well-foundedness of the naturals, that a loop keeps what its body keeps, for
  constants `Step` and `Inv`, and each loop of `SpiffsGc` and `SpiffsObjects` is an
  `INSTANCE` of it with its own body (`MoveDataLoop`, `EvacuateLoop`, ...); so is the search for the
  best block (`BestLoop`), without which the choice of a maximum would be a choice of
  nothing.

Only model-checked: all liveness (the prover has no fairness), and of `SpiffsVolume`
what relates one page to another: `NothingGarbled`, `ConsistentUntilTorn`, `CountersAgree`,
`NothingLeaks`, `ReadsBack` and the refinement of `FlatFiles`. These stand or fall
together, because a page is deleted on the word of an index page and the counters follow.
They would need that a collection always finds room for what it moves, which no
invariant found here gives: the code keeps the reserve by `free_blocks`, which counts
too high after some collections (section 5). So for these the bounds of the
run matter (section 3). The assumptions are about the constants alone (naturals, model values
distinct, and `Free`, an erased cell, no number) and TLC evaluates them in the runs.

## 5. Findings

* **SPI, shared handle** (`spi_shared`). `selected` is tested outside the
  semaphore, and the application's tasks all use `disp_spi`: a second task
  transfers without the semaphore (`spi_master_lobo.c:25` promises otherwise),
  and may be the one that deselects and so gives a mutex another task holds, on which
  FreeRTOS asserts as it is configured (`sdkconfig:328`): under the constants of
  `SpiShared`, `NeverAborts` is violated as well.
* **Unlink closes and deletes the files of others** (`vfs_unlink`).
  `SPIFFS_fremove` gives the file number back and `vfs_spiffs_unlink` then closes that
  number again (`spiffs_vfs.c:571`), outside the mutex: if another task was given it
  meanwhile, its file is closed under it. If that task is a second unlink, its
  number may go to a third task's open, and its `SPIFFS_fremove` deletes the third
  task's file. `SPIFFS_fremove` also closes all other descriptors of its file, and a
  second unlink of the same file then holds a number that anybody may be given.
* **Torn by a full flash** (`volume_full`). `spiffs_object_modify` asks
  `spiffs_gc_check` for its bytes and one page more (`spiffs_nucleus.c:1427`), but an
  unaligned write over a page and an index boundary takes two data and two index
  pages. It then fails "full" with the old data page deleted and the index naming it,
  which `spiffs_check.c:504` calls inconsistent. That the result of allocating a whole page is
  not looked at (`spiffs_nucleus.c:1522`) makes it worse: the index names what the variable
  held. Simulation of the model from there: a later collection loses
  acknowledged bytes, a second write deletes the file's own header, and
  opening the file with `O_TRUNC` deletes another file's header.

Shown by the model under other constants, without a run of their own:

* **SPI, second reconfiguration** (`SpiBus` with two bus configurations and a handle per
  task, `NeverAborts`). Each automatic change of bus configuration (promised by
  `spi_master_lobo.c:31`) frees the DMA channel, and none claims it again: the second one
  fails the driver's own assertion (340). The firmware has one bus configuration.
* **Swallowed flush** (`SpiffsFiles` with `MayFill`, `CachedWritesFlushed`). A write page is released even if
  writing it failed; `read`, `lseek` and `fstat` do not report it, so
  acknowledged bytes vanish in a call that succeeds.

* **Use after a power loss** (`SpiffsVolume` with calls after a crash).
  `spiffs_page_move` writes the copy before its lookup entry (`spiffs_nucleus.c:838`):
  after a loss in between the entry is free, and the next creation is laid
  over the half-used page, garbled. Only `SPIFFS_check` would find it, and the
  firmware never calls it.
* **Blocks counted twice** (`SpiffsVolume`). `free_blocks` is one too high when a collection
  erases a block that counted as free already (`spiffs_gc.c:278` scores them
  too), against `spiffs.h:255`; a remount corrects it.

Read in the code and not shown by a run: `UpdateVal` clears `flashUpdate` and takes
`PrevLoad` after it has drawn, so a change meanwhile is never drawn; the redraw
clears the lamp and fan icons and draws neither again; `list_get` and `list_remove` test `iindex >
list->indexes`, so the index behind the last entry passes; `vfs_spiffs_open` does not translate
`O_APPEND`, so `fopen(..., "a")` writes from the start; `spiffs_hydro_read`
tests the size before it flushes, so bytes another descriptor has cached in an empty file
are not found (`spiffs_hydrogen.c:376`); unlinking a file that is open elsewhere
leaves its write page and a closed slot's pointer to it behind, and a new file of that
object id starts with the deleted file's bytes (`spiffs_nucleus.c:1070`);
`vfs_spiffs_open` and `vfs_spiffs_close` read `fs.err_code` after the mutex, so an open
that failed returns a descriptor without a file when another task's read at the end of its
file came between (`SpiffsVfs` has this as `OpenResult`), and a close that failed then
drops the entry of a file that may be open; a close that fails otherwise keeps
its list entry for ever; `SPIFFS_stat` by name does not look at the cache;
`_direct_send` never sends a last partial word; the low-battery and load limits
are off in `None`, also if a press turned the inverter on just before; alarms set by
one task are overwritten with `Normal` or `Charging` by the parameter task, often
before they are shown.

## 6. Not modelled, and what is left

* The panel's contents (`UpdateVal`, lamp and fan icons): the control of the tasks that draw
  them is in `PowerController`; what they show is last-write-wins on unlocked
  variables, and the code states nothing it should satisfy.
* The pixel paths of `tftspi.c` and the drawing library: geometry and decoding over a
  handle `SpiBus` shows to be unprotected; nothing of them outlives a call but the line buffer.
* `spiffs_check.c` and the host tool: not called by the firmware.
* The read side of the cache, directories and times of the VFS layer, device allocation of
  the SPI driver, NVS start, LED strip: start-up code and copies, sequential.
* `.vscode/` holds older copies of the same components, `build/` is generated.

Worth doing next: calls after a power loss with `SPIFFS_check` before them; the
write cache over the page-level volume (`SpiffsFiles` over `SpiffsVolume`).
