# A verification of ratputer-rs

TLA+ models of the firmware in `src/`, checked with TLC on small instances, and
proofs about them checked with TLAPS. The firmware runs on one core without an
executor: a main loop polls everything, each screen has a stage of its own, and
the USB disk is one hand-polled future. What makes it hard is what passes between
the stages: an SD card that is moved between a FAT volume, a USB host and an SFTP
client, a radio that is moved in and out of a future, and commands of the user
that wait for either.

## Inventory

| Component | State | Operations | Interacts with | Hard part | What makes it correct |
|---|---|---|---|---|---|
| USB mass-storage class, `msc.rs` | `SharedState`, `BlockCache`, the suspended command | SCSI commands over Bulk-Only Transport | host (packets), card (CMD18/CMD25), `UsbDisk` (shared cell) | a command suspended at any packet, through resets, eject, detach, a new session; writes that fail half way | the host is told the truth; no data of another session; the cache equals the card |
| USB DISK driver, `usbdisk.rs` | `active`, the retained task | attach, poll, detach, can_detach | main loop, `msc.rs` | the task outlives the session | an unforced exit cuts no transfer |
| Main loop, `main.rs` | screens' command slots, `storage`, `usb_sd`, `wifi`, `auto_job`, `radio_pending`, the reconnect timer | one pass through its stages | everything | several keys in one pass; commands queued across passes; a link lost meanwhile | one owner of the card, one of the radio; the user comes first; every wait ends |
| Screens, `ui/ratputer.slint` | `view-state`, `*-action` | the key callback | main loop (slots) | a slot overwritten before it is read | a key leads somewhere the loop can follow |
| Wi-Fi, `wifi.rs` | the controller | scan pass, connect attempt, automatic job | esp-radio | time-outs | every await is bounded |
| Storage, `storage.rs`, `sdblock.rs` | mounted volume, `wifi.cfg`, position and cached sector | mount, free, load, save; byte I/O over blocks | card, hadris-fat | overwriting in place; a write that fails half way | a config that loads; bytes land where they should |
| SSH, `ssh.rs` | socket, session, host key, static buffers | listen, authenticate, shell, tear down | embassy-net, sunset, SFTP | time-outs, teardown, one owner of the buffers | a session ends and gives everything back |
| SFTP, `sftp.rs` | handles, pending transfer, output queue | the SFTP v3 requests | SSH channel, FAT volume | replies promised before the data is read; aliases of a path; handles of removed files | one reply per request, of the promised length |
| File manager, `filemanager.rs` | browser, clipboard, copy and delete jobs | keys; one bounded FAT step per pass | FAT volume | jobs interrupted by an error at any step | a failed copy leaves nothing half-made |
| Watchdog, `watchdog.rs` | deadline, slow window | feed, widen, disarm | main loop | a window left wide | a hang is caught, a slow step is not |
| Network, clock | DHCP, DNS, SNTP state | one poll per pass | embassy-net | late replies | - |
| Battery, debug console, paths | small or none | pure functions, a line parser | main loop | - | - |

`vendor/` (hadris-fat, sunset), `xtask/`, `tools/`, the images and the build files
are outside the project. `PROJECT.json` gives the status of every part and the list
of hazards, each at its line.

## Modules

| Module | Models | Proofs |
|---|---|---|
| `BlockCache` | the cache of `msc.rs` as pure operators | used by `MscClassProofs` |
| `MscClass` (extends `BlockCache`) | the class, `UsbDisk`, the host, the card | `MscClassProofs`, `MscSessionProofs`, `MscTransferProofs` |
| `BlockStore` | what the class promises: a store without a cache | refined by `MscClass`: `MscTransferProofs` |
| `MainLoop` | the main loop and the key callback | `MainLoopProofs` |
| `Sftp` | the SFTP server on its channel, its client, the FAT volume | `SftpProofs` |
| `SftpService` | what an SFTP client may rely on: one whole reply per request, in order | refined by `Sftp`: `SftpProofs` |
| `FileManager` | SD FILES: listing, clipboard, dialogs, the copy job, the FAT volume | `FileManagerProofs` |
| `SshServer` | listener, session, channels, time-outs, the host key and its file | `SshServerProofs` |
| `Watchdog` | the RTC watchdog, its windows and its history, the loop that feeds it | `WatchdogProofs` |
| `MC_MscClass`, `MC_MainLoop`, `MC_Sftp`, `MC_FileManager`, `MC_SshServer`, `MC_Watchdog` | values for TLC | - |

The modules meet where the code hands something over. `MainLoop` and `MscClass` meet at
`UsbDisk::state` and `can_detach`: `MainLoop` lets them return anything the state
machine of `MscClass` allows, and `MscClass` lets the main loop attach and detach
whenever the screen could. `Sftp` and `MainLoop` meet at `holds_sd`: `OneOwner` shows
that an active session has the volume, so `Sftp` leaves out the replies to a session
without one; and that the file manager is never open beside USB DISK or SSH, so
`FileManager` has the volume to itself, but for one `wifi.cfg` that a radio step or a
Wi-Fi command may still save in the pass that opens the screen; that write is left out. `Sftp` is the inside of one channel of
`SshServer`, which only keeps that the channel is one. `Watchdog` takes of the main
loop the order of passes, blocking steps and console commands.

Definitions named `Wrong...` are mutants: a definition with one plausible bug, which
the property it is listed with in `PROJECT.json` must catch. Nothing uses them.

### MscClass

`UsbDisk::poll` polls one future, `join(device.run(), msc.run())`: embassy's device
task first (bus reset, configuration, class requests), then the class, until both
are pending. `phase` is `"class"` from the device task's turn until `Yield`, and
`"outside"` while the main loop runs something else; `pc` is the await the class is
suspended at, or the next step it takes. The host and the hardware move at any
time. Attach, detach and the volume's own writes happen outside.

* The unit is the block (eight 64-byte packets). A command block has 31 bytes and
  is never taken for a packet of data, as `Cbw::parse` and the length check in
  `read_packets` tell them apart.
* A cache line is a function from the blocks it holds to their contents. The empty
  function is an invalid line. `last_used` only serves to compare LRU lines, so it
  is the relation `older`; the clock's wrap after 2^32 uses is not modelled.
* `generation # cache_generation` is the boolean `outdated`; the wrap of the
  counter after 2^32 attaches is not modelled.
* The tag of a command is reduced to whether the host still waits on it, has given
  it up, or sent it in an earlier session.
* `"inquiry"` stands for INQUIRY, MODE SENSE, REPORT LUNS and READ FORMAT CAPACITIES,
  which answer alike; INQUIRY of an unknown page is among `"unknown"`. Replies are
  shorter than a packet, so the zero-length packet never occurs.
* A detach keeps the task and the endpoint buffers: nothing in the code clears
  them. A bus reset disables the endpoints and drops their contents, as embassy's
  driver does (external).
* A host that gets an answer it cannot match only resets the bus (`"confused"`).
* `Stats`, wording of INQUIRY and the sense's ASC are left out. The capacity of the
  card is a constant; a card whose CSD cannot be read counts as no blocks.
* `torn` is a history variable: blocks a failed CMD25 may or may not have changed.

### MainLoop

A pass is the sequence keys, screens, radio, job, wifi, auto, usb, ssh, network,
serve, in the order of `main`; `stage` is the next one. A key only changes the
view and a command slot; a later stage of the same pass reads and clears the slot,
so a second key may overwrite the first. Any number of keys acts in a pass.

* Times are `"never"`, `"later"` or `"now"`; what a menu or list points at is
  arbitrary when it is used, which stands for the arrow keys.
* The views of the file manager are one, `"files"`, and of its state only open and
  copying are kept. Of an SSH session only `holds_sd` is kept.
* After USB the host may have left any `wifi.cfg`, also one with duplicates, or one
  that does not load, or a card that does not mount.
* A scan may find any set of networks and may refuse any one as unsupported. That
  a list longer than MAX_SCAN_RESULTS is cut is left out.
* `UsbDisk::attach` fails only before the first use has set the driver up, which at
  the first attach it does; that branch is left out. The radio is taken to have
  come up at boot (`wifi` and `network` are Some).
* The busy overlay, texts, the top bar, SNTP, drawing and the stack polls inside an
  SFTP burst are left out. The debug console's KEY is a key.
* Keys that pile up in the keyboard's FIFO during a blocking radio step are not
  modelled; see the hazard at `main.rs:938`.
* The arms of the Wi-Fi commands are guarded by `radio_pending.is_none()`.
  `RadioHasOneOwner` shows that no command is there while a step is pending, so
  the guard is not repeated.

### Sftp

`Step` is `Sftp::step`: nothing while a reply is in `out`, then the pending work in the
order resize, read, write, skip, and only then the next request. `Dispatch` has one
operator per request; one that changes files or handles is done in that step, except
READ, WRITE and a growing SETSTAT, which leave work for later steps. `budget` is the
one card access of a poll (`begin_poll`).

* A file is a sequence of units; `ReadChunk` and `WriteChunk` units are a card access.
  A unit of a file is payload or zero.
* Input is kept as frames: a request, the header of a WRITE, one unit of payload. What
  a request asks (path, handle, offset, flags) is chosen when it is parsed, as no one
  looks at it before. A payload at the place of a request is a broken frame: the server
  has lost count.
* Everything that fails before it changes anything, and all the requests that only
  look, are `Query`. `CardFails` adds the failures that come after a change. Damage of
  the FAT itself by an interrupted update is not modelled; a WRITE that fails may
  leave any prefix of its chunk in the part of the file that existed.
* Cursors are checked by hadris-fat against the directory entry (slot, short name,
  creation time, first cluster) and the size. `born` stands for the former, and is
  never used twice; that the clock may stand still and a new file take the place of an
  old one within one time stamp is left out. The size a handle observed (`size`) is
  always that of its append cursor, and is not kept apart.
* Names are in the root and none is an alias of another. Times, listings,
  INIT, and the firmware's own writes of `wifi.cfg` between two steps are left out; the
  file manager never runs beside SSH (`OneOwner`). The
  generation does not wrap (2^24 opens in one session).
* `FramesInStep` says what server and client agree on: `due`, the payload still to come
  after each frame of the input, begins with what the pending work takes and ends with
  what the client owes.
* `goal`, `asked`, `expects`, `owes` and a cursor's `fate` are not state of the server:
  what the client counts, and history for the properties.

### FileManager

A key of the file manager is an action named for what `FileManager::key` does with it;
`Poll` is the step of `CopyJob` that each pass takes, `PollFails` the one in which the
card fails. The volume is a function from paths to nodes with the order of their
entries, since a listing is a position in it, and a new entry takes any free place.
`IsVolume` says what makes such a function a volume; the volumes the manager may be
opened on are assumed to be ones (`VolumesAssumption`), and what the code makes of them
is shown to be. The user may type any of the names in `Typed`, which need not be all the
names on the card; `Content` is what files are made of.

* A failing call changes nothing, or does all it should and then reports failure; a
  write stops anywhere; the repair of a directory that was never initialised may stop
  after the repair. A failed RENAME that leaves two entries with one chain (a crash
  inside hadris-fat) is not modelled.
* Typing a name, the limit of its length and the check of its characters are reduced
  to the name in the input; menu positions to the action chosen.
* A file is read and written in units; `COPY_CHUNK` is a number of them. `MaxNodes` is the
  room on the card: creating may fail for lack of it.
* Leaving the screen drops the manager in that pass, unless a later key of the pass
  opened it again (`Drop`, `Return`). While a copy runs, keys are ignored (`At`); the loop
  does not leave the screen (`MainLoop`).
* `lagging` and `stray` record the two ways the properties know of in which list and
  clipboard may fall behind: a call that reported failure although it changed the
  card, and a rename of a directory above the clipboard's entry.

### SshServer

`PollListener` is `poll_listener`, `PollSession` one of the up to eight rounds of a poll;
`EndRound` ends the session, `MoveRound` takes a packet and then moves the channel.

* A packet is a message. `"hello"` stands for everything that changes nothing (the
  key exchange, a refused login, a second channel at a time), `"junk"` for a violation
  of the protocol. Answers reach the client at once, except that a shell's reply may
  need several rounds.
* A time-out is a boolean: that it has run out. It is looked at when a poll begins;
  a time that runs out during a poll counts as running out after it. Traffic does not
  put off the login's; for the idle one only its running out matters.
* The host key is its seed. `Ensured` is `ensure_hostkey`, which the main loop calls in
  every pass with Wi-Fi and `Accept` calls before a session. `Saved` is
  `write_config_file`, which overwrites in place. `Reboot` keeps the file and nothing
  else.
* Line editing, the texts of replies, passwords and the network addresses are left out.
* `close_after_reply` is never taken back: a later channel of the same connection is
  closed as soon as it is open. `ClosedAfterReply` speaks of the first channel.

### Watchdog

Time is in ticks. A pass works for up to `PassTime` ticks; a blocking step takes up to
`BlockTime`, under a `SlowWindow`, which `SlowBegins` and `SlowEnds` are. `Hang` is
anything that never returns, in a pass or in a blocking step; `WDT FREEZE` is one.

* The hardware is external: a counter with the count at which it resets the chip.
  A reset disables it, as the boot loader and esp-hal do.
* `record_boot` runs when the loop is about to begin. A reset before that leaves no
  trace in the history; `missed` excludes it, although the comment at
  `watchdog.rs:20-25` speaks of every reset. `previous_window` is stale in the same case
  and is left out.
* Only power-on clears the retained words; what they hold before the first boot is
  taken for blank (the magic word).

## Runs

| Run | Question | Instance |
|---|---|---|
| `msc_transfers` | Do cache, residue and data phase stay right when the card fails and the host gives up? | 3 blocks, lines of 2, one LRU line; every fault |
| `msc_sessions` | Does anything pass from one session to the next when the user waits for the eject? Does every command end, and every failure have a sense? Does the class implement `BlockStore`? | 2 blocks, lines of 2, all commands, right and wrong lengths, eject and load, every fault |
| `msc_stale` | *violated*: does an attach cut off the session before, as the comment says? | a forced exit |
| `loop_owners` | Do card and radio have one owner each, is the list kept within bounds? | all screens, mount and load failures, two networks, room for one |
| `loop_cycle` | Does a radio step end, does the automatic cycle end, is a queued command answered? | two networks, two passes of each kind |
| `loop_lostlink` | *violated*: does every loss of the link start a cycle? | one network |
| `sftp_requests` | Is every request answered once, whole and in order, does the framing hold, does OK mean done? | one file of up to three units, one handle, two requests at a time, payloads of up to two chunks, every failure, a client that may break the framing |
| `sftp_handles` | Is a cursor into a chain that was cut ever used, is a read-only file kept, is a closed handle mistaken for a later one? | two handles on one file, every request, files of up to three units |
| `sftp_session` | *violated*: does a client that keeps to the protocol keep its session? | two names, one handle |
| `files` | Do list and clipboard agree with the card, is a copy whole or said to be partial, is anything lost that was not confirmed, does a copy end? | three volumes of up to seven entries, two entries to a page, chunks of one unit, two changes by the user, every failure |
| `ssh` | Are the buffers given back, does a reply go out before its channel closes, does the host key stay, is the server free again after a client that does not log in or vanishes? | two packets ahead, two channels, three keys, every failure, reboots |
| `watchdog` | Is a hang reset and nothing else, does the wide window end with its step, does the history tell the truth? | windows of 3 and 5 ticks, steps one tick shorter, a count up to 3 |

Why the bounds suffice. In `MscClass` three blocks in lines of two are the least
that give a short last line, a transfer that crosses a line, one that is larger
than a line (and so streams, or is written in two chunks) and one past the end of
the card (`msc_transfers`); contents only need to be told apart, so two values do. The card
has two lines' worth of blocks and the cache one LRU line, so a victim is chosen at
every miss; that no block is in two lines (`OneCopy`) is proved for any number of
them. `msc_sessions`, about what passes between commands, needs one line's worth.
In `MainLoop` one network and one pass less than the firmware's still have
a last and a first attempt in `loop_cycle`; `loop_owners` has more networks than
room; `ConnectAttempts = 1` leaves out only the repetition of a failing step. In
`sftp_requests` a file of three units in chunks of one is the least in which a WRITE
beyond the end has a gap of two chunks, in which a gap of one is followed by a payload of
two, and in which an append finds something to follow and ends OK, each of them with a
card that may fail at any of its chunks; a READ reply takes two chunks, and `MaxInput` holds
a chunk and one more request, the least the server needs. There a SETSTAT only grows the
file (`NewSizes`) and nothing is removed; `sftp_handles` has all sizes and every request, on
a card that works. With chunks of one a payload never waits for the rest of its chunk:
that happens in `sftp_handles`, and `NeverLosesCount` has it for any chunk, but that such a
wait ends (`EveryRequestAnswered`) is checked for chunks of one only.
`sftp_handles` has a WRITE of a chunk and its tail, and a second handle,
which is the least for one to shorten what another has a cursor into. In `files` a
directory of three entries takes two pages, and a file of two units, in chunks of one,
three steps; the volumes have a directory too deep to be copied and one that was never
initialised, two changes let the second meet what the first has left, and room for
seven entries may run out. In `ssh` three keys are the one in use, the one on the card and a fresh
one; a second channel is what an earlier one may have left something for. In
`watchdog` the numbers are those of the firmware in units of five seconds, rounded so
that a pass and a step are one tick short of their windows. Symmetry is used
in runs without liveness only, over values that no constant tells apart.

Fairness. `MscClass`: the main loop calls `poll` on every pass (weak fairness of the
device task and of the class), and the host goes on with a transfer it has begun;
it need not issue commands, give up or reset. `MainLoop`: weak fairness of the stages, since
no stage blocks for good, and strong fairness of the end of the splash, of a
delay, and of the end of the automatic job. The latter two can be starved for a
pass, never for good: a delay ends by the clock whatever the loop does, and every
await of the job has a time-out in `wifi.rs`. Keys, the host, the access point and
the card's failures are not fair. `Sftp`: the main loop polls the session (steps,
budget, output, the end of a session after a fatal error), and the client sends the
payload it has announced; it need not send another request. `FileManager`: every pass
polls the copy; no key and no failure is fair. `SshServer`: every pass polls listener and
session, and time passes: the login's limit, the grace of a teardown, and the idle
limit of a client that is gone. Nothing is assumed of a client. `Watchdog`: time passes
for a program that hangs, and the hardware resets the chip when its count is reached.

`CursorsAreFresh` is checked with a card that works. With one that fails it does not
hold: a truncate that has cut the file and then fails returns before the handles are
invalidated (`sftp.rs:1112`, among the hazards). It exempts files that were renamed
while a handle was open; those cursors are the subject of `sftp_session`.

### What the violated runs show

* `msc_stale`: the generation is compared when a command starts. A `write_10`
  suspended when the user forces the exit is still there after the next attach,
  and takes the packet it was waiting for if that one had arrived.
* `sftp_session`: RENAME leaves the cursors of open handles alone. The next READ that
  goes on at the cursor has announced its data when hadris-fat rejects the cursor; the
  session ends, although a READ without cursor would have succeeded. A rename that
  only changes the case of a name is enough.
* `loop_lostlink`: a loss seen while a scan still has a pass to go is not acted
  upon, and not seen again.

### Other divergences met while modelling

These have no run of their own.

* `msc.rs:809-817`: after a CMD25 that fails half way `write_10` leaves without
  `update_from_stream`, and an LRU line may keep the old contents of blocks the card
  has anew, against the comment at 231-232. `CacheCoherent` exempts the blocks of such a
  write (`torn`).
* `main.rs:1357`: the exit of USB DISK is handled only while the card is exported.
  Entered without a card, the screen has no way out, against `README.md:185-188`.
* `filemanager.rs:669-682`: when a copy fails and the directory cannot be read either,
  `DIR UNREADABLE` replaces `COPY FAILED - PARTIAL DEST` (`README.md:99-101`).
  `CopiedIsWhole` exempts it.
* `ssh.rs:175-216`: a boot at which the card cannot be read, or is missing, leads to a
  new host key, which later overwrites the one in the file. `KeyIsKept` exempts it.

## Proofs

Eight modules hold the theorems. Each states its result for every value of the
constants under the named assumptions. TLC checks the same properties on the small
instances, but for some type invariants, `OneCopy` and `CardChangesHands`, which are only
proved.

`MscClassProofs`, for every number of blocks, line length, cache size, set of
commands and extents and every combination of faults (`CacheAssumption`,
`ClassAssumption`, nothing else):

* `TypeCorrect`: `Spec => []TypeOK`
* `InFlightHolds`: `Spec => []InFlight`
* `CacheIsCoherent`: `Spec => []CacheCoherent`
* `NoBlockTwice`: `Spec => []OneCopy`

`TypeOK` is not inductive: that a residue, `End - cur`, is a natural number depends on
where a suspended command stands. `InFlight` says that for every `pc`, and
`Inv == TypeOK /\ InFlight` is inductive: one step per action, of which those that
move the cursor are the ones with something to prove. `CacheCoherent` is inductive
given `Inv`: `InFlight` provides that the stream line is invalid while a chunk is
collected in it and that the line being sent is a line. `OneCopy` is inductive
given `Inv`: a line is filled only after `find` has missed, and two lines that meet
have the same aligned start; that `find` returns a line whenever one holds the block
needs the least element of a non-empty set of lines.

`MscSessionProofs` extends it with what holds across bus resets, attaches and detaches:

* `CleanDetach`: `Spec => []UnforcedDetachIsClean`
* `NoStaleWriteUnforced`: `~Forced => (Spec => NoStaleWrite)`

Both rest on `SessionInv`, in which bus, endpoints, shared state and the suspended
command agree, and on `Earlier`: what an unconfigured session still has is of an earlier
one, a configured one has nothing of it, and a command that reads or writes blocks has
dropped an earlier session's cache. `LeftBehind` is what saves an unforced session: a
write that stayed behind gets no other block, so it never fills the chunk it would
store. The second theorem is false for `Forced`; the run `msc_stale` is its
counterexample.

`MscTransferProofs` extends that with what a host may make of an answer:

* `DataDrained`: `Spec => []DataPhaseDrained`
* `StatusIsHonest`: `Spec => []ResidueIsHonest`
* `SenseIsLeft`: `Spec => []FailureHasSense`
* `ImplementsStore`: `~GivesUp => (Spec => ImplementsBlockStore)`

`OneToken` is the heart of it: the command the host waits on is in exactly one place,
and what the host took before the class has read it came from a command given up.
`WriteInv` and `ReadInv` then relate the blocks that have moved to the card, the
stream line and the packets in the endpoints, up to what a failed write has torn;
`EndInv` says what has been decided when the data phase is over, and `HonestInv` that
the status on its way says so. `ImplementsStore` maps every step to a step of
`BlockStore` or to a stutter: the step that stores a chunk, or that sends a block, is the
store's, all others stutter. It is stated for a host that does not give commands up,
as an abandoned command has no counterpart in the store.

`MainLoopProofs`, for any networks, any length of `wifi.cfg`, any number of passes and
attempts, with a card or without (`LoopAssumption`):

* `TypesHold`: `Spec => []TypeOK`
* `OneOwnerOfRadio`: `Spec => []RadioHasOneOwner`
* `OneOwnerOfCard`: `Spec => []OneOwner`
* `HandOver`: `Spec => [][CardChangesHands]_vars`

`RadioHasOneOwner` is inductive. `OneOwner` is not: the card changes hands two stages
after the screen has been looked at, on the word of a command slot.
`CommandsFollowScreens` says, stage by stage, what such a command still guarantees:
before the screens are looked at, which screen wrote it; after that, that nobody else
has the card; past its stage, that it is gone.

`SshServerProofs`, for any set of keys, any number of packets and channels, and a card
that may fail or not (`SshAssumption`):

* `TypesHold`: `Spec => []TypeOK`
* `ClosesAfterReply`: `Spec => []ClosedAfterReply`
* `OneOwnerOfBuffers`: `Spec => []BuffersHaveOneOwner`
* `SavedStays`: `Spec => []SavedKeyIsOnCard`
* `KeyStays`: `Spec => KeyIsKept`

`BuffersHaveOneOwner` is inductive. `KeyIsKept` is about a step that offers another key,
which is one that found none in use; by `OfferedIsInUse` the card then does not hold the
key last offered, or did not give it back at boot. `SavedKeyIsOnCard` is inductive once
it is known that a key that waits for the card is the one in use (`UnsavedIsInUse`): a
write that succeeds later writes that one. `ClosedAfterReply` follows from `FirstChannel`,
which adds up what the client has said, what still waits in the inbox and what the
session has been told: `close_after_reply` of a first channel is set only by an exec or
by the client's end. It needs that `Listen` forgets what an earlier connection left in
the buffers.

`WatchdogProofs`, for any windows longer than a pass and a blocking step
(`WindowAssumption`):

* `TypesHold`: `Spec => []TypeOK`
* `HangsOnly`: `Spec => []OnlyHangsAreReset`
* `WindowsFit`: `Spec => []WindowFits`
* `HistoryIsRight`: `Spec => []HistoryTells`

`OnlyHangsAreReset` and `WindowFits` follow from `CountIsBehind`: the driver and the
hardware agree, and the counter is never ahead of the time that the pass, or its
blocking step, has taken, which the assumption keeps below the window. `HistoryTells`
follows from what the retained words hold through a boot (`HistoryIsKept`).

`FileManagerProofs`, for any set of names, any volumes, page and chunk lengths, depth and
room, with a card that fails or not (`FilesAssumption`, `VolumesAssumption`):

* `FilesTyped`: `Spec => []TypeOK`
* `ListShowsTheDirectory`: `Spec => []ListIsFresh`
* `ClipboardFollows`: `Spec => []ClipboardKeepsUp`
* `NothingElseIsLost`: `Spec => LossIsConfirmed`
* `SourceStaysIntact`: `Spec => CopyOnlyAdds`

The first half is about the volume: that adding, removing, renaming, writing and
repairing leave a volume, and which paths and nodes each of them touches. A volume is
stated by its paths (each lies in directories that can be read, each directory lists
what lies in it once), so nothing is proved by induction over its height. The second
half is the inductive invariant `IInv`. What it adds to the properties is what the
later steps of a copy rely on: `Apart`, source and target do not overlap, which `Accepts`
establishes (a directory cannot be pasted into itself, and a file has nothing below
it), and `JobFits`, every directory on the stack still exists and its counterpart lies in
the target. Each step of a copy is then one that `GrowsIn` describes: entries stay, and
all that is new or changes lies in the target, but for the list of the directory the
target is in. A card that fails inside the step is covered by the same lemma.
`LossIsConfirmed` needs that a deleted entry holds nothing, which for a directory that
was never initialised follows from `IsVolume`.

`SftpProofs`, for any names, slots, chunk lengths, sizes and payloads, a card that fails
or not, a client that keeps to the framing or not (`SftpAssumption`):

* `TypesHold`: `Spec => []TypeOK`
* `NeverLosesCount`: `Spec => []FramesInStep`
* `HandlesAreNew`: `Spec => TokensAreNew`
* `ReadOnlyFilesStay`: `Spec => ReadOnlyIsKept`
* `KeepsTheProtocol`: `Spec => ImplementsService`
* `OkIsDone`: `Spec => []OkMeansDone`
* `CursorsStayFresh`: if the card works (`~CardFails`), `Spec => []CursorsAreFresh`

None of these is inductive: each needs to know what the server is in the middle of. The
invariant `IInv` says that as seven modes (`AtRest`, `AtRead`, `AtWrite`, `AtResize`,
`Replying`, `Announcing`, `Delivering`), of which the server is in exactly one until a
fatal error. A mode fixes which piece of work is pending and what may be in `out`; how
much of the payload in the input belongs to it (`Framed`); and how many of the requests
the client waits for have left the input (`Queued`). `Framed` and `Queued` speak of
positions in the input by a function, so that one frame more or some frames less at
either end shifts it and nothing is proved by induction over the input. `Served` is what any request
may do in its one step of dispatch: to the volume, to the handles and to what is pending;
one lemma per request shows it, and one lemma per step of READ, WRITE and SETSTAT shows
the mode that follows. A WRITE or SETSTAT that has begun keeps its file: it looks at the
read-only flag again with every chunk, which is what `ReadOnlyFilesStay` rests on.
`KeepsTheProtocol` maps the reply that leaves to `Answer`, a chunk to `Deliver`, the end of a
session to `HangUp` and all else to a stutter.
`OkIsDone` and `CursorsStayFresh` have an invariant of their own on top of `IInv`.
`GoalInv` says how far the WRITE or SETSTAT at work has come (`WriteAims`,
`ResizeAims`): the file is what it should be by now, but for zeros (`Padded`), of which
a WRITE still adds those up to its offset and a SETSTAT those up to its size; with the
last payload, or the last zero, nothing is left to add. Without a failing card no cursor
is ever left "shrunk" (`FreshInv`): one that was never moved belongs to a handle of the
path its file has (`Points`), which is the path `invalidate_file` compares, so a cut
takes all of them (`CutForgets`). With a failing card it is false, for the truncate that
fails halfway.
`SftpAssumption` asks that slots, names and payloads are finitely many, which the
firmware's `MAX_HANDLES`, a volume and a request's length see to.

Only model-checked, with the reason:

* all liveness properties: fairness and ENABLED are out of the provers' reach;
* `CopiedIsWhole` of `FileManager`: that a finished copy equals its source is a
  statement about the walk through the whole tree, by induction over what has been
  counted off.

## Not modelled

* `sdblock.rs` (bytes over blocks), the text of `wifi.cfg`, `net.rs`, `clock.rs`,
  `battery.rs`, `fspath.rs`, drawing and bring-up: sequential code over data, with no
  state that another part could disturb, or drivers whose state is in the vendored
  crates. Unit tests reach them.
* `debug.rs`: a line parser; its commands are actions of the modules they act on.
* The keyboard's FIFO, contents of directory listings over SFTP, aliases of a path,
  the text in the editors, damage of the FAT inside hadris-fat: see the hazards with a
  note in `PROJECT.json`.
* `vendor/`, `xtask/`, `tools/`: third-party code and host tools.

## Plan

Everything the plan began with is built: `MscClass` with `BlockStore`, `MainLoop`, `Sftp`
with `SftpService`, `FileManager`, `SshServer`, `Watchdog`. What is left, in this order:

1. Theorems: `CopiedIsWhole` of `FileManager`, which needs an invariant that says of every
   path of the source whether the copy has counted it off.
2. Models: the arming of the forced exit across `MainLoop` and `MscClass`; the keyboard
   FIFO in `MainLoop`.
