# A TLA+ model of the Amlogic DVB adaptor library

The repository is a C library, `am_adp`, that gives a set-top box application
one interface per device: demultiplexer, frontend, smart card, decoder and so
on.  Each `am_<device>` directory holds a front (`am_<device>.c`) that keeps the
state of up to a few devices and checks arguments, and one or more drivers
behind a table of function pointers (Linux DVB, Amlogic, emulator).  Several
fronts own a thread that waits for the hardware and runs application callbacks.

This project models the parts in which that concurrency is the difficulty, checks
them with TLC on small instances, and proves the main results for all values of
the constants with TLAPS.

## 1. Inventory

Paths are below `src/am_adp/`.

| Component | State it keeps | Operations | What is hard |
|---|---|---|---|
| `am_dmx/am_dmx.c` + `linux_dvb` | per device: `open_count`, `flags` (`DMX_FL_RUN_CB`), `src`, `enable_thread`; per filter: `used`, `enable`, `cb`, `user_data`; in the driver: the `fd` table | Open, Close, AllocateFilter, SetSecFilter, SetPesFilter, FreeFilter, StartFilter, StopFilter, SetCallback, SetSource, Sync, and the data thread | callbacks run unlocked while clients change the filters; `Sync`; `Close` joins the thread under the global lock; ioctls that fail |
| `am_dmx/dvr/dvr.c` | channels with a share count, one kernel tap each, section buffers | find, enable, disable and free of channels; parsing of recorded packets; dispatch | callbacks run in the middle of a packet with the lock released |
| `am_fend/am_fend.c` + `linux_dvb` | per device: `open_count`, `flags` (`FEND_FL_RUN_CB`, `FEND_FL_LOCK`), `cb`, `user_data`, `enable_cb`, blind scan progress | Open, Close, SetPara, SetCallback, SetActionCallback, Lock, BlindScan, BlindExit, DiSEqC commands, and the monitor thread | `Lock` borrows the device callback with a frame on its stack; calls wait for the running callback |
| `am_evt/am_evt.c` | a hash table of subscriptions under a read/write lock | Subscribe, Unsubscribe, Signal, Init, Destory | callbacks run under the read lock; look-up and insertion in two critical sections |
| `am_smc/am_smc.c` | status, callback, `SMC_FL_RUN_CB`; the buffers of a transfer | Open, Close, SetCallback, Reset, TransferT0, ReadEx, and the status thread | replacing a callback that is about to run; procedure bytes of a card that may stop answering |
| `am_userdata/am_userdata.c` + `aml` | a ring of length-prefixed packages; caption data held back for reordering | Open, Close, Read, and the driver's writer thread | readers that wait and time out, packages that do not fit, coded and display order |
| `am_pes`, `am_ad` | a growing byte buffer; a decoder instance with a filter | feed bytes; callbacks per packet | packets cut at any byte; a handle freed beside its callback |
| `am_av` + `aml` | the mode mask of a decoder device, its parameters and mapped files; a time shift file and its player thread | start and stop of each mode; fill, play, pause, seek, fast forward of a time shift | starts that fail in the middle; a ring over files that is written and read at once; one place for a command |
| `am_dvr`, `am_dsc` | a table of streams with the filters they use; a table of channels | open, record, close; allocate, free, set | filters of a demultiplexer others open and close |
| `am_inp` | enable flag, callback, an event thread | Open, Close, Enable, Disable, SetCallback, WaitEvent | the protocol of am_fend with two things to wait for |
| `am_open_lib/am_ci` | status, callbacks and slot information of a common interface device, the thread that polls its protocol stack; the CA manager's handle over it | Open, Start, Stop, Close, SetCallback; open, close and calls of the CA manager | callbacks run under the lock with which Stop joins the thread; two locks, taken in both orders |
| `am_misc`, `am_time`, `am_net`, `am_kl`, `am_mem`, `am_aout`, `am_vout`, `am_osd`, the libraries of `am_open_lib`, `am_fend_diseqc_cmd.c`, `am_rotor_calc.c` | none or hardware settings | helpers, setters, pixels, byte strings | nothing concurrent of their own |

Not here: `am_mw` (headers and a prebuilt library), `doc/` (binary documents), `test/`
(programs that exercise hardware by hand), build files, vendored libraries under
`am_open_lib`.

How components interact.  Every front has a mutex per device (`dev->lock`) and uses the one
global mutex `am_gAdpLock` for open and close.  The data thread of a demultiplexer,
the monitor thread of a frontend and the threads that signal events call
application code; that code calls the library again.  `am_fend` and `am_dmx`
report status through `am_evt` as well.  `am_dvr` and `am_ad` use `am_dmx`; `am_ad`
also uses `am_pes`.

What makes each modelled component correct:

* am_dmx: after `AM_DMX_Sync`, and after the last `AM_DMX_Close`, no callback that was
  stopped, freed or replaced runs; no waiting client is forgotten; every close of the
  last reference ends the thread and releases every filter; what the library takes for
  enabled is what the kernel runs; a section goes to the owner of the filter.
* dvr.c: a channel counts exactly its enabled filters; the kernel taps exactly the
  PIDs of the channels in use.
* am_fend: a replaced callback is silent; a call of `AM_FEND_Lock` returns the status of
  its own parameters, its frame is not used after it, and it ends.
* am_evt: no callback is subscribed twice; an unsubscribed one is silent; a signal
  reaches every subscriber once.
* am_userdata: packages are read in order, whole and once, and none stays in the ring
  while readers call; captions come out in display order.
* am_av: one user for each decoder; every mapped file is freed once; a time shift gives
  back what was recorded, and its player obeys and ends (section 4 has the commands with which it does not).
* am_smc: a replaced callback is silent; host and card stay in step during a T0 transfer.
* am_fend, blind scan: the tuner is out of its scan when `AM_FEND_BlindExit` returns, and the
  callback knows the transponders found.
* dvr.c and am_pes as parsers: every section, every packet that arrives is passed on whole
  and once, wherever it was cut.
* am_inp: a callback that was replaced or disabled is silent.
* am_ci: what the thread uses lives as long as it does; the application cannot close a device
  the CA manager has opened; Stop and Close return unless the thread has something to say.
* am_ad and am_dvr beside an application: nobody uses what another has freed, nobody
  frees what is another's.

The hazards, each at its line with the properties that cover it, are listed in
`PROJECT.json`.

## 2. Modules

| Module | Models | Checked by | Proofs |
|---|---|---|---|
| `Dmx` | am_dmx.c over linux_dvb.c, hardware filters | `MCDmx` | `DmxProofs` |
| `DmxContract` | what Sync and Close promise, abstractly | refinement in `MCDmx` | `DmxProofs` |
| `DmxSw` | am_dmx.c over dvr/dvr.c, software filters | `MCDmxSw` | `DmxSwProofs` |
| `Fend` | am_fend.c over linux_dvb.c | `MCFend` | `FendProofs` |
| `Evt` | am_evt.c | `MCEvtUsers`, `MCEvt` | `EvtProofs` |
| `UserData` | am_userdata.c: the ring, readers, open and close, the driver's thread | `MCDevices` | `MediaProofs` |
| `UserDataContract` | what it promises: a queue of packages | refinement in `MCDevices` | `MediaProofs` |
| `CcFields`, `CcPoc` | am_userdata/aml/aml.c: captions of MPEG-2 fields, of H.264 frames, into display order (together: `Captions`) | `MCDevices` | `MediaProofs` |
| `TsFile` | am_av/aml/aml.c: the file of a time shift | `MCDevices` | `MediaProofs` |
| `TsPlayer` | am_av/aml/aml.c: the player thread of a time shift and its commands | `MCDevices` | `DevicesProofs` |
| `AvModes` | am_av.c: modes, mapped files, failing starts | `MCDevices` | `DevicesProofs` |
| `SmcStatus` | am_smc.c: the status thread, SetCallback, open and close | `MCDevices` | `SmcProofs` |
| `SmcT0` | am_smc.c: a T0 transfer and a card | `MCDevices` | `SmcProofs` |
| `FendBlind` | am_fend.c: the blind scan thread beside the monitor thread | `MCDevices` | `DevicesProofs` |
| `SectionAsm` | dvr.c: sections from the payloads of packets | `MCDevices` | `ParsersProofs` |
| `PesSplit` | am_pes.c: packets from pieces of a byte stream (with `SectionAsm`: `Parsers`) | `MCDevices` | `ParsersProofs` |
| `Inp` | am_inp.c: the event thread, Enable, Disable, SetCallback, open and close | `MCDevices` | `DevicesProofs` |
| `DmxUsers` | am_ad.c and am_dvr.c over the filters of am_dmx.c, beside an application | `MCEvtUsers` | `EvtProofs` |
| `EvtUsers` | `Evt` or `DmxUsers`, one at a time | `MCEvtUsers` | `EvtProofs` |
| `Ci` | am_ci.c and ca_ci.c: the thread of a common interface device, its callbacks and the CA manager | `MCDevices` | `DevicesProofs` |
| `Devices` | one of the other devices above at a time | `MCDevices` | `DevicesProofs` |

### Conventions

A section of code run under `dev->lock` is one action: no thread keeps that mutex
across a wait other than `pthread_cond_wait`, which releases it.  (`Ci` has a variable for its
lock, under which it joins a thread.)  `am_gAdpLock` is a
variable (`adp`) because a close keeps it while it joins a thread.  Variables read
or written outside of the mutex have actions of their own.  `pthread_cond_wait` may
return without a broadcast (`SpuriousWake`).  A call that fails its argument checks
changes nothing and has no action.  Where the program dereferences a null or dead
pointer the model sets `crashed` (`avCrashed`, or the place `crash` of a user of the recorder) and stops.
History variables (`owner`, `pend`, `silent`, `gone`, and those of the exceptions, which section 4
lists) never appear in a guard.  A definition whose comment begins with
"Mutant:" is a variant of the definition after it with a plausible bug; nothing
uses it, it documents what the named property would catch.

### Dmx

`pc` is where the data thread of `dmx_data_thread` is: `check` (the test of
`enable_thread`), `poll` (`drv->poll`), `flag` (set `DMX_FL_RUN_CB`), `scan` (the loop
over the mask and its unlocked test), `read` (the locked test and the read of the
section), `cb` (the callback runs), `clear` and `wake` (clear the flag, broadcast).
`cli[c]` is where client `c` is: out, in (it holds a reference), in `AM_DMX_Sync`
(wait, woken), in `AM_DMX_Close` at the join, between the two halves of `AM_DMX_SetSource`.
`hw` is the kernel's view of each filter; it differs from `enable` when ioctls fail.
Callbacks are client code: at `cb` the thread may make every call in `CallbackOps` in the
name of the client the section is delivered to.

A registration is a pair of a filter and the `user_data` set on it.  It is `Live` when the
thread may call it.  `silent` collects what the library has promised not to call.
`DmxContract` is that promise without threads, flags or filters: registrations come
and go, calls begin on live ones and end, a sync that returns may promise
silence to what is neither live nor being called.

### DmxSw

The same front over `dvr.c`: channels with `chUsed`, `chPid`, `chKind`, and a tap each.  The data
thread is at `poll` or in a callback with `left` sections of the current packet to go;
the lock is free at that point, so every operation of clients and of the
callback interleaves there.  Bytes are abstracted: a packet completes some number of
sections of its PID, a section has a table id.

### Fend

The thread `fend_thread` as in Dmx, with the event it read before it set the
flag.  `calling` is the callback being run, `lockcb` means `fend_lock_cb`.  The frame of an
`AM_FEND_Lock` is identified with its client: `cb = c` says that `fend_lock_cb` with the
frame of client `c` is installed, `old[c]` is the callback saved in that frame.  The
tuner is external: it reports events for the parameters last set.

### Evt

The list of subscriptions, and for each thread the stack of signals it is in (a callback
may signal again).  Subscribe and Unsubscribe are in two steps, because the lock is
released between look-up and insertion, and because the write lock waits.

### UserData and UserDataContract

`data` is the ring as an array; a byte in it is the number of its package and its offset, the
first bytes of a package being the `int` that holds its length.  `pread` and `pwrite` are the
pointers of the code, with one cell always empty.  `PackageWrite`, `PackageRead` are the critical
sections; a reader that finds nothing is in `wait`, is `woken` by the one signal a write makes, or
leaves by its timeout, in any order.  `ThreadEnds` is the thread after `running` was cleared.
The contract is a queue: `Put`, `Drop`, `Take`, `Empty` (the last close).

### CcFields and CcPoc

The stream is the environment: groups of an anchor picture and the B pictures shown before it, in
frames or fields, with fields that may be lost; frames with a picture order count, at most
`Depth` of which are out of order.  The device is `reorder_pictures` with its two buffers, and
the list of caption blocks with `MAX_POC_CACHE`.  History: `out` and `written`, what was passed on.

### TsFile and TsPlayer

`TsFile` has the counters of the code (`size`, `total`, `avail`, `start`, `read`, `write`), the
positions of the two descriptors in the sub files (`rat` for `rfd`, `wat` for `wfd`) and what each sub file holds; a
byte is its number in the recording.  A write is three actions, because the code writes
without the lock and corrects the counters afterwards (`WriteFirst`, `WriteRest`,
`Adjust`).  `adrift` is history: the places, named there, where a descriptor
is no longer where the counters say.  `TsPlayer` is the command loop: `Take` copies
`tshift->cmd` under the lock, `Obey` is `aml_timeshift_do_play_cmd` with its early returns,
`Restart` and `Trick` are the branches of the loop that give the thread itself a command.  `Command` is
any command in any state, as `aml_timeshift_cmd` checks nothing: it may overwrite a command that
waits, the thread's own included.  `startLost` and `masked` are history: what that does to a search and to
the trick mode.

### AvModes

`mode` is the bit mask as a set.  `Start` is `av_start` in the order of its calls: what excludes
the new mode is stopped, the mode opened and noted, its parameters kept, the driver started; it may
fail at each.  `mapped` are the files mapped and not unmapped, `vidPara` and `audPara` what
the two players hold, `curVes` what the video path is restarted with.  `SetVPath` restarts the
modes that are open, also one that a failed start has left open, with what `curVes` holds from before;
a picture that was left open is started with a null pointer (`PathCrashes`), and a file and a
picture together with a mode `av_start` does not know (`PathTogether`).  `AM_AV_GetJPEGDataInfo` hands its
result to `av_start` in the place of its parameters, so any number and flag may be noted (`PicturePara`).
History: `dropped` and `wild`, the cases named at `MappingsOwned`, and `halfVes`, a video stream that is open after
its start has failed, by which `wild` is told.

### SmcStatus and SmcT0

`SmcStatus` is the thread of `am_smc.c:299` with `stpc` as its place: test, get, mark, call, in,
clear, wake; between `get` and `mark` a status is known and the flag not yet set.  `SmcT0`
has a host, whose `hpc` is the place in the loop of `AM_SMC_TransferT0`, a card that chooses
among the procedure bytes, and the bytes on the way.  `overdue` is history: a
transfer was given up.

### FendBlind

`bStatus` is `BS_Status`, `bAt` the place in the loop: the test, the switch, inside the
callback.  `monitor` is the other thread, which reads the same descriptor; `taken` counts the
events of the scan that it took.

### SectionAsm and PesSplit

Both parse a stream the environment cuts.  In `SectionAsm` a packet holds some bytes of
the sections to come, with pointer and stuffing, and packets get lost; `secBuf` is `ch->buf` up to
`ch->size`, and `Parsed` is the loop over a payload.  `owed` is the reference: the
sections whose bytes have all come.  In `PesSplit` each call brings any number of bytes; `PesTurn` is one
turn of the loop in `AM_PES_Decode`, and `Due` is the reference, from the units of the stream alone.
`Decodable` says which streams are given: bytes that look like a start code stand only in a
packet with a length or in the first six bytes of one without (the parser could not tell them from one),
headers are not longer than their packets, and no packet of length 65535 is to be given whole.

### Inp

As `SmcStatus`, with `enable` beside the callback.  A request (enable, disable, set) that has
to wait is kept in `inpAsked`; it is carried out again from its test when it is woken.

### DmxUsers

The filters with owner, enable and whose callback is set (a freed filter keeps its callback, as in
the code), `open_count`, and the callback that runs.  `AM_AD_Destroy` is three steps.  The
recorder keeps the numbers of its filters in `streams` up to `streamCnt`.  Each of its users is a thread, at
the place `dvrAt` of its call: `AM_DVR_StartRecord` and `StopRecord` hold `dev->lock` (`dvrLock`), `AM_DVR_Close` holds
`am_gAdpLock` and not that, so its loop over the streams runs beside theirs, step by step (`StreamAllocated`,
`StreamStarted`; `StreamStopped`, `StreamFreed`, `StreamCleared`).  The first user that closes
destroys `dev->lock`, after which it keeps nobody out.  `AM_DMX_StartFilter` of a filter not in use follows a null
pointer.  `kept`, `cut` and `raced` are history: who else had the
demultiplexer open, whether it was closed under a recording, and whether a call of the recorder began beside
another user's that was not over.  The demultiplexer is reduced to what these users see of it; its own hazards are those of `Dmx`.

### Ci

`cam` is where `ci_camthread` is: the test, the stack's poll, before `ci->lock`, in the CA
manager's callback before `ca_ci->lock`, in a callback.  `ciLock` and `caLock` say who holds a lock
from one step to another: the thread while its callback runs, who joins it, and the CA manager
from the beginning of a call to its end.  `Started`, `JoinBegins` and `JoinEnds` are shared by the
application and the CA manager.  `overtaken` is history: the application closed the device between
two calls of `ca_ci_open`.

## 3. Runs

| Run | Instance | Question and answer |
|---|---|---|
| `dmx_sync` | 2 clients, 2 filters, no fault, callbacks also set the source | The promises of Sync and Close, the reference count, no stray kernel filter, delivery to the owner.  They hold. |
| `dmx_fault` | 2 clients, 1 filter, 2 sources, the stop ioctl may fail, callbacks change filters, fairness | The inductive invariant behind the proofs holds, Dmx implements DmxContract, an enabled filter can deliver, Close and Sync end, nothing deadlocks. |
| `dmxsw` | 2 filters, 2 channels, 2 PIDs, both kinds, 2 sections a packet | Share counts and taps are exact although callbacks change filters inside a packet. |
| `dmxsw_sync` | the same, section filters | Violated: see below. |
| `dmxsw_stop` | the same, section filters | Violated: see below. |
| `fend_callbacks` | 2 clients, 2 callbacks, callbacks make every call | A replaced callback is silent once SetCallback has returned. |
| `fend_lock` | a locking client, a client that replaces and disables callbacks, 2 parameters, callbacks tune, fairness | No lost wake-up, frames alive, the status belongs to the parameters, calls end unless disturbed. |
| `fend_two_locks` | 2 locking clients | Violated: see below. |
| `fend_hang` | 1 client | Violated: see below. |
| `evt_users` | `Evt`: 2 threads, 2 topics, 2 callbacks, nesting of 2; or `DmxUsers`: 2 filters, 2 streams, 2 users of the recorder with 3 calls, the audio description, the application | No duplicate, silent after Unsubscribe, a signal reaches all.  Who uses the demultiplexer keeps what is his, at every step of the recorder's loops, up to the cases named `kept`, `cut` and `raced`. |
| `evt_twice` | 2 threads, the same callback | Violated: see below. |
| `devices` | 13 devices, one at a time, see below | The properties of section 1 for each of them.  They hold. |

`devices` checks `Devices`, which joins the modules that share no state: a behaviour chooses one device at the start
and the others stay as they begin, so the states of the run are the sum of the
instances, not their product, and a state or a property of one says nothing about another.
Its instances:

| Device | Instance | Why it is enough |
|---|---|---|
| `userdata` | 3 readers, ring of 14 cells, packages of 1 and 5 bytes, one reader's buffer of 2, 4 packages | two packages fill the ring, header and bytes wrap around, one package does not fit one reader, one signal and two waiting readers |
| `fields`, `poc` | groups of up to 2 B pictures, 5 pictures; 2 sequences of 6 frames, a cache of 3 | every mixture of frames and fields at the three places the code looks at; a cache that fills and a sequence that ends with it full |
| `tsfile` | sub files of 4 bytes, ring of 7, writes of 1 to 3, reads of 1 and 3, 12 bytes | the ring's end is inside a sub file, the writer passes it and passes the reader |
| `tsplayer` | 8 commands, each in any state and at any moment, two speeds, the rate known at any time or never; no bound | finite: this is all the player can do |
| `smc`, `inp` | 2 clients, 2 callbacks | one replaces while another waits or closes |
| `t0` | 2 commands of up to 2 bytes, 1 NULL | a byte at a time, all at once, and a late answer for the next command |
| `av` | 8 modes, 2 files, open and start may fail | each player holds a file; one file is freed while the path keeps it and the other replaces it |
| `sections` | payloads of 6, sections of 4 and 14 bytes, 4 sections, 2 losses | two sections in a packet, one over three packets, every place of the cut |
| `blind` | 2 transponders, any number of other events | one told, one overtaken |
| `pes` | 3 units out of 6 kinds, calls of any size to 11 bytes | every cut of every pair of kinds, with a third to end a packet without a length |
| `ci` | 2 clients, 2 callbacks, the CA manager | one joins while the other waits, the manager at every place of both |

In `evt_users` two filters and two streams give a stream without a filter and a filter with a new owner; three calls
are a start, and a stop and a close that meet, by either user and in any order.  Like `devices` its two modules share
no state.  It does not check the types of its modules, which
the invariants of `EvtProofs` contain (`UsersAreTyped`); in `dmx_sync` it
is left to `dmx_fault`, whose `SyncInv` contains it.

Bounds.  Two clients and the thread are the smallest set in which a client races
with another that races with the thread; the thread handles one filter at a time, so two
filters suffice for a mask with a filter still to come while the first is in its
callback.  One filter suffices in `dmx_fault`: there the subject is
one filter's life under failures.  Two filters on two PIDs give a channel that is
shared, one that is reused for another PID, and one that is lost in mid-packet.
`MaxSections` is 2, so that a section follows a callback that changed the filters.
`MaxDepth` is 2 (a signal within a signal) and `MaxEvents` is as many
subscriptions as there are topics times callbacks, so that it never cuts a run of
`evt_users`; in `evt_twice` it leaves room for a duplicate.  No counter of the programs
grows without bound: reference counts are bounded by the clients.  Symmetry over
clients, PIDs or users of the recorder is used only in runs without liveness properties.  Deadlock
checking is off in three runs, where the modelled code really stops: in `dmx_sync` a callback that
calls `AM_DMX_SetSource` waits for the `am_gAdpLock` of the close that waits for it; in `dmxsw` a null
pointer stops the program; in `devices` a null pointer does too (`AvModes`), a recording, a stream or a list of commands
comes to its end, and the common interface device reaches the deadlock of section 4.  In `evt_users` a program that
has followed a null pointer stays as it is (`UsersCrashed`), so the deadlock check remains on.

Fairness.  In `Dmx` the data thread runs (poll has a timeout), callbacks return, and a
client inside `AM_DMX_Sync` or `AM_DMX_Close` goes on when it can.  No client has to make
a call.  `AM_DMX_Sync` may wait for ever if the thread sets the flag again
before the woken client runs, so `SyncTerminates` excepts the case that sections
keep arriving.  In `Fend` a tuner reports the outcome of a tuning (locked or
timed out are both a non-zero status), hence strong fairness of an event with a
status; and a woken client is strongly fair because the thread blocks in
`wait_event` between two settings of the flag, longer than a client needs to get
the mutex.

In `devices`, `UserData` assumes that a reader calls again (strong fairness of `ReadCall`: a
client polls, whatever other readers do meanwhile) and that a woken reader and a joining client go
on; no write is fair.  `TsPlayer`, `FendBlind`, `Inp` and `Ci` assume weak fairness of their thread, whose
waits have timeouts and whose callbacks return, and of the client that joins it.  Each of these has a
specification without fairness, which the theorems are about, and one with it (`UdFairSpec`,
`TsPlayerFairSpec`, and so on).  `SmcStatus`, `TsFile`,
`AvModes` and the parsers have no liveness property and assume nothing.

## 4. Where the code does not do what it says

Five runs check one statement of the repository each and find it violated.

* `dmxsw_sync`.  `am_dmx.c:838` says that `AM_DMX_Sync` "can be used to wait for the callbacks to
  finish".  With `use_sw_filter` the callbacks run inside `drv->poll` with the lock released
  and `DMX_FL_RUN_CB` is never set: `AM_DMX_Sync` returns while a callback of a stopped filter runs.
* `dmxsw_stop`.  A stopped software filter keeps `chan`, and `data_cb` calls every used filter of
  that channel: it is called with the sections of the filter it shared the channel with.
* `fend_two_locks`.  Two concurrent `AM_FEND_Lock` share one `FEND_FL_LOCK`; the first match
  lets both return, and the second returns success with `*status` unset.
* `fend_hang`.  After `AM_FEND_SetActionCallback(FALSE)` the thread does not call `fend_lock_cb`,
  and `AM_FEND_Lock` waits for ever.
* `evt_twice`.  `AM_EVT_Subscribe` filters out a callback that is subscribed already, but tests and
  inserts under different locks: two threads insert it twice.

Other behaviours that no text of the repository excludes are kept in the models
without a property, and are named in the hazards: `AM_DMX_SetSource` may leave
the driver and `dev->src` different; `AM_DMX_StartFilter` of an unused handle
uses a null pointer; a callback that sets the source while the device is closed blocks
both; `AM_FEND_Lock` undoes a callback registered while it waits; an event read
before a tuning can answer a later call with the same parameters; the first packet
of a software PES filter uses a null pointer; a section whose first three bytes are divided
by the end of a packet is lost; a time shift goes adrift after an overrun and at the end of a sub file; after a
smart card has timed out its late answer is taken for that of the next command;
`AM_AD_Destroy` frees a handle its callback may still use when others keep the demultiplexer open; a recorder
whose demultiplexer is closed keeps the numbers of its filters; `AM_DVR_Close` stops the streams under another
lock than `AM_DVR_StartRecord` and `StopRecord`, and destroys theirs: a filter allocated behind its loop is lost, one may
be freed twice, the second time another's, or be started when it is freed, with a null pointer; a video stream started
over another loses a mapping; `av_set_vpath` restarts what a failed start has left open, a video stream with a
mapping that may be freed, a picture with a null pointer; `AM_AV_GetJPEGDataInfo` notes what happens to
lie in its result as a mapping; the commands fast forward, resume, pause, resume leave the player of a time shift playing in
the trick mode, also when each is waited for; a second seek, given before the player has taken the start that ends the
first, leaves it searching; a seek or a fast forward before the rate is known is given up in every turn of the
player's loop, and `AM_AV_StopTimeshift` then waits for ever; `AM_CI_Stop` and a thread with something to say wait for each other, as
do the CA manager's callback and its calls, and a started device that was stopped before has a
thread that ends at once; `AM_DSC_Close` resets the mode of the descramblers that are still open.  The properties of these modules exclude such states
by a history variable that names the cause (`doubt`, `adrift`, `overdue`, `overtaken`, `kept`, `cut`, `raced`,
`dropped`, `wild`, `startLost`, `masked`) or a predicate that does (`HungUp`, `CiStopping`), so what they promise is
what holds up to it.

## 5. Proofs

Assumed of the constants is only the named assumption of each module (`DmxAssumption`,
`DmxSwAssumption`, and so on): names that are distinct, finite sets of clients, natural or positive numbers
of filters, sizes and bounds.  TLC evaluates each in every run of its module.  No theorem bounds
what the runs bound.  Some theorems have a further hypothesis on the use of the library or on what
may fail:

| Hypothesis | Theorems | Why |
|---|---|---|
| no "stop" in `Faults` | `NoFilterIsLeft`, one half of `EnabledDelivers` | after `DMX_STOP` has failed the kernel runs a filter the library has freed |
| no "tap" in `Faults` | `TapsFollowChannels` | `dvr_enable_filter` goes on without a tap it could not open |
| `~Careless` | `SectionsReachTheOwner`, the other half of `EnabledDelivers` | clients use handles they have allocated; what happens else is the hazard at `am_dmx.c:642` |
| `OneLocks`, `NobodyLocks` | `FramesAlive`, `StatusIsForTheCall`; `ReplacedIsSilent` of Fend | `fend_two_locks` shows that the first cannot be dropped |
| `OwnCallbacks` | the theorems of Evt | `evt_twice` shows that it cannot be dropped |

`DmxProofs`:

* `Typing`: `Spec => []TypeOK`, any number of clients, filters and sources, with every fault
  and every callback behaviour.
* `ReferencesCounted`: the thread lives exactly while a client holds the device.
  `ReferenceCount` is not inductive: a close that is joining must be known to be the
  last reference.  `RefInv` adds who holds `am_gAdpLock`; then open, the one action that
  could disturb the join, is excluded while a close is under way.
* `SyncInvariant`, `SyncPromise`, `NoWakeupIsLost`: nothing the library promised silent is called.
  `SyncedSilent` alone is not inductive: the thread copies `cb` before it calls it.
  `SyncInv` adds that promised registrations are not live, neither are those a
  waiting client is about to be promised, and that `DMX_FL_RUN_CB` is set from the scan to
  the last callback.  A client that finds the flag clear then finds the thread
  outside of every callback, and what the thread will read later must be live.
* `Refinement`: `Spec => Contract!Spec`: each step of the device is a step of the contract
  or leaves it unchanged; the proof uses `SyncInv`.
* `EnabledDelivers`: what is enabled is allocated, polled and runs in the kernel.  `FilterInv` adds that
  what could be started has its descriptor, and that a closed device has nothing of either: a
  filter that lost its descriptor in a close would else be started by the next user.
* `NoFilterIsLeft`: the converse; `NoStrayFilter` is inductive beside `SyncInv` and `RefInv`, which
  says that no call is under way in a closed device.
* `SectionsReachTheOwner`, an action property: from `OwnUserData`, the registrations of enabled
  filters are their owner's, across every reuse of a filter.
* `CloseComesNearer`: see "Progress" below.

`DmxSwProofs`, for any number of filters, channels and PIDs:

* `Typing`, `ChannelsCounted`, the share counts of `dvr.c`.  The invariant adds that an enabled filter
  is used and points to a channel of its own PID and kind, and that used channels have distinct PIDs:
  then starting a filter finds at most one channel, and stopping it decrements the one
  that counts it.
* `TapsFollowChannels`, from the share counts: a step that does not rebuild the taps changes
  neither which channels are in use nor the PID of one that is.

`FendProofs`, for any number of clients and callback data:

* `Typing`, `NoWakeupIsLost`.  `WakeInv` says that `FEND_FL_RUN_CB` covers every state from the
  decision to run the callback to the end of the round (`FlagCovers`), and that a
  waiting client has the flag or a broadcast ahead of it.  `RefInv` is needed for
  `AM_FEND_Open`, which clears the flags: nobody is inside a device that is opened first.
* `FramesAlive`, `StatusIsForTheCall`, if at most one client locks (`OneLocks`).
  `FrameInv`: where `cb`, or the callback the thread is running, is a frame, that
  client is inside its call.  `StatusInv`: while a client waits in `AM_FEND_Lock` and
  `FEND_FL_LOCK` is clear, its status is set for its parameters.
* `ReplacedIsSilent`, if nobody locks (`NobodyLocks`): `AM_FEND_Lock` restores the callback saved
  in its frame, and that may be one that was replaced meanwhile.
* `CloseComesNearer`: see "Progress".

`EvtProofs`, for any number of threads, topics and subscriptions:

* `SubscribedOnce`, `UnsubscribedIsSilent`.  `EvtInv` adds to `NoDuplicates` that a
  subscription about to be inserted is still absent (the thread's own calls are the only ones that
  could insert it), that what is gone is not in the list, and that what is being
  called is.  The list lemmas (`RemoveFirst` of a duplicate-free list) are proved there too.
* `SignalsAreComplete`: a signal that ends has called what was due, once each.  `SignalInv`: what a
  frame has called is what the list holds for its topic up to the frame's place, and as many, as
  the list has no duplicate; the read lock keeps the list as it was.  The next place is a minimum, whose
  existence is well-foundedness of the naturals.
* `UsersStayApart` (DmxUsers), for any filters, streams, users of the recorder and calls: `open_count` is
  exactly the application and the audio description; a filter that calls the description is its own.  Unless `cut` or
  `raced`, one call of the recorder at most works on the streams, is where `PlaceKept` says (what it is about to
  start, stop or clear is a filter of the recorder's; behind a loop that stops, nothing is left), and
  each filter has the owner that believes so (`OwnersKept`).
* `UsersAreTyped`: the types, in the races too.

`SmcProofs`, for any clients and callbacks, and any number and lengths of commands:

* `ReplacedIsSilent`, `NoWakeupIsLost`, from `SmcInv`: the flag covers every call, from before `cb`
  is read until after the callback has returned (`FlagCovers`); the thread is alive while the
  device is open (`ThreadJoined`); who waits in `AM_SMC_SetCallback` keeps it open (`SettersInside`); and no
  callback that is gone is the current one (`NoneGone`), which is what `ReplacedStatusSilent`
  lacks to be inductive: the thread copies what is current.
* `TransfersKeepStep`: `T0Exchange` speaks of the end of a transfer only; `InStep` says what the bytes on
  the way are before that.  A function `cnt` over the line counts the data that have been sent up to
  each place: it begins with what the host has and ends with what the card has sent; each byte is the next
  datum or leaves the count; and a procedure byte is followed by what it announces (`Formed`): one
  datum, all the rest, or none.  `cnt` is a witness, moved on when a byte is taken and extended when some are sent,
  instead of a fold over the line, which would need induction over data.
* `CloseComesNearer` (SmcStatus): see "Progress".

`DevicesProofs`, one section for each of the smaller devices:

* `ReplacedAreSilent` (Inp), for any clients and callbacks: as in `SmcProofs`, with the disabled
  device: as long as nobody has enabled it again no callback runs, nor can begin.
* `InpNoWakeupIsLost` (Inp): who waits has the flag or a broadcast ahead of it.  It needs that a waiting
  client keeps the device open, as `inp_open` clears the flag.
* `InpCloseComesNearer`, `BlindExitComesNearer`, `StopComesNearer`: see "Progress".
* `CiIsKept` (Ci): from who holds `ci->lock` at each place of the thread, of a client in Stop and of
  the CA manager; no client's Stop is under way when the CA manager keeps the device.
* `PlayerPlaysNormally` (TsPlayer), for any commands in any state: unless `masked`, a trick mode is on only in fast
  forward, where `last_cmd` shows it to whoever pauses, or in a search that a change of the audio track has begun
  there, and the search ends with the command the thread gives itself.
* `ModesAreExclusive` (AvModes), for any number of files and any failures.  `ModesExclusive` is
  inductive, because each start stops what excludes its mode before it opens it; the lemmas say what `Unmap`,
  `StopOne`, `StopAll` and `Start`, functions of a state, do to the modes, so that each operation needs
  one of them only.
* `MappingsHaveOwners` (AvModes), from `AvInv`: the same functions keep every mapping with one owner
  (`Owned`), except those an operation writes over, which it adds to `dropped`, and those that are noted although
  another has them, `wild`; and as long as its last start has not failed (`halfVes`) the video stream that plays is the
  one the path is restarted with.
* `BlindScanIsKept` (FendBlind), for any number of transponders, from `BlindInv`: the tuner scans only
  where the thread will cancel (`ScanHeld`), the cancellation and the join follow the reset of the flag
  (`FlagReset`), the monitor thread, having taken an event, is at its test while the flag is set
  (`OneTaken`), and the list is ahead of the callback exactly while an event is being processed or was
  overtaken (`Counted`).
* `DevicesAreDevices`: the behaviours of `Devices` are behaviours of each of its thirteen modules
  (`StepOfEach`: a step of the composition is a step of one and leaves the variables of the others).  From it
  follow `DevicesAreTyped`, the types of all of them, and `DevicesKeepTheirPromises`, the invariants of the run
  `devices` and the refinement of `UserDataContract`, for all constants.

`MediaProofs`, the captions from the decoder to their readers, and the file of a time shift:

* `RingIsFramed`, `PackagesInOrder` (UserData), for any size of the ring, any lengths of packages and any
  readers: `RingInv` adds to `Framed` that packages are ordered in the distance from `pread` (`Ahead`),
  so that a package stored into the free cells overwrites none; the refinement of `UserDataContract` then
  needs that the header found at `pread` is that of the first package.
* `ClientsAreServed` (UserData): whoever has the device open has a thread that fills the ring, and when nobody has
  there is none.  `UdClients` says that `open_cnt` counts the clients inside, that a client at the join
  holds `am_gAdpLock` and is alone, and that `running` is reset by it only.
* `CaptionsAreInOrder` (CcFields and CcPoc), for any number of pictures, any groups, mixtures of frames and
  fields, and losses, and for any depth of reordering up to `MAX_POC_CACHE`.
  By picture type, `CcInv`: a piece is to come, kept or written, in one of these ways only
  (`PiecesOnce`), whatever is lost; and as long as nothing is, the stream is in one of four places, between
  pictures, within a group, before an anchor or between the fields of one, each of which says what the buffers
  keep and with which picture the output ends.  By order count, `PocInv`: the list holds frames of
  the current sequence, no count twice, and, until it has been full once, nothing of the sequence
  is written.  A full list holds a frame before any that may still come: of its `MAX_POC_CACHE` + 1 frames
  at most `Depth` follow the new one, which is a fact of cardinalities (`FullKeepsUp`).
* `RingIsConsistent` (TsFile), for any sizes of the sub files, of the ring and of the reads and writes:
  the counters are one ring at every moment.  `TsRing` adds that a write in
  progress is cut where the ring ends (`JobCut`), that counters have not gone around before the ring
  is full and stay in the first sub file before the rate is known (`Filling`).
* `ShiftIsKept` (TsFile), for the same: what is read is the stream in order.  `InOrder` is asserted while nothing is
  `adrift`: both descriptors are where their counters say, the sub files but the last are full, and
  every cell of them holds the byte that is right for its place (`FileCells`): one before the writer, one from
  the last time around, or one of the pieces already written of the write in progress.  Two
  kinds of arithmetic are kept apart: places modulo the ring's size, by case analysis of who has
  gone around, and places in sub files, by products of their size.

`ParsersProofs`, what is put together from pieces:

* `SectionsAreWhole` (SectionAsm), for any lengths of sections and payloads, any losses and any stream left
  in the channel before.  `SectionsWhole` speaks of the last packet; `SecInv` says what the channel
  holds between packets: the part of the current section that was sent (`Held`), as long as there is no
  doubt, and else bytes with a complete header of a section that is not complete (`GoodBuf`), which
  cannot stop the parser nor survive a packet in which a section begins.  The loop of
  `parse_sec` is a recursive function; its values are a trace (`IsTrace`), and
  that a trace exists, keeps its buffer good and stands still once there is nothing or stuffing is shown with the
  least number for which it would not (`LeastNat`), so that no induction rule is needed.
* `PacketsAreWhole` (PesSplit), for any units, packets with and without a length, and any lengths of calls,
  from `PesInv`: a number of units has been passed (`PassedBy`); their packets have ended and are
  those that were given, by their rank among the packets; the parser stands before the next one with no
  start code between (`Clear`); and none that follows has ended.  One lemma says what a turn of the loop
  does to this (`PesTurned`: it gives the next packet, or ends because that has not ended), another that
  the loop ends, as every turn goes on in the stream (`LoopParsed`).  The lemmas before them are about the
  library's `FlattenSeq`, also a recursive function: where units stand in a stream and what
  bytes are found there (`UnitsAdjoin`, `UnitBytes`), and about ranks (`RankNext`, `RankReached`).
* `BothAreWhole`: the two together are `AssembledWhole`.

Progress.  A theorem cannot say that a thread ends, which takes fairness.  It can say how far the thread is from
its end, and that is the part of `CloseTerminates`, `CallsTerminate` and `JoinsEnd` in which the code could be wrong.
For each thread that somebody joins there is a distance in steps: with somebody at the join it is bounded and
zero at the thread's end only (`...Bounded`), each step of the thread lowers it, and no step of
anyone, a call from the callback included, raises it (`...Nears`).  What is left to TLC is that
the thread can take a step, and that fairness makes it.

| Theorem | Thread joined by | Steps at most | What keeps the distance from growing |
|---|---|---|---|
| `DmxProofs!CloseComesNearer` | `AM_DMX_Close` | 3 * NFilter + 6 | nobody opens, and so enables the thread, while `am_gAdpLock` is held; the mask is fixed by the poll |
| `FendProofs!CloseComesNearer` | `AM_FEND_Close` | 11 | the same; whose callback or frame runs makes no difference |
| `SmcProofs!CloseComesNearer` | `AM_SMC_Close` | 7 | the same |
| `InpCloseComesNearer` | `AM_INP_Close` | 7 | the same |
| `BlindExitComesNearer` | `AM_FEND_BlindExit` | 4 | the flag of the loop is set by `AM_FEND_BlindScan` only, and there is one scan at a time |
| `StopComesNearer` | `AM_AV_StopTimeshift` | 14 | the thread may give itself commands (a search that ends in fast forward does), but two turns at most are due (`TurnsDue`), whatever the clients gave before; unless the pending command is given up in each turn (`HeldUp`), which then stays so for ever |

The exception is a callback of the demultiplexer in `AM_DMX_SetSource`, where the thread has no step to
take.  `Ci` has no such theorem: its thread and its join do wait for each other (section 4).

Only model-checked is all liveness, with the fairness of section 3, as ENABLED and fairness are out of the
prover's reach: `CloseTerminates`, `SyncTerminates`, `CallsTerminate`, `LockUndisturbedEnds`,
`Drained`, `SearchEnds`, `JoinsEnd`.  Of `SyncTerminates` and the calls of `Fend` that wait, the theorems
`NoWakeupIsLost` are the safety half.  Every invariant and every action property of a passing run is
stated by a theorem.

## 6. Not modelled

* am_dmx: failures of `pthread_create` and of driver open; `AM_DMX_SetBufferSize` and other calls
  that change nothing the library keeps; a second close by a client that holds no reference;
  the emulator drivers (they generate test data).
* dvr.c: the search for the sync byte; taps that cannot be opened.
* am_fend: DiSEqC and rotor positions (byte strings and angles); two overlapping blind scans; what
  `AM_FEND_BlindGetProcess` computes; the getters and the analog setters.
* am_evt: `AM_EVT_Destory`; `AM_EVT_Unsubscribe` from a callback, which waits for the write
  lock while its thread has the read lock.
* am_smc: T1, T14, reset and raw reads (each passes bytes to the driver); two transfers at a time,
  which share static buffers; an ATR.
* am_userdata: the search for picture headers in the bytes of the decoder, AVS, DirecTV and AFD data.
* am_av: the setters of the video layer; injection buffers and the monitor of
  the decoder, which poll hardware state; the mode of a time shift that plays a plain file; restart after the loss of a decoder.
* am_pes: headers longer than their packet, a failed allocation.
* am_ad: `AM_AD_SetCallback`, two plain writes.  am_dvr: Read, SetSource, SetBufferSize.  am_inp:
  `AM_INP_WaitEvent`, which a device with a thread refuses, and the key map, a table.
* am_dsc: a call looks a slot up under one lock and passes its arguments on; there is no
  second step for anything to come between.  The mode it works in is named in the hazards.
* am_ci: the protocol stack below, the `AM_CI_App_*` calls, which pass to it, the bytes of CA PMTs;
  opening a device again after `AM_CI_Close`, which leaves it used and gives an uninitialised handle.
* Everything listed as not modelled in `PROJECT.json`, with the reason.

The mapped lines are a small share of the repository, and would remain one.  Nearly half of
it is `am_open_lib` (the CI and SI libraries `libdvben50221`, `libucsi`, `libdvbsi`, with tables of
codes as headers), a fifth public and kernel headers; the rest outside of the
components above is `memwatch.c`, graphics, programs that exercise hardware by hand, and code
that writes strings to sysfs nodes.  What keeps state of its own and meets a second actor is in
the components above.

## 7. Plan

What a later version could add, in this order:

1. DiSEqC commands and rotor positions of `am_fend`, if they are ever called beside a running scan; today they
   hold the device's lock for their whole length.
2. Two overlapping blind scans, which share one event structure.
3. `AM_CI_App_*` beside a module that is taken out, once `libdvben50221` is modelled below `Ci`.
