# A verification project for drm-test

`drmtest` is a test program for the VeriSilicon/Vivante display controller (DC/DPU): it
loads a test case (JSON), sets its frames through the DRM atomic API, waits for the
write-back of each frame, dumps the written-back buffers to files, and releases what it
created.  A Python harness (`script/dtest.py`) generates cases, runs `drmtest` on each,
compares the digests of the dumps with the goldens of the case and reports pass, fail or
unsupport.  This directory holds TLA+ modules that model the program, TLC configurations
that check them, and proofs for TLAPS.

Paths below are relative to the repository (`tools/drmtest.c`, `src/viv_dc_functions.c`, ...).

## 1. Inventory

| component | state | operations | hard part |
|---|---|---|---|
| **Frame run** (`tools/drmtest.c`: `main`, `dump_wb_buffer_thread`, `update_ltm_thread`) | frames with `commit_done` and their buffers; one mutex `lock`, one condition `cond`; the loop counters of three threads | set, wait, publish, dump, release, cancel, join | three threads, one condition variable, time-outs, cancellation on failure |
| **Stream run** (`tools/drmtest.c`: `main`, `pressure_stream_dump_wb_buffer_thread`) | streams of frames, a mutex and condition per stream, `stream_result` | the same per stream, repeated for `-p` rounds; digest check | state that outlives a round; a cancelled thread nobody joins |
| **Driver contexts (VCMD)** (external; used through ioctls) | frames queued (`frm_rdy_count`) and executed (`frm_exe_count`), free command buffers | commit, query, LTM update | polls with limits, counts against frame numbers |
| **Frame buffers** (`src/viv_dc_functions.c`: `bo_fb_create`, `atomic_set_plane`, `writeback_config`, `dpu_clear_frame_FB`, ...) | buffer objects and framebuffer ids of planes, cursors, write-back pipes; shared stripe and ramless framebuffers | create, swap, release | ownership: what is released twice, never, or while in use |
| **Setting a frame** (`dpu_set_frame`, `dtest_remap_obj_id`, `dtest_case_props_map`, `set_property`) | object ids in the case and in the driver; the atomic request | check support, remap, add properties, commit | order of checks, error paths that keep the request |
| **Process start and end** (`main`) | arguments, device, frames, threads | load, open, `-clear`, `-reset`, `-clean`, free | early exits into shared clean-up code |
| **LTM algorithm** (`prop_map_funcs.c`: `update_ltm_slope_bias`; a closed library) | two histogram buffers, `cdf_curve_last` | read the histogram of frame i, correct frame i + 2 | racing the hardware |
| **Case loading** (`src/case_builder.c`, `src/option/option.c`) | frames, planes, pipes, properties from JSON | load, delete | partial load |
| **Property map functions** (`src/map_funcs/prop_map_funcs.c`) | blobs | one conversion per property | data only |
| **Patterns, formats, files, MD5** (`src/buffers.c`, `src/util/*.c`) | pixels | fill, dump, digest | data only |
| **Case runner and checks** (`script/dtest/runner.py`, `md5_check.py`, `crc_check.py`) | loaded driver, flags, files of the output directory, result lists | load, run, judge, move files, unload | stale files and flags, commands that fail midway |
| **Case generator** (`script/dtest.py`, `maker.py`, `helper.py`, `dc9400/`) | the installed scripts, `auto_cases/<cid>/`, `list_<cid>.txt` | remove, generate, write, list; load and filter | a process killed between two files; 109 generators that must agree on names, ids and geometry |
| cJSON, modetest, LUT data | | | third-party or data |

What makes each correct:

* *Frame run*: a frame is dumped after it was committed (and executed), in order and at most
  once; its buffers are released exactly once and not while they are read; the process ends.
* *Stream run*: the same, and everything a round reports is of that round.
* *Frame buffers*: a buffer has one owner; nothing is destroyed twice, used after it was
  destroyed, or lost.
* *Setting a frame*: a request that fails leaves nothing behind; ids are mapped once.
* *Case generator*: what is loaded after a complete generation is what it made; no case overwrites
  another or lacks a part; what a case shows fits on what it is shown on.
* *Case runner*: a verdict rests on the files and messages of the case's own run; the driver
  is fresh where `--reinstall` promises it, and is left as it was found.

Interactions.  `main` and its threads share the frames; `commit_done` is written under the
mutex and signalled on the condition; buffers are released by the dump thread (frame i - 1
after frame i is dumped) and by `main` (the last frame at `final`, the frame before on a
failure).  All talk to the driver by ioctl.  The runner sees of `drmtest` its exit code, its
output, and the files.

The full list of hazards, each at its line, is in `PROJECT.json`.

## 2. Modules

| module | what it is |
|---|---|
| `DumpOrder` | abstract specification: frames are published, and dumped in order, each after it was published; a frame may be skipped |
| `FrameRun` | the frame-mode run, three threads and the hardware |
| `MCFrameRun` | its instances |
| `FrameRunProofs` | the theorems about it, with proofs |
| `StreamOrder` | abstract specification: streams and rounds one after the other, the frames of a stream published and dumped in order, a stream left only with its digest of the round |
| `StreamRun`, `MCStreamRun` | the stream-mode run |
| `StreamRunProofs` | the theorems about it, with proofs |
| `FrameBuffers`, `MCFrameBuffers` | the buffers and framebuffers of the frames, in both modes |
| `FrameBuffersProofs` | its types, and that every step keeps the owners of buffers apart, with proofs |
| `FrameIdProofs` | which framebuffer ids the frames are committed with, with proofs |
| `FrameReleaseProofs` | that nothing is left behind, that a buffer has one owner and that none is kept destroyed, with proofs |
| `CaseRunner`, `MCCaseRunner` | the Python runner with the digest check |
| `CaseRunnerProofs` | the theorems about it, with proofs |
| `NaturalLemmas` | the least element of a set of naturals, which two of the proof modules need |
| `CaseObjects` | `helper.py`: the objects of a case and what is written of them; the scale arithmetic the generators share |
| `GenPlane`, `GenCrtc`, `GenPostpq`, `GenMulti`, `GenConnector`, `GenScenario` | the generators below `script/dtest/dc9400`, each a set of cases |
| `CaseServer` | the order in which the generators are registered, and the list of all cases |
| `CaseMaker`, `MCCaseMaker` | the generation and the loading of cases, with kills and upgrades |
| `CaseOrigins` | which generators the cases come from that are striped or scaled, and of which objects a frame is: what the proofs assume of the generated cases |
| `CaseMakerProofs` | the theorems about `CaseMaker`, with proofs |

### FrameRun

State: `pc` and `i` give each thread (`"main"`, `"dump"`, `"ltm"`) its place and its loop counter;
`commit_done`, `status`, `query_num` are the program's variables; `lock` is the owner of the mutex and
`waiting` the set of threads inside `pthread_cond_wait`; `cancelled` the threads `pthread_cancel`
was called on; `fb[f]` is what frame f holds: `"none"`, `"live"` or `"freed"`; `chained` and `executed`
are the frames the driver accepted and finished.  `dumped` and `updated` are history.

Each action is the code between two points where another thread can interfere: a lock, an
unlock, a wait, an ioctl, a call that touches shared frames.  `MainPublish` is the critical
section of `main` (set `commit_done`, signal one waiter, unlock) and the end of the iteration.
The wait loop `while (!frame->commit_done) pthread_cond_wait(...)` is the same in both threads
and is modelled once, with the thread as a parameter (`WaitLock`, `WaitTest`, `WaitReturn`,
`WaitTimeOut`).  `SpuriousWake`, `Die` (a cancelled thread dies at a cancellation point; inside the
wait it takes the mutex with it) and `HwExecute` model POSIX threads and the driver and are
marked external in the map.

What can go wrong is the constant `Faults`: a file that cannot be opened, a frame that cannot be
set, a write-back wait that times out, a wait longer than `TIME_OUT`, a failed dump, a histogram
that cannot be mapped, a spurious wake-up.

Modes: `UseVcmd` (the driver was loaded with `VCMD=1`; buffers are created in advance, frames
queue up in command buffers) and `HasLtm` (the LTM thread exists, and finds an LTM property).

### StreamRun

One `round`, one stream `s` and one frame `f` at a time in `main`; one dump thread (`tpc`, `k`), since
the thread of a stream is joined before the next is created; the LTM thread with its wait on
the wrong condition.  `seq[s][f]` is the number of the commit that carried the frame, `executed`
the number of commits the hardware finished: the driver's context counts commits, the code
compares the count with frame numbers.  `published` (the round in which `main` last published a frame) is
history; `result` is `stream_result`, a digest reduced to whether it compares equal with the golden and to the
round it was computed in.  At `MainFree` the process is gone and the threads with it.

### FrameBuffers

The layer below: which field of which frame holds which buffer object and which framebuffer id.
`plane`, `cursor` and `pipe` are the fields of the frames; `wb_stripe`, `ramless_fb_id` and `fb_inuse` those
of the device; `bos` and `fbs` what exists.  A buffer object is known by the number of its allocation (`made`),
so that a pointer to a destroyed one can be told from a pointer to a new one; a framebuffer id is
the lowest free one, as the kernel gives it.  `atomic_set_plane` is two steps: `SwapBos` moves `bo` to `old_bo` and the
former `old_bo` to a local of `main` (`plane_bo`, lines 768-771), and `SetPlane` makes a buffer if that local is empty and
stores it as `bo` (lines 773-801); in between `bo` and `old_bo` are the same buffer, and the other thread may run.  `StripeWb` and
`PipeWb` are `writeback_config`, and `Clear(t)` is `dpu_clear_frame_FB` as either thread runs it.  Of a plane each
framebuffer removed and each buffer destroyed is a step of its own, so that `bo` and `old_bo` are destroyed one after
the other, also when they are the same buffer.  The run is a record,
`setup`, chosen at the start: mode, number of rounds, kinds of pipes, and which calls may fail.
The synchronisation of the threads is reduced to `commit_done`; `FrameRun` and `StreamRun` have it in full.
`ahead` remembers that the dump thread took a frame `main` had not yet set in its round: `commit_done` of a frame is
reset by its dump only (`drmtest.c:391`), so that after a failed dump the thread of the next round finds it set.

### CaseRunner

`Runner.__call__` as a loop over `Plan`, a sequence of cases.  The options (`args`), the cases that have no
file (`missing`) and what the cases say of their connectors (`golden`) are chosen at the start: a connector of a frame has a
digest, a golden without one (the check returns `False`), or is skipped (`globalDisable`, no golden, or no such connector in
the frame).  `out` is the output directory: for every case, frame and connector no
file, a file with the golden content, or one with other content.  It need not be empty at the start (`Leftovers`): `run_cases`
asks only that it exists (`dtest.py:97`), and nothing clears it.  There is one file for each case, frame and connector, as a
case's format and options fix the extension; a leftover with another extension is outside the model.  `RunCase` is a whole run of
`drmtest`: any set of files, good or bad, and any of the two messages the runner looks for.  The
check walks the frames and connectors as `check_md5_result_of_frame` does, moves
each file it compares, and combines the results as the code does for frames and for streams.
`find_dump_file` is kept as it is: the first file, in sorted order, whose name contains the dump
name.  Raised exceptions (a failed `insmod` or `rmmod`, a missing case file) lead to `"raised"`.

### The generators

A generator is a function of a file below `script/dtest/dc9400` that returns cases; the definition of the same name is
the set of cases it returns.  A case has a name and frames, a frame its planes, cursors and connectors, and each
object its CRTC (records of `CaseObjects`).  Ids, formats, sizes, places, refresh rates and names are kept.  Of a property the
name is kept and, of its value, the rectangles it names: `src`, parts of a picture that goes in, and `dst`, parts of what
comes out; tables, coefficients and modes are left out, and with them resources, tile and compression modes unless they
make a difference to the name.  `Tenths` is Python's `round(a / b, 1)` on the quotients that occur.  The order of the cases
of a generator is left open; the order of the generators is that of the imports.

`CaseServer` has 2163 cases.  Names, objects and geometry were compared with what the Python generators return: their list has 2163
cases too, with 2163 different names, so that no two cases become one by being members of a set.

### CaseMaker

State: `files[c]` is the directory `auto_cases/<c>`, a function from the names of the files to what is in them (release,
number of the case, whether the file is whole); `list[c]` the names in `list_<c>.txt`; `release` the scripts that are
installed; `pc`, `cid`, `saved` the process, one at a time; `loaded` what the runner is given.  `complete` is history.

`dtest.py --generate` is `MakeCases`, `RemoveTree`, then the maker: `UnknownChip` ends it, `CaseGen` begins to write; for each case
`GoldenMissing` (the look-up of the digests, which exits), `SaveOpen` (the file is opened, and empty) and `SaveDump`; then
`ListOpen` and `ListWrite`.  `RemoveDies`, `ListDies` and `Die` kill it; what the removal or the list has left is any part.
`dtest.py --case-dir` is `RunDirectory` or, with `--list`, `RunList`.  `Install` replaces the scripts while no process runs.

The releases are a constant: for each chip a sequence of cases, and the golden files.  `MCCaseMaker` has three: all cases
of the repository (`"all"`), and two small ones, `"old"` and `"new"`, of which the second replaces the first: with and
without `dc8200`, with and without the golden file for a cid.

`GoldenOfOwnCase`, `WrittenInFull`, `OnDisplay`, `ScalersAgree` and `StripesTile` are about the case being written, and
so are checked for each of the 2163.  The golden file, which the repository does not have, is taken to have a line for any
dumps of the cases of the chip; the look-up ignores upper and lower case, and so do the names here, of which no two differ
in that alone.

## 3. Runs

Passing runs:

| run | instance | shows |
|---|---|---|
| `frame_apb` | APB, 4 frames, fair, every fault but `TIME_OUT` | `AllReleased`, `NoLostWakeup`, `Termination`, `CommittedIsDumped` |
| `frame_vcmd` | VCMD, LTM, 3 frames, 2 command buffers, all faults | `TypeOK`, `FreshDump`, `OneReleaser`, `ReadAfterReleaseOnlyAtFailure`, `LtmTargetQueued`, `MutexHolder`, refinement of `DumpOrder` |
| `stream_apb` | 2 streams, 2 frames, 2 rounds, fair, set failures | `TypeOK`, `DumpAfterExecution`, `StreamReleased`, `Termination`, refinement of `StreamOrder` |
| `stream_vcmd` | VCMD with LTM, 1 round, all faults | `FreedUnderThread`, `ReadAfterReleaseOnlyAtFailure`, `JoinReturns` |
| `buffers_owners` | 11 setups, up to 3 frames and 3 rounds | `TypeOK`, `HeldBuffersExist`, `OneOwner`, `CommitsOwnFbs`, `NothingLost`, `RamlessLives` |
| `maker_dc9400` | all 2163 cases of a dc9400, and two small releases, one replacing the other; kills | `TypeOK`, `NothingOverwritten`, `LoadsWhatWasMade`, `OnlyLastTorn`, `GoldenOfOwnCase`, `WrittenInFull`, `OnDisplay`, `ScalersAgree`, `StripesTile` |
| `case_verdicts` | 2 cases, 2 frames, 2 connectors, any options; leftovers, a skipped connector, a golden without digest | `TypeOK`, `PassMeansMatched`, `PassOnItsFiles`, `UnsupportOfThisCase`, `FreshDriver`, `DriverLeftAsFound` |

`ImplementsStreamOrder` is the refinement: consumer, published and consumed frames and the digests of `StreamRun` are those of
`StreamOrder`, and since a stream is left only with a digest of the present round, it says for that instance also what `DumpOfThisRound` and
`PassIsOfThisRound` say, as `ImplementsDumpOrder` says what `DumpAfterCommit` says.  `NoLostWakeup`, `MutexHolder` and `JoinReturns` are the safety half of
`Termination`: nobody sleeps on a frame that is committed, the mutex is with a thread that gives it back or with a
cancelled thread that died with it, and the thread `main` joins is not stuck.

`PassOnItsFiles` deserves a remark: the file taken for frame 0 may be that of another frame,
since the name of frame 0 is a part of every name.  The check moves each file it compares, and
the other frame then misses its own; so a mix-up cannot turn into a pass with fewer files than digests.  There is one way out, which the
property names: a frame whose connector is skipped never misses its file.  Whether a file is of this run is not
claimed: those that were there before `drmtest` count as well (`left`).  When none were, and no connector is skipped, the
property says that all files are of this run.

Deadlock checking is on in all passing runs except `frame_vcmd`: there the threads really
can stop (section 4).

Runs that are expected to find a violation, each a disagreement of the code with what its own
text says (`findings` in `PROJECT.json` has the quotations):

| run | property | what happens |
|---|---|---|
| `frame_ltm_live` | `LtmFollowsCommits` | one `pthread_cond_signal` for two waiters: the LTM thread sleeps on |
| `stream_vcmd_rounds` | `SetWithBuffers` | buffers made once, released in round 1, needed in round 2 |
| `stream_stale_pass` | `PassIsOfThisRound` | the digest of an earlier round passes for this one |
| `buffers_planes` | `CommitsOwnFbs` | the planes' buffers are prepared in a loop over the pipes |
| `case_streams` | `PassMeansMatched` | `rets = ret & ret`: the last stream decides |

Other behaviour of the code that the models show and no run is spent on; each bounds what a
passing run claims:

* `LtmTargetQueued` is about runs in which no frame was skipped.  After one was skipped (`drmtest.c:880`) the frame counts
  and the frame numbers differ, and the correction can go to a frame that was never queued.
* `DumpAfterExecution` fails in VCMD mode with two streams: the count of context 1 is compared with the number
  in the stream (`drmtest.c:368`).
* `DumpOfThisRound`, and the order of `StreamOrder`, fail after a failed dump, which leaves `commit_done` set (`drmtest.c:391`).
* In stream mode the LTM thread waits on `cond`, which nothing signals (`LtmServesFrames` in `StreamRun`).
* `CommitsOwnFbs` is about VCMD mode.  In APB mode `dpu_clear_frame_FB` removes the framebuffer of a plane twice
  (`old_fb_id` is a copy of `fb_id`), and the id can have been given to a later frame in between.
* `OneOwner` and `HeldBuffersExist` are stated for states that are `Orderly`.  The code breaks both in two ways, each after a failed
  dump and in a later round of a stream run.  The thread of that round finds `commit_done` set, runs ahead of `main` and clears a plane that `main` is setting:
  it destroys `bo`, and then `old_bo`, which is the same buffer (`viv_dc_functions.c:771`, `2028`, `2033`), or destroys the buffer that `main` goes on
  to use; TLC finds the destroyed buffer in `old_bo` after 27 steps.  Or a creation fails for a plane that kept its buffer from the round before,
  which leaves it in `bo` and `old_bo` (`viv_dc_functions.c:770`), and the release destroys it twice.  What a second destruction does is not defined, and
  the model goes on as if it did nothing; both properties claim nothing from there on.  The setups have runs of both kinds, so that the
  other properties are checked in them.
* `NothingLost` fails for striped pipes in VCMD mode, and `RamlessLives` is checked with the ramless pipe in the first frame,
  where the repository's cases have it.
* A case can pass on files that its `drmtest` did not write.  An unsupported case and a first mismatch leave files in the output directory, which
  is never cleared (`dtest.py:97`, `runner.py:110`, `md5_check.py:171`): they pass in the next call, or when the case is listed
  twice, if that run dumps nothing over them.
* A connector with `globalDisable` or without a golden is skipped with `True` (`md5_check.py:143-147`): its frame passes whether or not it
  was dumped, for instance frame 3 of `multiFrame.pqGammaOffOnSwitch`.
* `LoadsWhatWasMade` speaks of a generation that came to its end.  One that ends early, for an unknown cid or a
  missing golden file, has removed the cases before it looks (`dtest.py:76`, `maker.py:106`) and leaves the old list; the runner loads
  from either without a check.
* A missing case raises in the digest check and ends the run (`runner.py:86`, `md5_check.py:184`); `--clean`
  cleans after a case where `README.md:58` says before.

### Bounds

The frames of a run interact only with their neighbours: the dump thread releases i - 1 while it
serves i, the LTM thread corrects i + 2.  Four frames give a first, a last and two frames
between them, and three in VCMD mode give a frame that is skipped with one before and one
after.  `CmdBufs` = 2 makes `main` wait for the hardware.  `MaxPoll` and `MaxQuery` stand for 50 and
10: one retry and the time-out are both reachable with 1, and which of them happens is not a
question of the number.  Two streams and two rounds are the least that show state carried from one to the
next.  In `FrameBuffers` a plane gets its old buffer back in the third round at the earliest, so one
setup has three rounds (of two frames); `MaxFb` is a guard of
every creation (`FreeIds # {}`) and large enough that an id is always free: a run that lacked one would stop short of the end,
and TLC would report a deadlock.  In `CaseRunner` two cases,
two frames and two connectors are enough for every branch of
the check; one case has leftovers, a match and a mismatch, and one connector that is skipped or lacks a digest; `NumUnits` is at most 10 because ids are sorted as strings and a name with `frame1` is part
of one with `frame10`.

In `CaseMaker`, the cases of the repository are written once (`OnlyOnce`), killed after the first, in the middle
and before the last case (`DieAt`); the small releases have three cases, are killed anywhere, and are generated again and again.  Of a
directory or list of more than `MaxParts` = 3 names, what a killed process leaves is nothing; the small ones are left in every part.  `Filters` has one that passes all and one that passes some.

### Fairness

Weak fairness of each thread and of the hardware: the threads are ordinary POSIX threads, none
of them is ever disabled and enabled for ever by another (the mutex is held for a few
instructions and each critical section ends), and the hardware executes what is queued.
Spurious wake-ups are excluded from the liveness runs: fairness cannot exclude that a
thread wakes up and falls asleep for ever.  A wait on `cond` that takes "too long" is
possible at every wake-up (time is not modelled), so no property rests on the length of `TIME_OUT`.

## 4. A deadlock that no run is named after

With VCMD and the LTM thread, a failed `dpu_set_frame` cancels both threads.  A thread that is
cancelled inside `pthread_cond_wait` takes the mutex back before it dies, and nothing unlocks it
(there is no clean-up handler).  The other thread, in its own wait or about to lock, never gets
the mutex; `pthread_mutex_lock` is no cancellation point, so it never dies either, and `main` blocks in
`pthread_join`.  TLC finds it as a
deadlock of `frame_vcmd` if deadlock checking is on.  No document or comment of the repository states
that the run must end, so it is listed as a hazard and not as a finding.

## 5. Proofs

`FrameRunProofs` proves, for every number of frames, any bounds, both modes and any set of faults,
the theorems listed in `PROJECT.json`: `TypeCorrect`, `DumpsCommittedFrames`, `ReadsHeldFrames`,
`ReleasesOnce`, `ReleasesAll`, `DumpsFinishedFrames`, `UpdatesQueuedFrames`, `ImplementsOrder`, `WakesSleepers`, `HoldsMutexBriefly` and `JoinsRunningThread`.  They are about `FrameRun` alone;
the assumptions are those the module makes on its constants (`NumAssumption`, `BoundAssumption`,
`ModeAssumption`, `FaultAssumption`), which TLC evaluates on every run.  `DumpsFinishedFrames` is stated for `UseVcmd`: without
VCMD a write-back wait that timed out is indistinguishable from one that did not.

None of the properties is inductive.  The invariant is `IInv`, the conjunction of

* `TypeInv`: the types, and that the loop counters are in range where they are used as indices;
* `MainInv`: at which frame `main` can be at each of its places;
* `CommitInv`: `commit_done` holds exactly below `main`'s counter, and a thread past its wait is at
  a committed frame;
* `ReleaseInv`, `HeldInv`: which frames the dump thread has released and which are still held, in
  terms of its counter and of what it dumped;
* `ExecInv`: the hardware executes in order, so the count of executed frames bounds their numbers
  (this needs cardinalities: the frames queued before f are fewer than f + 1);
* `QueryInv`: what the dump thread knows when its query ended without a time-out.

Every step of the next-state relation has a lemma of its own, with one step for each conjunct that
it can disturb; `IInvCorrect` combines them.  The refinement needs only `IInv` and a case
analysis of the steps (`OrderStep`).  `IInv` was model-checked in both modes before it was proved.
`UpdatesQueuedFrames` adds `LtmInv` (what is about to be corrected is queued), which is kept because the queue only
grows (`QueueGrows`) and because a frame that is not queued bounds the number of those that are (`QueueCount`).

The locking has an invariant of its own, `SyncInv`: `MutexHolder`, `NoLostWakeup`, and `WaitInv`, which says that who is in the wait set is at the
wait, and that `main` cancels threads after a failure only, and then the dump thread first.  The three need each other: `main` publishes and a
thread tests and falls asleep under the mutex, so that no frame is committed between the test and the sleep.  `WakesSleepers` and
`JoinsRunningThread` are about the modes without the LTM thread, since `frame_ltm_live` refutes the one and section 4 the other with it;
`HoldsMutexBriefly` has it too, and says which deadlock is possible and that no other is: once a thread has died with the mutex, `main` does
not ask for it.

`StreamRunProofs` proves eleven theorems about `StreamRun`, for every number of rounds, streams and frames, any bounds, both
modes and, except where the theorem says otherwise, any set of faults:

| theorem | property | assumes |
|---|---|---|
| `TypeCorrect` | `TypeOK` | |
| `FreesAfterThreads` | `FreedUnderThread` | |
| `DumpsThisRound` | `DumpOfThisRound` | one round, or `NoSkip` |
| `ReadsHeldFrames` | `ReadAfterReleaseOnlyAtFailure` | one round, or `NoSkip` without command buffers |
| `SetsHeldFrames` | `SetWithBuffers` | one round |
| `ReleasesStreams` | `StreamReleased` | `NoSkip` |
| `PassesOfRound` | `PassIsOfThisRound` | no thread ends before its digest: no fault `"open"` or `"dump"` |
| `DumpsFinished` | `DumpAfterExecution` | no command buffers, no fault `"wait"` |
| `WakesThread` | `NoLostWakeup` | |
| `JoinsRunningThread` | `JoinReturns` | |
| `ImplementsOrder` | `ImplementsStreamOrder` | `NoSkip` |

`NoSkip` excludes the faults after which a thread misses a frame (`"open"`, `"dump"`, `"slow"`).  The assumptions are not
there to make the proofs easier: with a failed dump `stream_stale_pass` refutes `PassIsOfThisRound`, and with command buffers and two rounds
`stream_vcmd_rounds` shows a frame set with released buffers.  The invariant is the conjunction of `TypeInv` (types, and at which stream and frame `main`
and the thread are) and

* `RoundInv`, `SkipInv`, `TakenInv`: which frames are published in this round, that no `commit_done` is left over from an
  earlier one, and that a thread works on a frame of this one;
* `ResultInv`: the streams before `main`'s have a result of this round;
* `HeldInv`, `ReleasedInv`, `FreedInv`, `AheadInv`: which frames have buffers, which were released, and by whom;
* `ExecInv`: what is published has been waited for;
* `SyncInv`: who is asleep is at its wait, and who has the mutex (`WaitInv`), the frames below `main`'s that the thread has still to take are
  committed (`CommitsKept`, since the thread resets `commit_done` only behind itself), and `NoLostWakeup`.

Each part has a lemma with one step for each action; the parts were model-checked in both modes, with one and two rounds, before
they were proved.

`CaseRunnerProofs` proves six theorems about `CaseRunner`, for every non-empty plan (a case may occur
twice), any goldens, any files left in the output directory, any number of connectors, 1 to 10 frames, any set of options and with or without
commands that fail: `TypeCorrect`, `PassedCasesMatched`, `PassedOnOwnFiles`, `UnsupportIsOwn`, `ReinstallIsFresh` and `DriverRestored`.  The
invariant is the conjunction of `TypeOK` and

* `CheckInv`: the digest check is at a unit of the case, and if the result so far holds, the units
  it has passed are exactly those before (`PassMeansMatched` alone says nothing of a check under way);
* `FlagInv`: the flags `unsupport` and `no_wb` are down when a case starts, and up at its verdict only
  because of its output; with `--crc_check`, `no_wb` is never taken back but also never read;
* `DriverInv`: who loaded the driver, and that it stays loaded from the start to the end.

Each part is kept by a lemma of its own (`TypeStep`, `CheckStep`, `FlagStep`, `DriverStep`).
`PassedCasesMatched` assumes `StreamCases = {}`: for a stream case the property is false, which `case_streams` shows.

`PassedOnOwnFiles` adds `DumpInv`, kept by `DumpStep`.  What the check finds was dumped by the last `drmtest` or was there before it
(`Files`).  For every connector with a digest that the check is through with, either its own file was there, or it is of frame 0 and took the
file of a later frame (`Covered`); then that file is missing, because the check moves what it compares, and will be missed when
the later frame's turn comes, which fails the case, unless the later frame skips that connector (`FoundFile`: only frame 0 can take another's file, since of
the names `frame0`, ..., `frame9` and the bare one only the bare one is part of another).  `ConnectorCovers` has this step for
all four ways the check of a connector ends.  The theorem has no assumption; the property itself is about cases with frames.

`CaseMakerProofs` proves seven theorems about `CaseMaker`, for every set of releases and cids, whatever cases the
generators return (the last three: under an assumption about them), whatever golden files there are, and for every pattern of kills, upgrades and runs: `TypeCorrect`,
`LoadsMade`, `TornLast` and `NoneOverwritten`, and `StripesFill`, `ScalersFit` and `WritesInFull`.  They rest on `CasesAssumption` (a release has a sequence of cases for each chip)
and `ReleaseAssumption` (the word for "none" names no release and no cid).  The invariant is the conjunction of `TypeOK`, `LoadsWhatWasMade` and

* `WriteInv`: while cases are written, the directory holds exactly those written so far, whole, each under its name
  (`Prefix`), and the one being written, torn (`Opened`); nothing of that cid counts as complete;
* `DirInv`: every directory is of one release, and what is torn in it was written last (`Ordered`).

The lemmas `PutOpens` and `DumpFills` take a directory through one case, `PrefixOrdered`, `OpenedOrdered` and `RemovedOrdered` show
it in order; `TypeStep`, `WriteStep`, `DirStep` and `MadeStep` keep a conjunct each.  `NoneOverwritten` assumes that the names of the cases for a cid differ
(`DistinctNames`): the only way to lose a file is a name used twice.  That the 2163 names of the repository differ is what
`maker_dc9400` checks.

The other three are about what is in the case being written, which is always one that a release has (`CurrentMade`).  Each
assumes one statement of `CaseOrigins` about the cases of the releases, and proves the rest from the definitions of the generators:

| theorem | property | assumes | argument |
|---|---|---|---|
| `StripesFill` | `StripesTile` | `OnlyStriped`: the case is one of `stripe`, if it places a stripe | four columns, or two by two quarters, of any size fill the picture (`ColumnsFill`, `QuartersFill`) |
| `ScalersFit` | `ScalersAgree` | `OnlyScaled`: the case is of one of the six generators that scale, if it scales | `TenthsBounds`, and how each generator places what it scales |
| `WritesInFull` | `WrittenInFull` | `OnlyNested`: ids differ, cursors are on a CRTC of the frame, the CRTCs of planes and connectors are nested | `DTestUnit.crtcs` takes one of the two sets, and it is the union exactly if one is within the other (`CrtcsPicked`) |

`MCCaseMaker` assumes all three of the 2163 cases of the repository and of the small releases, so that TLC evaluates them in `maker_dc9400`: no
other generator places stripes or scales.  `TenthsBounds` is about the arithmetic of the scale: a generator rounds it to tenths and then takes 0.25 to 8, so that
what it lets through is never less than a quarter of the size, but may be 8.05 times the size.  For the display modes that the generators have the factor is at most 8
(`ModesScale`, each pair of them); a mode list with other sizes could break `ScalersAgree` where the generator believes itself within the limit.

Three modules prove seven theorems about `FrameBuffers`, for every number of frames, planes and pipes (no fewer planes
than pipes), any bound of the ids and every set of runs: mode, rounds, kinds of pipes, cursor, `RAMLESS_FB`, and which calls may fail.

| theorem | property | module | assumes |
|---|---|---|---|
| `TypeCorrect` | `TypeOK` | `FrameBuffersProofs` | |
| `AheadAfterFailure` | | `FrameReleaseProofs` | |
| `HoldsWhatExists` | `HeldBuffersExist` | `FrameReleaseProofs` | |
| `OwnsAlone` | `OneOwner` | `FrameReleaseProofs` | |
| `LosesNothing` | `NothingLost` | `FrameReleaseProofs` | `LeakFree` of each run |
| `CommitsPrepared` | `CommitsOwnFbs` | `FrameIdProofs` | `NumPlanes = NumPipes`; in VCMD mode one round |
| `RamlessStays` | `RamlessLives` | `FrameIdProofs` | `RamlessRuns` |

`HoldsWhatExists` and `OwnsAlone` are about every run, but only up to the state in which it is no longer `Orderly`, from which on the code
breaks both properties (section 3).  `AheadAfterFailure` says how far that reaches: before a dump has failed the dump thread never runs ahead, so every run without a failed
dump is orderly from its beginning to its end, whatever else fails.  Each assumption leaves out runs in which the code breaks the property:

* `LeakFree`: in VCMD mode a striped pipe gets a buffer for each frame, which nobody releases (`viv_dc_functions.c:1402`); and of two ramless
  framebuffers the device knows the last only.
* `NumPlanes = NumPipes`: with more planes than pipes `buffers_planes` refutes the property.  One round: `stream_vcmd_rounds` shows the
  released buffers in the second.
* `RamlessRuns`: the ramless pipe is in frame 0, and the frames that use its framebuffer follow without one that gives it up, as in the
  cases below `feature/ramless`.  A frame with `"off"` before one with `"on"` lets the dump thread remove the framebuffer after
  the later frame has read its id.

*Who holds a buffer.*  `TypeInv` has the types; at which frame, plane or pipe `main` is at each of its places (`MainIndex`), and a thread
that clears a frame (`ClearIndex`).  `Owners` says who owns a buffer while the run is orderly.  Between `SwapBos` and `SetPlane` the
local of `main` owns what `old_bo` had (`Owned`), and `old_bo` is a copy of `bo` (`Copied`).  With that reading no two fields own one buffer (`OnePlace`), every
owned buffer exists (`OwnedExist`), and the copy of a striped pipe's buffer that the device keeps is that of striped pipes only (`StripeInv`); each
needs the others, since destroying the buffer of one field keeps those of the others only if none of them is the same one.  A step makes a buffer, exchanges
two fields, or keeps or forgets what fields hold, and each action is brought to one of these.  That nobody destroys the copy is `AheadInv`: as long as the dump thread has not run ahead
it clears frames before the one `main` is setting, and `main` itself clears only when it sets no more.  A creation that fails keeps the copy in `old_bo`; with no
dump failed the plane is empty then (`FirstSet`), since its frame was released (`UnsetInv` below).  `BehindInv` is the invariant of `AheadAfterFailure`: without a failed dump
`commit_done` is set only for frames behind `main`.

*What a frame is committed with* (VCMD mode).  `OnceInv` says that in the only round what is dumped or cleared is behind `main`.  `VcmdInv` says that no two
fields (`Slots`) hold the same framebuffer id, that while buffers are made every id in a field is in use, and that what is prepared and not yet
released shows its buffer.  Removing the ids of one field then leaves all others alone, although `old_fb_id` is a copy of `fb_id` and is
removed a second time: an id is removed again before anything is created with it, because creation is over.

*The ramless framebuffer.*  `RamInv` follows `fb_inuse`, the id and the two steps of its release: between the test of `fb_inuse` and the removal `main` may
set it again, but only for a frame that does not follow a sequence of users; and no plane of a later frame holds the same id, whose second removal would take it.

*What is left* (`Good`: no call failed so far).  `GoodInv` places the dump thread relative to `main`.  `LostInv` is the conjunction of

* `ClearedInv`, `EmptyInv`, `UnsetInv`, `StripeEmptyInv`: what a clear has emptied so far; that released frames and those `main` has still to
  set hold nothing, and of the present one the fields still to be set;
* `BosHeldInv`, `FbsHeldInv`, `RamHeldInv`: every buffer and framebuffer that exists is in a field, which some day is emptied, or in
  one of the device.

At the end all frames are released, so nothing is left but what the device holds.  Only the last three parts need `LeakFree`.

The invariants were model-checked on instances with one and two planes and pipes, one and two rounds, and with every kind of pipe and of failure, before they
were proved.  That the kernel's choice of the lowest free id exists is `NewFbIsFree`, by the least element of a set of naturals (`Least`).

The runs of `buffers_owners` all satisfy the assumptions, so that the theorems state what it shows for every size and every such run.

Only model-checked: liveness (`Termination`, checked in APB mode for `FrameRun` and `StreamRun`, and `CommittedIsDumped`), for which TLAPS has
no rules; and `GoldenOfOwnCase` and `OnDisplay` of `CaseMaker`.  The one compares prefixes of 2163 names, which are strings to TLC and without characters to the provers; the
other is about the geometry that each of the 109 generators chooses by itself, so that a proof would be as long as the generators and say no more than
`maker_dc9400`.

Proved, and in no passing run: `DumpAfterCommit` and `DumpOfThisRound`, which the refinements imply for the instances of the runs; `SetWithBuffers` and
`PassIsOfThisRound`, which `stream_vcmd_rounds` and `stream_stale_pass` refute where the assumptions of the theorems do not hold; `JoinReturns` of
`FrameRun`, which `Termination` implies for `frame_apb`; and `NoLostWakeup` of `StreamRun`.  All six were model-checked before they were proved.

## 6. What is not modelled

* Frame mode: the software reset of frames with `random` (lines 896-901), the virtual display path,
  `dtest_get_hist_info` and its siblings (they read the driver and print), `-clear`, `-reset`, `-clean`.
* The early exits of `main` to `final` before a frame was set.
* Buffers: those that `-clear` makes at the end, those of the virtual display path, disabled planes and pipes,
  and the parts of a buffer when a format has several.
* Pixels, file formats, JSON, property blobs: data without shared state.
* Generators: values of properties that are no rectangles, resources and tile modes; `--dec-conform`, whose scripts
  (`script/dtest/dec_conform`) are not in the repository; the scripts of the chips other than dc9400, which are not either.
* cJSON, modetest.

## 7. State of the plan

Done: `FrameRun`, `DumpOrder`, `FrameRunProofs`; `StreamRun`, `StreamOrder`, `StreamRunProofs`; `FrameBuffers` with `FrameBuffersProofs`, `FrameIdProofs` and
`FrameReleaseProofs`; `CaseRunner`, `CaseRunnerProofs`; the generators, `CaseMaker`, `CaseOrigins`, `CaseMakerProofs`.  Every safety property of a passing run is
proved but for `GoldenOfOwnCase` and `OnDisplay`.

Worth doing next: `dpu_set_frame` as more than one step in `FrameRun` and `StreamRun` as well; the early exits of `main`; the order of reset and case (`-clean`).
