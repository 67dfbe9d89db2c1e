------------------------------ MODULE StreamRun ------------------------------
(***************************************************************************)
(* The stream-mode run of tools/drmtest.c: for every round and every       *)
(* stream main() creates one pressure_stream_dump_wb_buffer_thread, sets   *)
(* the frames of the stream, and joins the thread before the next stream.  *)
(* Main and the thread share the stream's frames, its mutex and condition  *)
(* variable.  The thread of one stream is over when the next is created,   *)
(* so one set of thread variables is enough: it is the thread of stream s. *)
(***************************************************************************)
EXTENDS Naturals

CONSTANTS
  NumStreams, NumFrames, Recycle,  \* streams, frames of each, rounds (-p)
  UseVcmd, HasLtm,                 \* as in FrameRun
  CmdBufs, MaxPoll, MaxQuery,
  Faults                           \* what may go wrong, a subset of FaultKinds

FaultKinds == {"open", "set", "wait", "slow", "dump", "spurious"}

ASSUME SizeAssumption == {NumStreams, NumFrames, Recycle, CmdBufs} \subseteq Nat \ {0}
ASSUME BoundAssumption == {MaxPoll, MaxQuery} \subseteq Nat
ASSUME ModeAssumption == UseVcmd \in BOOLEAN /\ HasLtm \in BOOLEAN /\ (HasLtm => UseVcmd)
ASSUME FaultAssumption == Faults \subseteq FaultKinds

Streams == 0 .. NumStreams - 1
Frames == 0 .. NumFrames - 1

VARIABLES
  mpc, round, s, f, status,  \* main: where it is, run_count, i, j, status
  tpc, k,                    \* the dump thread: where it is, its loop counter
  lpc, l,                    \* the LTM thread, likewise
  lock, asleep, cancelled,   \* stream_lock[s]; the thread is in stream_cond[s]; cancelled
  query_num,                 \* polls of main and of the thread
  commit_done, fb,           \* of each frame of each stream
  commits, seq, executed,    \* commits so far; the commit each frame got; commits finished
  published,                 \* history: the last round in which a frame was published
  result                     \* stream_result: does the digest compare, and its round

mainVars == <<mpc, round, s, f, status>>
threadVars == <<tpc, k, asleep>>
ltmVars == <<lpc, l>>
frameVars == <<commit_done, fb, published>>
driverVars == <<commits, seq, executed>>
vars == <<mainVars, threadVars, ltmVars, lock, cancelled, query_num, frameVars,
          driverVars, result>>

Zero == [x \in Streams |-> [g \in Frames |-> 0]]
Set(fn, x, g, v) == [fn EXCEPT ![x][g] = v]

\* dpu_clear_frame_FB
ClearFrameFB(x, g) == [fb EXCEPT ![x][g] = IF @ = "live" THEN "freed" ELSE @]
CmdbufRemaining == commits - executed < CmdBufs
MainTop == IF UseVcmd THEN "poll" ELSE "set"

Init ==
  /\ mpc = "create" /\ round = 1 /\ s = 0 /\ f = 0 /\ status = "SUCCESS"
  /\ tpc = "none" /\ k = 0
  /\ lpc = IF HasLtm /\ NumFrames > 1 THEN "test" ELSE "done"
  /\ l = 0
  /\ lock = "none" /\ asleep = FALSE /\ cancelled = FALSE
  /\ query_num = [main |-> 0, dump |-> 0]
  /\ commit_done = [x \in Streams |-> [g \in Frames |-> FALSE]]
  /\ fb = [x \in Streams |-> [g \in Frames |-> IF UseVcmd THEN "live" ELSE "none"]]
  /\ commits = 0 /\ seq = Zero /\ executed = 0
  /\ published = Zero
  /\ result = [x \in Streams |-> [match |-> FALSE, round |-> 0]]
-----------------------------------------------------------------------------
(* main(): the stream loop.                                                *)

MainCreate ==
  /\ mpc = "create"
  /\ mpc' = MainTop /\ f' = 0
  /\ tpc' = "open" /\ k' = 0 /\ asleep' = FALSE
  /\ UNCHANGED <<round, s, status, ltmVars, lock, cancelled, query_num, frameVars,
                 driverVars, result>>

\* As in frame mode: when no command buffer gets free, the frame is not set.
MainPoll ==
  /\ mpc = "poll"
  /\ IF CmdbufRemaining
     THEN mpc' = "set" /\ query_num' = [query_num EXCEPT !.main = 0]
     ELSE IF query_num.main <= MaxPoll
          THEN query_num' = [query_num EXCEPT !.main = @ + 1] /\ UNCHANGED mpc
          ELSE mpc' = "signal" /\ query_num' = [query_num EXCEPT !.main = 0]
  /\ UNCHANGED <<round, s, f, status, threadVars, ltmVars, lock, cancelled, frameVars,
                 driverVars, result>>

\* Mutant: the frame before is released as soon as the next one is set.
MainSetFrame_ReleasesEarly ==
  /\ mpc = "set"
  /\ fb' = [fb EXCEPT ![s] = [g \in Frames |-> IF g = f THEN "live"
                                               ELSE IF g = f - 1 THEN "freed" ELSE @[g]]]
  /\ commits' = commits + 1 /\ seq' = Set(seq, s, f, commits + 1)
  /\ mpc' = "signal"
  /\ UNCHANGED <<round, s, f, status, threadVars, ltmVars, lock, cancelled, query_num,
                 commit_done, published, executed, result>>

\* dpu_set_frame.  With vcmd it uses the buffers made before the threads
\* started and creates none; without, it creates the frame's buffers.
MainSetFrame ==
  /\ mpc = "set"
  /\ fb' = IF UseVcmd THEN fb ELSE Set(fb, s, f, "live")
  /\ commits' = commits + 1 /\ seq' = Set(seq, s, f, commits + 1)
  /\ mpc' = "signal"
  /\ UNCHANGED <<round, s, f, status, threadVars, ltmVars, lock, cancelled, query_num,
                 commit_done, published, executed, result>>

MainSetFrameFails ==
  /\ mpc = "set" /\ "set" \in Faults
  /\ \E b \in {fb[s][f]} \cup (IF UseVcmd THEN {} ELSE {"live"}) : fb' = Set(fb, s, f, b)
  /\ status' = "FAILURE"
  /\ mpc' = IF s > 0 /\ f > 0 THEN "undo" ELSE "exit"
  /\ UNCHANGED <<round, s, f, threadVars, ltmVars, lock, cancelled, query_num,
                 commit_done, published, driverVars, result>>

\* if (status != DTEST_SUCCESS && i > 0 && j > 0) dpu_clear_frame_FB(frames[j - 1])
MainUndo ==
  /\ mpc = "undo"
  /\ fb' = ClearFrameFB(s, f - 1)
  /\ mpc' = "exit"
  /\ UNCHANGED <<round, s, f, status, threadVars, ltmVars, lock, cancelled, query_num,
                 commit_done, published, driverVars, result>>

\* Mutant: the write-back is not waited for.
MainWaitSignal_NoWait ==
  /\ mpc = "signal"
  /\ mpc' = "lock"
  /\ UNCHANGED <<round, s, f, status, threadVars, ltmVars, lock, cancelled, query_num,
                 frameVars, driverVars, result>>

MainWaitSignal ==
  /\ mpc = "signal"
  /\ UseVcmd \/ seq[s][f] <= executed \/ "wait" \in Faults
  /\ mpc' = "lock"
  /\ UNCHANGED <<round, s, f, status, threadVars, ltmVars, lock, cancelled, query_num,
                 frameVars, driverVars, result>>

MainLock ==
  /\ mpc = "lock" /\ lock = "none"
  /\ lock' = "main" /\ mpc' = "publish"
  /\ UNCHANGED <<round, s, f, status, threadVars, ltmVars, cancelled, query_num,
                 frameVars, driverVars, result>>

\* Mutant: pthread_cond_signal is missing.
MainPublish_NoSignal ==
  /\ mpc = "publish"
  /\ commit_done' = Set(commit_done, s, f, TRUE)
  /\ published' = Set(published, s, f, round)
  /\ lock' = "none"
  /\ f' = f + 1 /\ mpc' = IF f + 1 = NumFrames THEN "join" ELSE MainTop
  /\ UNCHANGED <<round, s, status, threadVars, ltmVars, cancelled, query_num, fb,
                 driverVars, result>>

\* commit_done = true, signal stream_cond[i], unlock, next frame
MainPublish ==
  /\ mpc = "publish"
  /\ commit_done' = Set(commit_done, s, f, TRUE)
  /\ published' = Set(published, s, f, round)
  /\ asleep' = FALSE
  /\ lock' = "none"
  /\ f' = f + 1 /\ mpc' = IF f + 1 = NumFrames THEN "join" ELSE MainTop
  /\ UNCHANGED <<round, s, status, tpc, k, ltmVars, cancelled, query_num, fb,
                 driverVars, result>>

\* Mutant: the last thread is not joined.
MainJoin_NoJoin ==
  /\ mpc = "join" /\ (tpc = "done" \/ s + 1 = NumStreams)
  /\ IF s + 1 = NumStreams THEN mpc' = "check" /\ UNCHANGED <<s, tpc>>
                           ELSE mpc' = "create" /\ s' = s + 1 /\ tpc' = "none"
  /\ UNCHANGED <<round, f, status, k, asleep, ltmVars, lock, cancelled, query_num,
                 frameVars, driverVars, result>>

\* pthread_join(stream_threads[i]); next stream, or the check of the round
MainJoin ==
  /\ mpc = "join" /\ tpc = "done"
  /\ tpc' = "none"
  /\ s' = s + 1 /\ mpc' = IF s + 1 = NumStreams THEN "check" ELSE "create"
  /\ UNCHANGED <<round, f, status, k, asleep, ltmVars, lock, cancelled, query_num,
                 frameVars, driverVars, result>>

\* Mutant: <= instead of <, one round too many.
MainCheck_OffByOne ==
  /\ mpc = "check"
  /\ IF round <= Recycle
     THEN round' = round + 1 /\ s' = 0 /\ mpc' = "create"
     ELSE mpc' = "exit" /\ UNCHANGED <<round, s>>
  /\ UNCHANGED <<f, status, threadVars, ltmVars, lock, cancelled, query_num,
                 frameVars, driverVars, result>>

\* Compare stream_result with stream_golden for every stream and report (the
\* report changes nothing but global_result, which only selects a log line)
MainCheck ==
  /\ mpc = "check"
  /\ IF round < Recycle
     THEN round' = round + 1 /\ s' = 0 /\ mpc' = "create"
     ELSE mpc' = "exit" /\ UNCHANGED <<round, s>>
  /\ UNCHANGED <<f, status, threadVars, ltmVars, lock, cancelled, query_num,
                 frameVars, driverVars, result>>

\* exit: cancel the thread of stream i on a failure; nobody joins it
MainExit ==
  /\ mpc = "exit"
  /\ cancelled' = (status = "FAILURE")
  /\ mpc' = "final"
  /\ UNCHANGED <<round, s, f, status, threadVars, ltmVars, lock, query_num, frameVars,
                 driverVars, result>>

\* final: i and j count one more on a failure, then streams[i - 1].frames[j - 1]
\* is released
LastFrame == IF status = "FAILURE" THEN <<s, f>> ELSE <<s - 1, f - 1>>

MainFinal ==
  /\ mpc = "final"
  /\ fb' = ClearFrameFB(LastFrame[1], LastFrame[2])
  /\ mpc' = "free"
  /\ UNCHANGED <<round, s, f, status, threadVars, ltmVars, lock, cancelled, query_num,
                 commit_done, published, driverVars, result>>

\* dpu_free_frames of every stream, free(streams), dpu_free_device; the threads
\* that are left end with the process
MainFree ==
  /\ mpc = "free"
  /\ mpc' = "end"
  /\ UNCHANGED <<round, s, f, status, threadVars, ltmVars, lock, cancelled, query_num,
                 frameVars, driverVars, result>>
-----------------------------------------------------------------------------
(* pressure_stream_dump_wb_buffer_thread of stream s.                      *)

LoopTop(g) == IF g < NumFrames THEN "lock" ELSE "last"
AfterWait == IF UseVcmd THEN "query" ELSE "dump"

\* One file for each pipe; if one cannot be opened the thread goes to exit.
DumpOpen ==
  /\ tpc = "open"
  /\ tpc' = "lock" \/ ("open" \in Faults /\ tpc' = "done")
  /\ UNCHANGED <<mainVars, k, asleep, ltmVars, lock, cancelled, query_num, frameVars,
                 driverVars, result>>

\* Take the mutex, at the top of an iteration or on return from the wait
DumpLock ==
  /\ tpc = "lock" \/ (tpc = "wait" /\ ~asleep)
  /\ lock = "none"
  /\ lock' = "dump" /\ tpc' = "test"
  /\ UNCHANGED <<mainVars, k, asleep, ltmVars, cancelled, query_num, frameVars,
                 driverVars, result>>

DumpTest ==
  /\ tpc = "test"
  /\ IF commit_done[s][k] THEN tpc' = AfterWait /\ UNCHANGED asleep
                          ELSE tpc' = "wait" /\ asleep' = TRUE
  /\ lock' = "none"
  /\ UNCHANGED <<mainVars, k, ltmVars, cancelled, query_num, frameVars, driverVars,
                 result>>

\* Mutant: continue without pthread_mutex_unlock.
DumpTimeOut_KeepsMutex ==
  /\ tpc = "wait" /\ ~asleep /\ lock = "none" /\ "slow" \in Faults
  /\ lock' = "dump"
  /\ k' = k + 1 /\ tpc' = LoopTop(k + 1)
  /\ UNCHANGED <<mainVars, asleep, ltmVars, cancelled, query_num, frameVars,
                 driverVars, result>>

\* The wait took longer than TIME_OUT: continue with the next frame
DumpTimeOut ==
  /\ tpc = "wait" /\ ~asleep /\ lock = "none" /\ "slow" \in Faults
  /\ k' = k + 1 /\ tpc' = LoopTop(k + 1)
  /\ UNCHANGED <<mainVars, asleep, ltmVars, lock, cancelled, query_num, frameVars,
                 driverVars, result>>

SpuriousWake ==
  /\ asleep /\ "spurious" \in Faults
  /\ asleep' = FALSE
  /\ UNCHANGED <<mainVars, tpc, k, ltmVars, lock, cancelled, query_num, frameVars,
                 driverVars, result>>

\* frm_exe_count of the one context all streams and rounds share, against the
\* frame number within the stream
DumpQuery ==
  /\ tpc = "query"
  /\ IF executed >= k + 1 \/ query_num.dump > MaxQuery
     THEN tpc' = "dump" /\ UNCHANGED query_num
     ELSE query_num' = [query_num EXCEPT !.dump = @ + 1] /\ UNCHANGED tpc
  /\ UNCHANGED <<mainVars, k, asleep, ltmVars, lock, cancelled, frameVars, driverVars,
                 result>>

\* The frame is dumped: release the frame before, reset commit_done (without
\* the mutex), next frame
DumpFrame ==
  /\ tpc = "dump"
  /\ tpc' = IF k > 0 THEN "clear" ELSE "reset"
  /\ query_num' = [query_num EXCEPT !.dump = 0]
  /\ UNCHANGED <<mainVars, k, asleep, ltmVars, lock, cancelled, frameVars, driverVars,
                 result>>

DumpFails ==
  /\ tpc = "dump" /\ "dump" \in Faults
  /\ tpc' = "done"
  /\ UNCHANGED <<mainVars, k, asleep, ltmVars, lock, cancelled, query_num, frameVars,
                 driverVars, result>>

DumpClear ==
  /\ tpc = "clear"
  /\ fb' = ClearFrameFB(s, k - 1)
  /\ tpc' = "reset"
  /\ UNCHANGED <<mainVars, k, asleep, ltmVars, lock, cancelled, query_num, commit_done,
                 published, driverVars, result>>

\* Mutant: commit_done stays set.
DumpReset_KeepsFlag ==
  /\ tpc = "reset"
  /\ k' = k + 1 /\ tpc' = LoopTop(k + 1)
  /\ UNCHANGED <<mainVars, asleep, ltmVars, lock, cancelled, query_num, frameVars,
                 driverVars, result>>

DumpReset ==
  /\ tpc = "reset"
  /\ commit_done' = Set(commit_done, s, k, FALSE)
  /\ k' = k + 1 /\ tpc' = LoopTop(k + 1)
  /\ UNCHANGED <<mainVars, asleep, ltmVars, lock, cancelled, query_num, fb, published,
                 driverVars, result>>

\* Mutant: the last frame is not released.
DumpLast_NoClear ==
  /\ tpc = "last"
  /\ \E m \in BOOLEAN : result' = [result EXCEPT ![s] = [match |-> m, round |-> round]]
  /\ tpc' = "done"
  /\ UNCHANGED <<mainVars, k, asleep, ltmVars, lock, cancelled, query_num, frameVars,
                 driverVars>>

\* After the loop: release the last frame and compute the digest of the dump
DumpLast ==
  /\ tpc = "last"
  /\ fb' = ClearFrameFB(s, k - 1)
  /\ \E m \in BOOLEAN : result' = [result EXCEPT ![s] = [match |-> m, round |-> round]]
  /\ tpc' = "done"
  /\ UNCHANGED <<mainVars, k, asleep, ltmVars, lock, cancelled, query_num, commit_done,
                 published, driverVars>>

\* As in frame mode, a cancelled thread dies at a cancellation point, in the
\* wait with the mutex in its hands.
Die ==
  /\ cancelled
  /\ \/ tpc = "wait" /\ lock = "none" /\ lock' = "dump"
     \/ tpc \in {"open", "query", "dump", "last"} /\ UNCHANGED lock
  /\ tpc' = "done" /\ asleep' = FALSE
  /\ UNCHANGED <<mainVars, k, ltmVars, cancelled, query_num, frameVars, driverVars,
                 result>>
-----------------------------------------------------------------------------
(* update_ltm_thread, for stream 0: it waits on cond, which nothing in     *)
(* stream mode signals.                                                    *)

LtmTest ==
  /\ lpc = "test"
  /\ lpc' = IF commit_done[0][l] THEN "update" ELSE "asleep"
  /\ UNCHANGED <<mainVars, threadVars, l, lock, cancelled, query_num, frameVars,
                 driverVars, result>>

LtmSpuriousWake ==
  /\ lpc = "asleep" /\ "spurious" \in Faults
  /\ lpc' = "test"
  /\ UNCHANGED <<mainVars, threadVars, l, lock, cancelled, query_num, frameVars,
                 driverVars, result>>

\* update_ltm_slope_bias for frame l, which waits until l + 1 frames are done
LtmUpdate ==
  /\ lpc = "update" /\ executed >= l + 1
  /\ l' = l + 1 /\ lpc' = IF l + 1 < NumFrames - 1 THEN "test" ELSE "done"
  /\ UNCHANGED <<mainVars, threadVars, lock, cancelled, query_num, frameVars,
                 driverVars, result>>

\* The driver and the hardware (outside src/)
HwExecute ==
  /\ executed < commits
  /\ executed' = executed + 1
  /\ UNCHANGED <<mainVars, threadVars, ltmVars, lock, cancelled, query_num, frameVars,
                 commits, seq, result>>

Main == \/ MainCreate \/ MainPoll \/ MainSetFrame \/ MainSetFrameFails \/ MainUndo
        \/ MainWaitSignal \/ MainLock \/ MainPublish \/ MainJoin \/ MainCheck
        \/ MainExit \/ MainFinal \/ MainFree
Dump == \/ DumpOpen \/ DumpLock \/ DumpTest \/ DumpTimeOut \/ DumpQuery \/ DumpFrame
        \/ DumpFails \/ DumpClear \/ DumpReset \/ DumpLast \/ Die
Ltm == LtmTest \/ LtmUpdate
Finished == mpc = "end"

\* The process is gone with main's return: nothing runs after that.
Next == \/ ~Finished /\ (Main \/ Dump \/ Ltm \/ SpuriousWake \/ LtmSpuriousWake \/ HwExecute)
        \/ Finished /\ UNCHANGED vars

Spec == Init /\ [][Next]_vars
FairSpec == /\ Spec
            /\ WF_vars(Main) /\ WF_vars(~Finished /\ Dump) /\ WF_vars(~Finished /\ Ltm)
            /\ WF_vars(~Finished /\ HwExecute)
-----------------------------------------------------------------------------
(* Properties.                                                             *)

TypeOK ==
  /\ mpc \in {"create", "poll", "set", "undo", "signal", "lock", "publish", "join",
              "check", "exit", "final", "free", "end"}
  /\ round \in 1 .. Recycle /\ s \in 0 .. NumStreams /\ f \in 0 .. NumFrames
  /\ status \in {"SUCCESS", "FAILURE"}
  /\ tpc \in {"none", "open", "lock", "test", "wait", "query", "dump", "clear", "reset",
              "last", "done"}
  /\ k \in 0 .. NumFrames
  /\ lpc \in {"test", "asleep", "update", "done"} /\ l \in 0 .. NumFrames
  /\ lock \in {"none", "main", "dump"} /\ asleep \in BOOLEAN /\ cancelled \in BOOLEAN
  /\ query_num \in [main : 0 .. MaxPoll + 1, dump : 0 .. MaxQuery + 1]
  /\ commit_done \in [Streams -> [Frames -> BOOLEAN]]
  /\ fb \in [Streams -> [Frames -> {"none", "live", "freed"}]]
  /\ commits \in Nat /\ executed \in 0 .. commits
  /\ seq \in [Streams -> [Frames -> 0 .. commits]]
  /\ published \in [Streams -> [Frames -> 0 .. Recycle]]
  /\ result \in [Streams -> [match : BOOLEAN, round : 0 .. Recycle]]

\* The thread dumps a frame only after main published it in the same round.
DumpOfThisRound ==
  tpc \in {"query", "dump"} => published[s][k] = round

\* The thread reads the buffers of a released frame only after main, on a
\* failure, cleared the frame that could not be set or the one before it.
ReadAfterReleaseOnlyAtFailure ==
  tpc = "dump" /\ fb[s][k] = "freed" => status = "FAILURE" /\ k \in {f - 1, f}

\* "vcmd need create buffer befor set_frame": the buffers a frame is set with
\* exist, as long as its thread has not given up all frames of the stream.
SetWithBuffers == mpc = "set" /\ UseVcmd /\ k < NumFrames => fb[s][f] = "live"

\* "query the exe frame count": the frame dumped is executed, unless the query
\* timed out.
DumpAfterExecution ==
  tpc = "dump" /\ published[s][k] = round /\ query_num.dump <= MaxQuery
    => seq[s][k] <= executed

\* The frames are freed under a running dump thread only when main gave up.
FreedUnderThread ==
  mpc = "end" /\ tpc \notin {"none", "done"} => status = "FAILURE"

\* "%d round stream_%d wb%d check md5 pass": what passed was dumped in that round.
PassIsOfThisRound ==
  mpc = "check" => \A x \in Streams : result[x].match => result[x].round = round

\* Once a stream's thread is joined, every frame it took in this round has been
\* released, the last one too: by the thread or, on the way out, by main.
StreamReleased ==
  mpc \in {"create", "check"} =>
    \A x \in Streams : \A g \in Frames :
      x < s /\ published[x][g] = round /\ ~commit_done[x][g] => fb[x][g] = "freed"

\* The thread never sleeps on a frame that is committed already, although it resets
\* commit_done without the mutex.
NoLostWakeup == asleep => ~commit_done[s][k]

\* When main waits for a thread, that thread can go on: it has missed no frame it
\* still asks for, and nobody keeps the mutex from it.
JoinReturns == mpc = "join" => ~asleep /\ (tpc \in {"lock", "wait"} => lock = "none")

\* The run ends, whatever fails.
Termination == <>Finished
\* "vcmd need update ltm slope and bias real-time": the LTM thread serves its frames.
LtmServesFrames == <>(status = "FAILURE" \/ lpc = "done")

\* Unless a thread misses frames, the run implements the order of StreamOrder.
Order == INSTANCE StreamOrder WITH
           stream <- s, published <- f,
           next <- IF tpc \in {"clear", "reset"} THEN k + 1 ELSE k,
           consumer <- CASE tpc = "none" -> "none" [] tpc = "done" -> "over" [] OTHER -> "busy",
           digest <- [x \in Streams |-> result[x].round]
ImplementsStreamOrder == Order!Spec
=============================================================================
