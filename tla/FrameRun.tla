------------------------------ MODULE FrameRun ------------------------------
(***************************************************************************)
(* The frame-mode run of tools/drmtest.c: main() sets one frame after the  *)
(* other, dump_wb_buffer_thread dumps each frame once it is committed and  *)
(* releases the buffers of the frame before it, and, on a board in VCMD    *)
(* mode, update_ltm_thread corrects the LTM of the frame two ahead.  The   *)
(* three threads share the frames, one mutex (lock) and one condition      *)
(* variable (cond).  On a failure main() cancels the other two.            *)
(***************************************************************************)
EXTENDS Naturals, FiniteSets

CONSTANTS
  Num,       \* dtest_frames.num
  UseVcmd,   \* dev.use_vcmd: the driver was loaded with VCMD=1
  HasLtm,    \* the LTM thread exists (vcmd, not qemu) and frame 0 has an LTM property
  CmdBufs,   \* command buffers the driver can hold before it executes one
  MaxPoll,   \* bound of main's command-buffer poll (50 in the code)
  MaxQuery,  \* bound of the dump thread's execution query (10 in the code)
  Faults     \* what may go wrong in this instance, a subset of FaultKinds

\* "open": fopen of the stream file fails; "set": dpu_set_frame fails; "wait":
\* dpu_wait_signal times out (ignored by the code); "slow": a wait on cond
\* took longer than TIME_OUT; "dump": dpu_dump_output_fbs fails; "map":
\* bo_map of an LTM histogram fails; "spurious": cond wakes up unsignalled.
FaultKinds == {"open", "set", "wait", "slow", "dump", "map", "spurious"}

ASSUME NumAssumption == Num \in Nat \ {0}
ASSUME BoundAssumption == CmdBufs \in Nat \ {0} /\ MaxPoll \in Nat /\ MaxQuery \in Nat
ASSUME ModeAssumption == UseVcmd \in BOOLEAN /\ HasLtm \in BOOLEAN /\ (HasLtm => UseVcmd)
ASSUME FaultAssumption == Faults \subseteq FaultKinds

Frames == 0 .. Num - 1
Waiters == {"dump", "ltm"}
Threads == Waiters \cup {"main"}

VARIABLES
  pc,           \* where each thread is
  i,            \* the loop counter of each thread
  status,       \* main's status: the result of the last dpu_set_frame
  commit_done,  \* frame->commit_done
  lock,         \* owner of the mutex, or "none"
  waiting,      \* the threads asleep in pthread_cond_wait(&cond, &lock)
  cancelled,    \* the threads main has called pthread_cancel on
  query_num,    \* polls made by main and by the dump thread
  fb,           \* the buffers and framebuffers of each frame
  chained,      \* frames the driver accepted (frm_rdy_count of them)
  executed,     \* frames the hardware has finished (frm_exe_count of them)
  dumped,       \* history: frames whose dump succeeded
  updated       \* history: frames whose LTM the LTM thread has corrected

vars == <<pc, i, status, commit_done, lock, waiting, cancelled, query_num, fb,
          chained, executed, dumped, updated>>

Goto(t, l) == pc' = [pc EXCEPT ![t] = l]
\* frm_exe_count, frm_rdy_count and the free command buffers, as the driver reports them
frm_exe_count == Cardinality(executed)
frm_rdy_count == Cardinality(chained)
CmdbufRemaining == frm_rdy_count - frm_exe_count < CmdBufs

\* dpu_clear_frame_FB: releases what the frame holds and forgets it
ClearFrameFB(f) == [fb EXCEPT ![f] = IF @ = "live" THEN "freed" ELSE @]

\* Where main goes to set frame f, and after the last one
MainTop(f) == CASE f = Num -> "exit" [] f # Num /\ UseVcmd -> "poll" [] OTHER -> "set"

\* main() when the threads have been created.  With vcmd every frame's
\* buffers were created by dpu_create_wb_plane_buffer before that.
Init ==
  /\ pc = [t \in Threads |-> CASE t = "main" -> MainTop(0)
                                [] t = "dump" -> "open"
                                [] t = "ltm"  -> IF HasLtm THEN "find" ELSE "done"]
  /\ i = [t \in Threads |-> 0]
  /\ status = "SUCCESS"
  /\ commit_done = [f \in Frames |-> FALSE]
  /\ lock = "none"
  /\ waiting = {} /\ cancelled = {}
  /\ query_num = [t \in {"main", "dump"} |-> 0]
  /\ fb = [f \in Frames |-> IF UseVcmd THEN "live" ELSE "none"]
  /\ chained = {} /\ executed = {} /\ dumped = {} /\ updated = {}
-----------------------------------------------------------------------------
(* main(): one frame.                                                      *)

\* Poll VS_FEATURE_CAP_VCMD_CMDBUF_REMAINING until a command buffer is free.
\* When the poll times out the frame is not set, and status stays as it was.
MainPoll ==
  /\ pc["main"] = "poll"
  /\ IF CmdbufRemaining
     THEN Goto("main", "set") /\ query_num' = [query_num EXCEPT !["main"] = 0]
     ELSE IF query_num["main"] <= MaxPoll
          THEN query_num' = [query_num EXCEPT !["main"] = @ + 1] /\ UNCHANGED pc
          ELSE Goto("main", "signal") /\ query_num' = [query_num EXCEPT !["main"] = 0]
  /\ UNCHANGED <<i, status, commit_done, lock, waiting, cancelled, fb, chained,
                 executed, dumped, updated>>

\* Mutant: the frame before is released as soon as the next one is set.
MainSetFrame_ReleasesEarly ==
  /\ pc["main"] = "set"
  /\ fb' = [f \in Frames |-> IF f = i["main"] THEN "live"
                             ELSE IF f = i["main"] - 1 THEN "freed" ELSE fb[f]]
  /\ chained' = chained \cup {i["main"]}
  /\ Goto("main", "signal")
  /\ UNCHANGED <<i, status, commit_done, lock, waiting, cancelled, query_num,
                 executed, dumped, updated>>

\* dpu_set_frame succeeds: the frame's buffers exist and the commit is queued.
MainSetFrame ==
  /\ pc["main"] = "set"
  /\ fb' = [fb EXCEPT ![i["main"]] = "live"]
  /\ chained' = chained \cup {i["main"]}
  /\ Goto("main", "signal")
  /\ UNCHANGED <<i, status, commit_done, lock, waiting, cancelled, query_num,
                 executed, dumped, updated>>

\* dpu_set_frame fails, with or without having created the frame's buffers.
MainSetFrameFails ==
  /\ pc["main"] = "set" /\ "set" \in Faults
  /\ \E b \in {fb[i["main"]], "live"} : fb' = [fb EXCEPT ![i["main"]] = b]
  /\ status' = "FAILURE"
  /\ Goto("main", IF i["main"] > 0 THEN "undo" ELSE "exit")
  /\ UNCHANGED <<i, commit_done, lock, waiting, cancelled, query_num, chained,
                 executed, dumped, updated>>

\* if (status != DTEST_SUCCESS && i > 0) dpu_clear_frame_FB(&frames[i - 1]),
\* while the dump thread is still running
MainUndo ==
  /\ pc["main"] = "undo"
  /\ fb' = ClearFrameFB(i["main"] - 1)
  /\ Goto("main", "exit")
  /\ UNCHANGED <<i, status, commit_done, lock, waiting, cancelled, query_num,
                 chained, executed, dumped, updated>>

\* Without vcmd, dpu_wait_signal blocks until the write-back of the frame is
\* done; it reports a timeout as success.
MainWaitSignal ==
  /\ pc["main"] = "signal"
  /\ UseVcmd \/ i["main"] \in executed \/ "wait" \in Faults
  /\ Goto("main", "lock")
  /\ UNCHANGED <<i, status, commit_done, lock, waiting, cancelled, query_num, fb,
                 chained, executed, dumped, updated>>

MainLock ==
  /\ pc["main"] = "lock" /\ lock = "none"
  /\ lock' = "main"
  /\ Goto("main", "publish")
  /\ UNCHANGED <<i, status, commit_done, waiting, cancelled, query_num, fb, chained,
                 executed, dumped, updated>>

\* Mutant: the body of the loop counts the frame as well.
MainPublish_CountsTwice ==
  /\ pc["main"] = "publish"
  /\ commit_done' = [commit_done EXCEPT ![i["main"]] = TRUE]
  /\ waiting' = {}
  /\ lock' = "none"
  /\ i' = [i EXCEPT !["main"] = @ + 2]
  /\ Goto("main", MainTop(i["main"] + 2))
  /\ UNCHANGED <<status, cancelled, query_num, fb, chained, executed, dumped, updated>>

\* Mutant: pthread_cond_signal is missing.
MainPublish_NoSignal ==
  /\ pc["main"] = "publish"
  /\ commit_done' = [commit_done EXCEPT ![i["main"]] = TRUE]
  /\ lock' = "none"
  /\ i' = [i EXCEPT !["main"] = @ + 1]
  /\ Goto("main", MainTop(i["main"] + 1))
  /\ UNCHANGED <<status, waiting, cancelled, query_num, fb, chained, executed, dumped,
                 updated>>

\* frame->commit_done = true; pthread_cond_signal(&cond): wakes one waiter, if
\* there is one; pthread_mutex_unlock(&lock); i++
MainPublish ==
  /\ pc["main"] = "publish"
  /\ commit_done' = [commit_done EXCEPT ![i["main"]] = TRUE]
  /\ IF waiting = {} THEN UNCHANGED waiting
                     ELSE \E t \in waiting : waiting' = waiting \ {t}
  /\ lock' = "none"
  /\ i' = [i EXCEPT !["main"] = @ + 1]
  /\ Goto("main", MainTop(i["main"] + 1))
  /\ UNCHANGED <<status, cancelled, query_num, fb, chained, executed, dumped, updated>>
-----------------------------------------------------------------------------
(* main(): the exit and final labels.                                      *)

\* Mutants: the thread is not cancelled on a failure; it is cancelled always.
MainCancelDump_Never ==
  /\ pc["main"] = "exit"
  /\ Goto("main", IF status = "FAILURE" THEN "cancel_ltm" ELSE "join_dump")
  /\ UNCHANGED <<i, status, commit_done, lock, waiting, cancelled, query_num, fb,
                 chained, executed, dumped, updated>>

MainCancelDump_Always ==
  /\ pc["main"] = "exit"
  /\ cancelled' = cancelled \cup {"dump"} /\ Goto("main", "cancel_ltm")
  /\ UNCHANGED <<i, status, commit_done, lock, waiting, query_num, fb, chained,
                 executed, dumped, updated>>

\* exit: pthread_cancel(thread) if the last frame could not be set
MainCancelDump ==
  /\ pc["main"] = "exit"
  /\ IF status = "FAILURE"
     THEN cancelled' = cancelled \cup {"dump"} /\ Goto("main", "cancel_ltm")
     ELSE UNCHANGED cancelled /\ Goto("main", "join_dump")
  /\ UNCHANGED <<i, status, commit_done, lock, waiting, query_num, fb, chained,
                 executed, dumped, updated>>

\* pthread_cancel(thread_update_ltm), when there is such a thread
MainCancelLtm ==
  /\ pc["main"] = "cancel_ltm"
  /\ cancelled' = IF HasLtm THEN cancelled \cup {"ltm"} ELSE cancelled
  /\ Goto("main", "join_dump")
  /\ UNCHANGED <<i, status, commit_done, lock, waiting, query_num, fb, chained,
                 executed, dumped, updated>>

MainJoinDump ==
  /\ pc["main"] = "join_dump" /\ pc["dump"] = "done"
  /\ Goto("main", "join_ltm")
  /\ UNCHANGED <<i, status, commit_done, lock, waiting, cancelled, query_num, fb,
                 chained, executed, dumped, updated>>

MainJoinLtm ==
  /\ pc["main"] = "join_ltm" /\ pc["ltm"] = "done"
  /\ Goto("main", "final")
  /\ UNCHANGED <<i, status, commit_done, lock, waiting, cancelled, query_num, fb,
                 chained, executed, dumped, updated>>

\* i += (status != DTEST_SUCCESS) ? 1 : 0; dpu_clear_frame_FB(&frames[i - 1])
FinalFrame == IF status = "FAILURE" THEN i["main"] ELSE i["main"] - 1

MainFinal ==
  /\ pc["main"] = "final"
  /\ fb' = ClearFrameFB(FinalFrame)
  /\ Goto("main", "end")
  /\ UNCHANGED <<i, status, commit_done, lock, waiting, cancelled, query_num,
                 chained, executed, dumped, updated>>
-----------------------------------------------------------------------------
(* The wait for commit_done, the same loop in both threads.                *)

\* What a thread does once its frame is committed, and how many frames it serves
AfterWait(t) == CASE t = "ltm" -> "update" [] t = "dump" /\ UseVcmd -> "query" [] OTHER -> "dump"
Served(t) == IF t = "ltm" THEN Num - 1 ELSE Num
LoopTop(t, f) == IF f < Served(t) THEN "lock" ELSE "done"
\* The end of an iteration of t's loop over the frames
NextFrame(t) == i' = [i EXCEPT ![t] = @ + 1] /\ Goto(t, LoopTop(t, i[t] + 1))

WaitLock(t) ==
  /\ pc[t] = "lock" /\ lock = "none"
  /\ lock' = t
  /\ Goto(t, "test")
  /\ UNCHANGED <<i, status, commit_done, waiting, cancelled, query_num, fb, chained,
                 executed, dumped, updated>>

\* while (!frame->commit_done) pthread_cond_wait(&cond, &lock): leave with the
\* mutex unlocked, or fall asleep and release it
WaitTest(t) ==
  /\ pc[t] = "test"
  /\ IF commit_done[i[t]]
     THEN Goto(t, AfterWait(t)) /\ UNCHANGED waiting
     ELSE Goto(t, "wait") /\ waiting' = waiting \cup {t}
  /\ lock' = "none"
  /\ UNCHANGED <<i, status, commit_done, cancelled, query_num, fb, chained, executed,
                 dumped, updated>>

\* pthread_cond_wait returns with the mutex held
WaitReturn(t) ==
  /\ pc[t] = "wait" /\ t \notin waiting /\ lock = "none"
  /\ lock' = t
  /\ Goto(t, "test")
  /\ UNCHANGED <<i, status, commit_done, waiting, cancelled, query_num, fb, chained,
                 executed, dumped, updated>>

\* Mutant: continue_flag is not looked at.
WaitTimeOut_GoesOn(t) ==
  /\ pc[t] = "wait" /\ t \notin waiting /\ lock = "none" /\ "slow" \in Faults
  /\ Goto(t, AfterWait(t))
  /\ UNCHANGED <<i, status, commit_done, lock, waiting, cancelled, query_num, fb,
                 chained, executed, dumped, updated>>

\* Mutant: continue without pthread_mutex_unlock.
WaitTimeOut_KeepsMutex(t) ==
  /\ pc[t] = "wait" /\ t \notin waiting /\ lock = "none" /\ "slow" \in Faults
  /\ lock' = t
  /\ NextFrame(t)
  /\ UNCHANGED <<status, commit_done, waiting, cancelled, query_num, fb, chained,
                 executed, dumped, updated>>

\* ... more than TIME_OUT seconds after the wait began: the frame is given up,
\* whether it is committed by now or not
WaitTimeOut(t) ==
  /\ pc[t] = "wait" /\ t \notin waiting /\ lock = "none" /\ "slow" \in Faults
  /\ NextFrame(t)
  /\ UNCHANGED <<status, commit_done, lock, waiting, cancelled, query_num, fb,
                 chained, executed, dumped, updated>>

SpuriousWake(t) ==
  /\ t \in waiting /\ "spurious" \in Faults
  /\ waiting' = waiting \ {t}
  /\ UNCHANGED <<pc, i, status, commit_done, lock, cancelled, query_num, fb, chained,
                 executed, dumped, updated>>

\* A cancelled thread dies at a cancellation point.  pthread_cond_wait takes
\* the mutex again before it lets the thread die, and no clean-up handler of
\* the thread gives it back; the other points (sleep, file and terminal
\* output) are outside the mutex.
Die(t) ==
  /\ t \in cancelled
  /\ \/ pc[t] = "wait" /\ lock = "none" /\ lock' = t /\ waiting' = waiting \ {t}
     \/ pc[t] \in {"open", "query", "dump", "apply"} /\ UNCHANGED <<lock, waiting>>
  /\ Goto(t, "done")
  /\ UNCHANGED <<i, status, commit_done, cancelled, query_num, fb, chained, executed,
                 dumped, updated>>
-----------------------------------------------------------------------------
(* dump_wb_buffer_thread                                                   *)

\* With run_stream the thread opens one file for all frames; if that fails it
\* goes to exit without dumping anything.
DumpOpen ==
  /\ pc["dump"] = "open"
  /\ \/ Goto("dump", "lock")
     \/ "open" \in Faults /\ Goto("dump", "done")
  /\ UNCHANGED <<i, status, commit_done, lock, waiting, cancelled, query_num, fb,
                 chained, executed, dumped, updated>>

\* Mutant: one frame too few is waited for.
DumpQuery_OffByOne ==
  /\ pc["dump"] = "query"
  /\ IF frm_exe_count >= i["dump"] \/ query_num["dump"] > MaxQuery
     THEN Goto("dump", "dump") /\ UNCHANGED query_num
     ELSE query_num' = [query_num EXCEPT !["dump"] = @ + 1] /\ UNCHANGED pc
  /\ UNCHANGED <<i, status, commit_done, lock, waiting, cancelled, fb, chained,
                 executed, dumped, updated>>

\* vcmd: poll frm_exe_count until frame i has been executed, or give up and
\* dump it all the same
DumpQuery ==
  /\ pc["dump"] = "query"
  /\ IF frm_exe_count >= i["dump"] + 1 \/ query_num["dump"] > MaxQuery
     THEN Goto("dump", "dump") /\ UNCHANGED query_num
     ELSE query_num' = [query_num EXCEPT !["dump"] = @ + 1] /\ UNCHANGED pc
  /\ UNCHANGED <<i, status, commit_done, lock, waiting, cancelled, fb, chained,
                 executed, dumped, updated>>

\* Mutant: if (i > 1).
DumpFrame_OffByOne ==
  /\ pc["dump"] = "dump"
  /\ dumped' = dumped \cup {i["dump"]}
  /\ query_num' = [query_num EXCEPT !["dump"] = 0]
  /\ IF i["dump"] > 1 THEN Goto("dump", "clear") /\ UNCHANGED i ELSE NextFrame("dump")
  /\ UNCHANGED <<status, commit_done, lock, waiting, cancelled, fb, chained, executed,
                 updated>>

\* dpu_dump_output_fbs succeeds; the frame before is released next
DumpFrame ==
  /\ pc["dump"] = "dump"
  /\ dumped' = dumped \cup {i["dump"]}
  /\ query_num' = [query_num EXCEPT !["dump"] = 0]
  /\ IF i["dump"] > 0 THEN Goto("dump", "clear") /\ UNCHANGED i ELSE NextFrame("dump")
  /\ UNCHANGED <<status, commit_done, lock, waiting, cancelled, fb, chained, executed,
                 updated>>

\* dpu_dump_output_fbs fails: goto final, the thread is over
DumpFails ==
  /\ pc["dump"] = "dump" /\ "dump" \in Faults
  /\ Goto("dump", "done")
  /\ UNCHANGED <<i, status, commit_done, lock, waiting, cancelled, query_num, fb,
                 chained, executed, dumped, updated>>

\* Mutant: the frame just dumped is released.
DumpClear_OwnFrame ==
  /\ pc["dump"] = "clear"
  /\ fb' = ClearFrameFB(i["dump"])
  /\ NextFrame("dump")
  /\ UNCHANGED <<status, commit_done, lock, waiting, cancelled, query_num, chained,
                 executed, dumped, updated>>

\* if (i > 0) dpu_clear_frame_FB(&frames[i - 1])
DumpClear ==
  /\ pc["dump"] = "clear"
  /\ fb' = ClearFrameFB(i["dump"] - 1)
  /\ NextFrame("dump")
  /\ UNCHANGED <<status, commit_done, lock, waiting, cancelled, query_num, chained,
                 executed, dumped, updated>>
-----------------------------------------------------------------------------
(* update_ltm_thread and update_ltm_slope_bias                             *)

\* The thread looks the LTM property up in frame 0 and serves all frames but
\* the last.
LtmFind ==
  /\ pc["ltm"] = "find"
  /\ Goto("ltm", LoopTop("ltm", 0))
  /\ UNCHANGED <<i, status, commit_done, lock, waiting, cancelled, query_num, fb,
                 chained, executed, dumped, updated>>

\* Mutant: one queued frame too few is asked for.
LtmQuery_OffByOne ==
  LET fr == i["ltm"] IN
  /\ pc["ltm"] = "update"
  /\ frm_exe_count >= fr + 1
  /\ IF frm_exe_count = fr + 1 /\ frm_rdy_count >= fr + 2
     THEN Goto("ltm", "apply") /\ UNCHANGED i
     ELSE NextFrame("ltm")
  /\ UNCHANGED <<status, commit_done, lock, waiting, cancelled, query_num, fb, chained,
                 executed, dumped, updated>>

\* Busy-wait for frm_exe_count >= fr + 1.  The correction is skipped when the
\* hardware is already past frame fr, or frame fr + 2 is not queued yet.
LtmQuery ==
  LET fr == i["ltm"] IN
  /\ pc["ltm"] = "update"
  /\ frm_exe_count >= fr + 1
  /\ IF frm_exe_count = fr + 1 /\ frm_rdy_count >= fr + 3
     THEN Goto("ltm", "apply") /\ UNCHANGED i
     ELSE NextFrame("ltm")
  /\ UNCHANGED <<status, commit_done, lock, waiting, cancelled, query_num, fb, chained,
                 executed, dumped, updated>>

\* Map the histogram of frame fr and send slope and bias for frame fr + 2, or
\* fail to map it.
LtmApply ==
  /\ pc["ltm"] = "apply"
  /\ \/ updated' = updated \cup {i["ltm"] + 2}
     \/ "map" \in Faults /\ UNCHANGED updated
  /\ NextFrame("ltm")
  /\ UNCHANGED <<status, commit_done, lock, waiting, cancelled, query_num, fb, chained,
                 executed, dumped>>
-----------------------------------------------------------------------------
\* The driver and the hardware (outside src/): queued frames are executed in order.
HwExecute ==
  /\ \E f \in chained \ executed :
       /\ \A g \in chained \ executed : f <= g
       /\ executed' = executed \cup {f}
  /\ UNCHANGED <<pc, i, status, commit_done, lock, waiting, cancelled, query_num, fb,
                 chained, dumped, updated>>

Main == \/ MainPoll \/ MainSetFrame \/ MainSetFrameFails \/ MainUndo \/ MainWaitSignal
        \/ MainLock \/ MainPublish \/ MainCancelDump \/ MainCancelLtm
        \/ MainJoinDump \/ MainJoinLtm \/ MainFinal
Waiter(t) == WaitLock(t) \/ WaitTest(t) \/ WaitReturn(t) \/ WaitTimeOut(t) \/ Die(t)
Dump == DumpOpen \/ DumpQuery \/ DumpFrame \/ DumpFails \/ DumpClear
Ltm == LtmFind \/ LtmQuery \/ LtmApply
Finished == pc["main"] = "end"

Next == \/ Main \/ Dump \/ Ltm \/ HwExecute
        \/ \E t \in Waiters : Waiter(t) \/ SpuriousWake(t)
        \/ Finished /\ UNCHANGED vars  \* the process is gone

\* Every runnable thread is scheduled again and again, and so is the hardware.
Fairness == /\ WF_vars(Main) /\ WF_vars(HwExecute)
            /\ WF_vars(Dump \/ Waiter("dump")) /\ WF_vars(Ltm \/ Waiter("ltm"))

Spec == Init /\ [][Next]_vars
FairSpec == Spec /\ Fairness
-----------------------------------------------------------------------------
(* Properties.                                                             *)

MainPcs == {"poll", "set", "undo", "signal", "lock", "publish", "exit", "cancel_ltm",
            "join_dump", "join_ltm", "final", "end"}
WaiterPcs == {"open", "find", "lock", "test", "wait", "query", "dump", "clear",
              "update", "apply", "done"}

\* Type invariant.
TypeOK ==
  /\ pc \in [Threads -> MainPcs \cup WaiterPcs]
  /\ pc["main"] \in MainPcs /\ \A t \in Waiters : pc[t] \in WaiterPcs
  /\ i \in [Threads -> 0 .. Num]
  /\ status \in {"SUCCESS", "FAILURE"}
  /\ commit_done \in [Frames -> BOOLEAN]
  /\ lock \in Threads \cup {"none"}
  /\ waiting \subseteq Waiters /\ cancelled \subseteq Waiters
  /\ query_num \in [{"main", "dump"} -> Nat]
  /\ fb \in [Frames -> {"none", "live", "freed"}]
  /\ chained \subseteq Frames /\ executed \subseteq chained
  /\ dumped \subseteq Frames /\ updated \subseteq Nat

\* The dump thread is past its wait only for a frame whose commit is done,
\* also when it woke up spuriously or gave an earlier frame up.
DumpAfterCommit ==
  pc["dump"] \in {"query", "dump", "clear"} => commit_done[i["dump"]]

\* main clears frames[i - 1] on a failure while the dump thread may still be
\* reading that frame.  That is the only frame that can be read after it was
\* released, and only then.
ReadAfterReleaseOnlyAtFailure ==
  pc["dump"] = "dump" /\ fb[i["dump"]] = "freed" =>
    status = "FAILURE" /\ i["dump"] = i["main"] - 1

\* Main and the dump thread are never both releasing buffers of one frame, and
\* the frame the final label clears is still held by then.
OneReleaser ==
  /\ pc["main"] = "undo" /\ pc["dump"] = "clear" => i["main"] # i["dump"]
  /\ pc["main"] = "final" => fb[FinalFrame] # "freed"

\* A run that set and dumped every frame has released the buffers of each:
\* all but the last by the dump thread, the last by main's final label.
AllReleased ==
  Finished /\ status = "SUCCESS" /\ dumped = Frames => \A f \in Frames : fb[f] = "freed"

\* A frame that was committed is dumped only after the hardware finished it,
\* unless the wait for it timed out.
FreshDump ==
  pc["dump"] = "dump" /\ i["dump"] \in chained /\ query_num["dump"] <= MaxQuery
    => i["dump"] \in executed

\* The LTM thread corrects frame i + 2 when frame i is done, and "the frame has
\* not chain to vcmd" is ruled out: as long as no frame was skipped for want of
\* a command buffer, the corrected frames are queued frames.
NoneSkipped == \A f \in Frames : f < i["main"] => f \in chained
LtmTargetQueued == NoneSkipped => updated \subseteq chained

\* Without the LTM thread no thread sleeps on a frame that is committed already: it
\* tests commit_done and falls asleep under the mutex main publishes under.  (With
\* it, the one signal of a frame can go to the other thread.)
NoLostWakeup == ~HasLtm => \A t \in waiting : ~commit_done[i[t]]

\* The mutex belongs to a thread that is about to give it back, or to a thread that
\* died in pthread_cond_wait after a failure.  main never asks for it after that,
\* nor does anyone but the other of the two threads.
MutexHolder ==
  /\ pc["main"] = "publish" => lock = "main"
  /\ \A t \in Waiters : pc[t] = "test" => lock = t
  /\ lock # "none" =>
       \/ pc[lock] \in {"publish", "test"}
       \/ /\ lock \in cancelled /\ pc[lock] = "done"
          /\ \A t \in Threads : pc[t] \in {"lock", "wait"} => HasLtm /\ t \in Waiters \ {lock}

\* When main waits for the dump thread, without the LTM thread, that thread can go
\* on: if it sleeps it has been cancelled, and nobody keeps the mutex from it.
JoinReturns ==
  pc["main"] = "join_dump" /\ pc["dump"] # "done" /\ ~HasLtm =>
    /\ "dump" \in waiting => "dump" \in cancelled
    /\ pc["dump"] \in {"lock", "wait"} => lock = "none"

\* Whatever fails, the process comes to its end: the joins return.
Termination == <>Finished

\* A committed frame is dumped in the end, unless a frame could not be set or the
\* dump thread gave up by itself; no wake-up meant for it gets lost.
CommittedIsDumped ==
  \A f \in Frames :
    commit_done[f] ~> \/ f \in dumped
                      \/ status = "FAILURE"
                      \/ pc["dump"] = "done" /\ "dump" \notin cancelled

\* "vcmd need update ltm slope and bias real-time": once a frame is committed
\* the LTM thread gets to it, corrects what there is to correct and goes on.
LtmFollowsCommits ==
  \A f \in 0 .. Num - 2 : commit_done[f] ~> i["ltm"] > f

\* The threads implement the order of DumpOrder.
Order == INSTANCE DumpOrder WITH
           published <- {f \in Frames : commit_done[f]},
           next <- IF pc["dump"] = "clear" THEN i["dump"] + 1 ELSE i["dump"]
ImplementsDumpOrder == Order!Spec
=============================================================================
