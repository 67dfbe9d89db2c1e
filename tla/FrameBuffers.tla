---------------------------- MODULE FrameBuffers ----------------------------
(***************************************************************************)
(* The buffer objects and framebuffers of the frames: who creates them,    *)
(* which fields hold them and who releases them.  main sets the frames of  *)
(* a case (src/viv_dc_functions.c: writeback_config, atomic_set_planes,    *)
(* atomic_set_cursors) while the dump thread releases earlier ones         *)
(* (dpu_clear_frame_FB), one ioctl at a time.  Synchronisation is reduced  *)
(* to commit_done; FrameRun and StreamRun have it in full.  The planes of  *)
(* one format (num_planes) are one buffer here.                            *)
(***************************************************************************)
EXTENDS Naturals, FiniteSets

CONSTANTS
  Num,        \* the most frames a case has
  NumPlanes,  \* planes of each frame
  NumPipes,   \* pipes of each frame, all with a write-back connector
  MaxFb,      \* bound on framebuffer ids; a run needs fewer
  Setups      \* the kinds of runs: mode, case and what may fail

Frames == 0 .. Num - 1
Planes == 0 .. NumPlanes - 1
Pipes == 0 .. NumPipes - 1
FbIds == 1 .. MaxFb
Threads == {"main", "dump"}
AllFaults == {"set", "create", "commit", "dump", "map"}
Setup == [num : 1 .. Num, is_stream : BOOLEAN, use_vcmd : BOOLEAN, recycle : Nat \ {0},
          cursor : BOOLEAN,                             \* the frames have a cursor
          wb : [Frames -> {"normal", "stripe", "ramless"}],
          ramless : [Frames -> {"absent", "on", "off"}],  \* property RAMLESS_FB
          faults : SUBSET AllFaults]

ASSUME SizeAssumption ==
  /\ Num \in Nat \ {0} /\ NumPipes \in Nat \ {0} /\ MaxFb \in Nat
  /\ NumPlanes \in Nat /\ NumPlanes >= NumPipes
ASSUME SetupAssumption == Setups \subseteq Setup

VARIABLES
  setup,               \* the run, chosen at the start
  pc, round, i, x,     \* main: place, recycle round, frame, pipe or plane
  swapped, plane_bo,   \* main has moved bo to old_bo; its local plane_bo, the former old_bo
  status, cancelled,   \* main: no call failed; pthread_cancel was called
  dpc, k,              \* the dump thread: place and frame
  clr,                 \* of each thread, where it is in dpu_clear_frame_FB
  commit_done,
  plane, cursor, pipe, \* the fields of the frames that hold buffers
  wb_stripe,           \* dev.wb_stripe: the write-back buffer of striped pipes
  ramless_fb_id, fb_inuse, ramless_value,
  bos, made,           \* the buffer objects that exist; how many were made
  fbs,                 \* the buffer each framebuffer id shows, 0 for a free id
  unmapped, gave_up,   \* history: buffers bo_dump destroyed; the dump thread failed
  ahead                \* history: it took a frame main had not yet set in this round

mainVars == <<pc, round, i, x, status, cancelled>>
histVars == <<unmapped, gave_up, ahead>>
dumpVars == <<dpc, k, histVars>>
swapVars == <<swapped, plane_bo>>
fieldVars == <<plane, cursor, pipe>>
devVars == <<wb_stripe, ramless_fb_id, fb_inuse, ramless_value>>
poolVars == <<bos, made, fbs>>
vars == <<setup, mainVars, swapVars, dumpVars, clr, commit_done, fieldVars, devVars, poolVars>>

NoPlane == [bo |-> 0, old_bo |-> 0, fb_id |-> 0, old_fb_id |-> 0]
NoPipe == [out_bo |-> 0, out_fb_id |-> 0]
Idle == [stage |-> "idle", frame |-> 0, y |-> 0]

Init ==
  /\ setup \in Setups
  /\ pc = IF setup.use_vcmd THEN "create_wb" ELSE "props"
  /\ round = 1 /\ i = 0 /\ x = 0 /\ status = TRUE /\ cancelled = FALSE
  /\ dpc = IF setup.use_vcmd THEN "none" ELSE "wait"
  /\ swapped = FALSE /\ plane_bo = 0
  /\ k = 0 /\ unmapped = {} /\ gave_up = FALSE /\ ahead = FALSE
  /\ clr = [t \in Threads |-> Idle]
  /\ commit_done = [f \in Frames |-> FALSE]
  /\ plane = [f \in Frames |-> [p \in Planes |-> NoPlane]]
  /\ cursor = [f \in Frames |-> 0]
  /\ pipe = [f \in Frames |-> [q \in Pipes |-> NoPipe]]
  /\ wb_stripe = NoPipe
  /\ ramless_fb_id = 0 /\ fb_inuse = FALSE /\ ramless_value = 0
  /\ bos = {} /\ made = 0 /\ fbs = [id \in FbIds |-> 0]

May(fault) == fault \in setup.faults
-----------------------------------------------------------------------------
(* Buffers and framebuffers.                                               *)

\* A buffer object is known by the number of its allocation.
NewBo == made + 1
MakeBo == bos' = bos \cup {NewBo} /\ made' = NewBo

\* The kernel gives the lowest free id of the objects it knows.  MaxFb bounds the ids: a
\* creation waits for a free one, and a run that met the bound would come to a deadlock.
FreeIds == {id \in FbIds : fbs[id] = 0}
NewFb == CHOOSE id \in FreeIds : \A id2 \in FreeIds : id <= id2

AddFB(b) == FreeIds # {} /\ fbs' = [fbs EXCEPT ![NewFb] = b]
RmFB(id) == fbs' = [j \in FbIds |-> IF j = id THEN 0 ELSE fbs[j]]

\* bo_fb_create and the creation in atomic_set_plane: buffer and framebuffer
BoFbCreate == MakeBo /\ AddFB(NewBo)

\* The creation failed: no buffer, or a buffer nobody holds because AddFB failed.
BoFbCreateFails ==
  /\ May("create")
  /\ \/ UNCHANGED <<bos, made>>
     \/ MakeBo
  /\ UNCHANGED fbs
-----------------------------------------------------------------------------
(* dpu_clear_frame_FB, by thread t; one step for each object removed.      *)

ClearFrame(t, f) == clr' = [clr EXCEPT ![t] = [stage |-> "cursor", frame |-> f, y |-> 0]]
Stage(t, stage, y) == clr' = [clr EXCEPT ![t].stage = stage, ![t].y = y]
ClearReturns(t) == clr' = [clr EXCEPT ![t] = Idle]

ClearCursor(t) ==
  /\ clr[t].stage = "cursor"
  /\ bos' = bos \ {cursor[clr[t].frame]}
  /\ cursor' = [cursor EXCEPT ![clr[t].frame] = 0]
  /\ Stage(t, "fb_id", 0)
  /\ UNCHANGED <<setup, swapVars, mainVars, dumpVars, commit_done, plane, pipe, devVars, made,
                 fbs>>

ClearFbId(t) ==
  LET f == clr[t].frame  y == clr[t].y
  IN  /\ clr[t].stage = "fb_id"
      /\ RmFB(plane[f][y].fb_id)
      /\ plane' = [plane EXCEPT ![f][y].fb_id = 0]
      /\ Stage(t, "old_fb_id", y)
      /\ UNCHANGED <<setup, swapVars, mainVars, dumpVars, commit_done, cursor, pipe, devVars,
                     bos, made>>

\* old_fb_id is the number fb_id had, and is removed once more
ClearOldFbId(t) ==
  LET f == clr[t].frame  y == clr[t].y
  IN  /\ clr[t].stage = "old_fb_id"
      /\ RmFB(plane[f][y].old_fb_id)
      /\ plane' = [plane EXCEPT ![f][y].old_fb_id = 0]
      /\ Stage(t, "bo", y)
      /\ UNCHANGED <<setup, swapVars, mainVars, dumpVars, commit_done, cursor, pipe, devVars,
                     bos, made>>

ClearBo(t) ==
  LET f == clr[t].frame  y == clr[t].y
  IN  /\ clr[t].stage = "bo"
      /\ bos' = bos \ {plane[f][y].bo}
      /\ plane' = [plane EXCEPT ![f][y].bo = 0]
      /\ Stage(t, "old_bo", y)
      /\ UNCHANGED <<setup, swapVars, mainVars, dumpVars, commit_done, cursor, pipe, devVars,
                     made, fbs>>

ClearOldBo(t) ==
  LET f == clr[t].frame  y == clr[t].y
  IN  /\ clr[t].stage = "old_bo"
      /\ bos' = bos \ {plane[f][y].old_bo}
      /\ plane' = [plane EXCEPT ![f][y].old_bo = 0]
      /\ IF y + 1 < NumPlanes THEN Stage(t, "fb_id", y + 1) ELSE Stage(t, "pipe", 0)
      /\ UNCHANGED <<setup, swapVars, mainVars, dumpVars, commit_done, cursor, pipe, devVars,
                     made, fbs>>

\* Mutant: out_bo is not set to NULL.
ClearPipe_KeepsPointer(t) ==
  LET f == clr[t].frame  y == clr[t].y  shared == pipe[f][y].out_fb_id = ramless_fb_id
  IN  /\ clr[t].stage = "pipe"
      /\ IF setup.wb[f] = "stripe" THEN UNCHANGED <<pipe, bos, fbs>>
         ELSE /\ IF shared THEN UNCHANGED fbs ELSE RmFB(pipe[f][y].out_fb_id)
              /\ bos' = bos \ {pipe[f][y].out_bo}
              /\ pipe' = [pipe EXCEPT ![f][y].out_fb_id = IF shared THEN @ ELSE 0]
      /\ IF y + 1 < NumPipes THEN Stage(t, "pipe", y + 1) ELSE Stage(t, "ramless", 0)
      /\ UNCHANGED <<setup, swapVars, mainVars, dumpVars, commit_done, plane, cursor, devVars,
                     made>>

\* A striped pipe is left alone; the framebuffer of the ramless pipe stays
ClearPipe(t) ==
  LET f == clr[t].frame  y == clr[t].y  shared == pipe[f][y].out_fb_id = ramless_fb_id
  IN  /\ clr[t].stage = "pipe"
      /\ IF setup.wb[f] = "stripe" THEN UNCHANGED <<pipe, bos, fbs>>
         ELSE /\ IF shared THEN UNCHANGED fbs ELSE RmFB(pipe[f][y].out_fb_id)
              /\ bos' = bos \ {pipe[f][y].out_bo}
              /\ pipe' = [pipe EXCEPT ![f][y] =
                            [NoPipe EXCEPT !.out_fb_id = IF shared THEN ramless_fb_id ELSE 0]]
      /\ IF y + 1 < NumPipes THEN Stage(t, "pipe", y + 1) ELSE Stage(t, "ramless", 0)
      /\ UNCHANGED <<setup, swapVars, mainVars, dumpVars, commit_done, plane, cursor, devVars,
                     made>>

\* Mutant: fb_inuse is not asked.
ClearRamless_InUse(t) ==
  /\ clr[t].stage = "ramless"
  /\ IF ramless_fb_id # 0 THEN Stage(t, "rm_ramless", 0) ELSE ClearReturns(t)
  /\ UNCHANGED <<setup, swapVars, mainVars, dumpVars, commit_done, fieldVars, devVars,
                 poolVars>>

ClearRamless(t) ==
  /\ clr[t].stage = "ramless"
  /\ IF ~fb_inuse /\ ramless_fb_id # 0 THEN Stage(t, "rm_ramless", 0) ELSE ClearReturns(t)
  /\ UNCHANGED <<setup, swapVars, mainVars, dumpVars, commit_done, fieldVars, devVars,
                 poolVars>>

ClearRmRamless(t) ==
  /\ clr[t].stage = "rm_ramless"
  /\ RmFB(ramless_fb_id) /\ ramless_fb_id' = 0
  /\ ClearReturns(t)
  /\ UNCHANGED <<setup, swapVars, mainVars, dumpVars, commit_done, fieldVars, wb_stripe,
                 fb_inuse, ramless_value, bos, made>>

Clear(t) == \/ ClearCursor(t) \/ ClearFbId(t) \/ ClearOldFbId(t) \/ ClearBo(t) \/ ClearOldBo(t)
            \/ ClearPipe(t) \/ ClearRamless(t) \/ ClearRmRamless(t)
-----------------------------------------------------------------------------
(* main: dpu_create_wb_plane_buffer for every frame, in VCMD mode.         *)

\* A call failed: status is set and main leaves its loop.
Fails(next) == status' = FALSE /\ pc' = next

CreateWb ==
  /\ pc = "create_wb"
  /\ BoFbCreate
  /\ pipe' = [pipe EXCEPT ![i][x] = [out_bo |-> NewBo, out_fb_id |-> NewFb]]
  /\ IF x + 1 < NumPipes THEN x' = x + 1 /\ UNCHANGED pc ELSE x' = 0 /\ pc' = "create_plane"
  /\ UNCHANGED <<setup, swapVars, round, i, status, cancelled, dumpVars, clr, commit_done,
                 plane, cursor, devVars>>

\* atomic_set_plane and create_plane_buffer begin alike: bo becomes old_bo, and the
\* former old_bo goes to a local of main, before a buffer is made.
SwapBos ==
  /\ pc \in {"create_plane", "planes"} /\ ~swapped
  /\ swapped' = TRUE /\ plane_bo' = plane[i][x].old_bo
  /\ plane' = [plane EXCEPT ![i][x].old_bo = plane[i][x].bo]
  /\ UNCHANGED <<setup, mainVars, dumpVars, clr, commit_done, cursor, pipe, devVars, poolVars>>

\* The function is left, and its local with it.
LeavePlane == swapped /\ swapped' = FALSE /\ plane_bo' = 0

PlaneSet(p, b, id) == [p EXCEPT !.bo = b, !.fb_id = id, !.old_fb_id = id]

\* Mutant: the buffer the plane has is used, and kept as the old one.
SetPlane_KeepsBo ==
  LET p == plane[i][x]
  IN  /\ LeavePlane
      /\ \/ /\ p.bo = 0 /\ BoFbCreate
            /\ plane' = [plane EXCEPT ![i][x] = PlaneSet(p, NewBo, NewFb)]
         \/ /\ p.bo # 0 /\ UNCHANGED poolVars
            /\ plane' = [plane EXCEPT ![i][x] = PlaneSet(p, p.bo, p.fb_id)]

\* Then a missing buffer is created, and becomes bo.
SetPlane ==
  LET p == plane[i][x]
  IN  /\ LeavePlane
      /\ \/ /\ plane_bo = 0 /\ BoFbCreate
            /\ plane' = [plane EXCEPT ![i][x] = PlaneSet(p, NewBo, NewFb)]
         \/ /\ plane_bo # 0 /\ UNCHANGED poolVars
            /\ plane' = [plane EXCEPT ![i][x] = PlaneSet(p, plane_bo, p.fb_id)]

\* The creation fails, and old_bo stays the present buffer.
SetPlaneFails == LeavePlane /\ plane_bo = 0 /\ BoFbCreateFails /\ UNCHANGED plane

\* The loop over the planes is bounded by the number of pipes.
CreatePlane ==
  /\ pc = "create_plane"
  /\ SetPlane
  /\ IF x + 1 < NumPipes THEN x' = x + 1 /\ UNCHANGED <<pc, i, dpc>>
     ELSE IF i + 1 < setup.num THEN x' = 0 /\ i' = i + 1 /\ pc' = "create_wb" /\ UNCHANGED dpc
     ELSE x' = 0 /\ i' = 0 /\ pc' = "props" /\ dpc' = "wait"
  /\ UNCHANGED <<setup, round, status, cancelled, k, histVars, clr, commit_done, cursor, pipe,
                 devVars>>

CreateFails ==
  /\ \/ pc = "create_wb" /\ BoFbCreateFails /\ UNCHANGED <<plane, swapVars>>
     \/ pc = "create_plane" /\ SetPlaneFails
  /\ Fails("final")
  /\ UNCHANGED <<setup, round, i, x, cancelled, dumpVars, clr, commit_done, cursor, pipe,
                 devVars>>
-----------------------------------------------------------------------------
(* main: dpu_set_frame for frame i.                                        *)

\* Where main goes when dpu_set_frame failed.
SetFrameFails ==
  /\ Fails("cancel")
  /\ IF ~setup.is_stream /\ i > 0 THEN ClearFrame("main", i - 1) ELSE UNCHANGED clr

\* dtest_case_props_map with map_ramless_fb: the property is read before the
\* write-back buffers of this frame are made
SetProps ==
  /\ pc = "props"
  /\ CASE setup.ramless[i] = "on"     -> fb_inuse' = TRUE /\ ramless_value' = ramless_fb_id
       [] setup.ramless[i] = "off"    -> fb_inuse' = FALSE /\ ramless_value' = 0
       [] setup.ramless[i] = "absent" -> UNCHANGED fb_inuse /\ ramless_value' = 0
  /\ pc' = IF setup.use_vcmd THEN "cursor" ELSE "wb"
  /\ UNCHANGED <<setup, swapVars, round, i, x, status, cancelled, dumpVars, clr, commit_done,
                 fieldVars, wb_stripe, ramless_fb_id, poolVars>>

\* A check before the buffers fails: the feature is unsupported.
SetPropsFails ==
  /\ pc = "props" /\ May("set")
  /\ SetFrameFails
  /\ UNCHANGED <<setup, swapVars, round, i, x, cancelled, dumpVars, commit_done, fieldVars,
                 devVars, poolVars>>

\* stripe_writeback_config, for a pipe that finds dev.wb_stripe empty or full
StripeWb ==
  /\ setup.wb[i] = "stripe"
  /\ \/ /\ wb_stripe.out_fb_id = 0 /\ BoFbCreate
        /\ wb_stripe' = [out_bo |-> NewBo, out_fb_id |-> NewFb]
     \/ /\ wb_stripe.out_fb_id # 0 /\ UNCHANGED <<poolVars, wb_stripe>>
  /\ pipe' = [pipe EXCEPT ![i][x] = wb_stripe']
  /\ UNCHANGED ramless_fb_id

PipeWb ==
  /\ setup.wb[i] # "stripe" /\ BoFbCreate
  /\ pipe' = [pipe EXCEPT ![i][x] = [out_bo |-> NewBo, out_fb_id |-> NewFb]]
  /\ ramless_fb_id' = IF setup.wb[i] = "ramless" THEN NewFb ELSE ramless_fb_id
  /\ UNCHANGED wb_stripe

\* writeback_config
SetWb ==
  /\ pc = "wb"
  /\ StripeWb \/ PipeWb
  /\ IF x + 1 < NumPipes THEN x' = x + 1 /\ UNCHANGED pc ELSE x' = 0 /\ pc' = "planes"
  /\ UNCHANGED <<setup, swapVars, round, i, status, cancelled, dumpVars, clr, commit_done,
                 plane, cursor, fb_inuse, ramless_value>>

SetPlanes ==
  /\ pc = "planes"
  /\ SetPlane
  /\ IF x + 1 < NumPlanes THEN x' = x + 1 /\ UNCHANGED pc ELSE x' = 0 /\ pc' = "cursor"
  /\ UNCHANGED <<setup, round, i, status, cancelled, dumpVars, clr, commit_done, cursor, pipe,
                 devVars>>

SetBuffersFails ==
  /\ \/ /\ pc = "wb" /\ (setup.wb[i] = "stripe" => wb_stripe.out_fb_id = 0)
        /\ BoFbCreateFails /\ UNCHANGED <<plane, swapVars>>
     \/ pc = "planes" /\ SetPlaneFails
  /\ SetFrameFails
  /\ UNCHANGED <<setup, round, i, x, cancelled, dumpVars, commit_done, cursor, pipe, devVars>>

\* atomic_set_cursors: a buffer without a framebuffer
SetCursor ==
  /\ pc = "cursor"
  /\ IF setup.cursor THEN MakeBo /\ cursor' = [cursor EXCEPT ![i] = NewBo]
                     ELSE UNCHANGED <<bos, made, cursor>>
  /\ pc' = "commit"
  /\ UNCHANGED <<setup, swapVars, round, i, x, status, cancelled, dumpVars, clr, commit_done,
                 plane, pipe, devVars, fbs>>

\* Either no buffer, or drmModeSetCursor2 or drmModeMoveCursor refuses it.
SetCursorFails ==
  /\ pc = "cursor" /\ setup.cursor /\ May("create")
  /\ \/ UNCHANGED <<bos, made, cursor>>
     \/ MakeBo /\ cursor' = [cursor EXCEPT ![i] = NewBo]
  /\ SetFrameFails
  /\ UNCHANGED <<setup, swapVars, round, i, x, cancelled, dumpVars, commit_done, plane, pipe,
                 devVars, fbs>>

\* drmModeAtomicCommit, dpu_wait_signal, commit_done = true
Commit ==
  /\ pc = "commit"
  /\ commit_done' = [commit_done EXCEPT ![i] = TRUE]
  /\ i' = i + 1
  /\ pc' = IF i + 1 < setup.num THEN "props" ELSE "join"
  /\ UNCHANGED <<setup, swapVars, round, x, status, cancelled, dumpVars, clr, fieldVars,
                 devVars, poolVars>>

CommitFails ==
  /\ pc = "commit" /\ May("commit")
  /\ SetFrameFails
  /\ UNCHANGED <<setup, swapVars, round, i, x, cancelled, dumpVars, commit_done, fieldVars,
                 devVars, poolVars>>
-----------------------------------------------------------------------------
(* main: the end.                                                          *)

\* pthread_cancel; in stream mode the thread is not joined then
Cancel ==
  /\ pc = "cancel" /\ clr["main"] = Idle
  /\ cancelled' = TRUE
  /\ pc' = IF setup.is_stream THEN "final" ELSE "join"
  /\ UNCHANGED <<setup, swapVars, round, i, x, status, dumpVars, clr, commit_done, fieldVars,
                 devVars, poolVars>>

\* Mutant: <= instead of <, one round too many.
Join_OffByOne ==
  /\ pc = "join" /\ dpc = "exit"
  /\ IF setup.is_stream /\ round <= setup.recycle
     THEN round' = round + 1 /\ i' = 0 /\ k' = 0 /\ pc' = "props" /\ dpc' = "wait"
     ELSE pc' = "final" /\ UNCHANGED <<round, i, k, dpc>>
  /\ UNCHANGED <<setup, swapVars, x, status, cancelled, histVars, clr, commit_done, fieldVars,
                 devVars, poolVars>>

\* pthread_join; in stream mode the next round with a new thread, if there is one
Join ==
  /\ pc = "join" /\ dpc = "exit"
  /\ IF setup.is_stream /\ round < setup.recycle
     THEN round' = round + 1 /\ i' = 0 /\ k' = 0 /\ pc' = "props" /\ dpc' = "wait"
     ELSE pc' = "final" /\ UNCHANGED <<round, i, k, dpc>>
  /\ UNCHANGED <<setup, swapVars, x, status, cancelled, histVars, clr, commit_done, fieldVars,
                 devVars, poolVars>>

\* Mutant: the last frame is left to the dump thread in frame mode, too.
Final_NoClear ==
  /\ pc = "final"
  /\ pc' = "end"
  /\ UNCHANGED <<setup, swapVars, round, i, x, status, cancelled, dumpVars, clr, commit_done,
                 fieldVars, devVars, poolVars>>

\* i += (status != DTEST_SUCCESS); dpu_clear_frame_FB(frames[i - 1])
Final ==
  /\ pc = "final"
  /\ ClearFrame("main", IF status THEN i - 1 ELSE i)
  /\ pc' = "end"
  /\ UNCHANGED <<setup, swapVars, round, i, x, status, cancelled, dumpVars, commit_done,
                 fieldVars, devVars, poolVars>>
-----------------------------------------------------------------------------
(* The dump thread.                                                        *)

DumpTakes ==
  /\ dpc = "wait" /\ commit_done[k]
  /\ dpc' = "dump" /\ ahead' = (ahead \/ k >= i)
  /\ UNCHANGED <<setup, swapVars, mainVars, k, unmapped, gave_up, clr, commit_done, fieldVars,
                 devVars, poolVars>>

\* Mutant: the frame after the dumped one is released.
Dump_ClearsNext ==
  /\ dpc = "dump"
  /\ dpc' = "next"
  /\ IF k + 1 < setup.num THEN ClearFrame("dump", k + 1) ELSE UNCHANGED clr
  /\ UNCHANGED <<setup, swapVars, mainVars, k, histVars, commit_done, fieldVars, devVars,
                 poolVars>>

\* dpu_dump_output_fbs; if (i > 0) dpu_clear_frame_FB(frames[i - 1])
Dump ==
  /\ dpc = "dump"
  /\ dpc' = "next"
  /\ IF k > 0 THEN ClearFrame("dump", k - 1) ELSE UNCHANGED clr
  /\ UNCHANGED <<setup, swapVars, mainVars, k, histVars, commit_done, fieldVars, devVars,
                 poolVars>>

\* A dump that fails ends the thread.  When bo_map failed, bo_dump has destroyed
\* the buffer.
DumpFails ==
  /\ dpc = "dump"
  /\ \/ May("dump") /\ UNCHANGED <<bos, unmapped>>
     \/ /\ May("map")
        /\ \E q \in Pipes : /\ bos' = bos \ {pipe[k][q].out_bo}
                            /\ unmapped' = unmapped \cup {pipe[k][q].out_bo}
  /\ dpc' = "exit" /\ gave_up' = TRUE
  /\ UNCHANGED <<setup, swapVars, mainVars, k, ahead, clr, commit_done, fieldVars, devVars,
                 made, fbs>>

\* The end of an iteration.  In stream mode commit_done is reset, and the last
\* frame is released after the loop.
DumpNext ==
  /\ dpc = "next" /\ clr["dump"] = Idle
  /\ IF setup.is_stream THEN commit_done' = [commit_done EXCEPT ![k] = FALSE]
                        ELSE UNCHANGED commit_done
  /\ IF k + 1 < setup.num THEN k' = k + 1 /\ dpc' = "wait" /\ UNCHANGED clr
     ELSE /\ dpc' = "last" /\ UNCHANGED k
          /\ IF setup.is_stream THEN ClearFrame("dump", k) ELSE UNCHANGED clr
  /\ UNCHANGED <<setup, swapVars, mainVars, histVars, fieldVars, devVars, poolVars>>

DumpEnds ==
  /\ dpc = "last" /\ clr["dump"] = Idle
  /\ dpc' = "exit"
  /\ UNCHANGED <<setup, swapVars, mainVars, k, histVars, clr, commit_done, fieldVars, devVars,
                 poolVars>>

\* A cancelled thread dies in its wait or in a file operation.
DumpDies ==
  /\ cancelled /\ dpc \in {"wait", "dump"}
  /\ dpc' = "exit"
  /\ UNCHANGED <<setup, swapVars, mainVars, k, histVars, clr, commit_done, fieldVars, devVars,
                 poolVars>>

Main == \/ CreateWb \/ SwapBos \/ CreatePlane \/ CreateFails
        \/ SetProps \/ SetPropsFails \/ SetWb \/ SetPlanes \/ SetBuffersFails
        \/ SetCursor \/ SetCursorFails \/ Commit \/ CommitFails
        \/ Cancel \/ Join \/ Final
DumpThread == \/ DumpTakes \/ Dump \/ DumpFails \/ DumpNext \/ DumpEnds
              \/ DumpDies
Finished == pc = "end" /\ clr["main"] = Idle

Next == \/ ~Finished /\ (Main \/ DumpThread \/ \E t \in Threads : Clear(t))
        \/ Finished /\ UNCHANGED vars

Spec == Init /\ [][Next]_vars
-----------------------------------------------------------------------------
(* Properties.                                                             *)

TypeOK ==
  /\ setup \in Setups /\ round \in 1 .. setup.recycle /\ i \in 0 .. Num
  /\ pc \in {"create_wb", "create_plane", "props", "wb", "planes", "cursor", "commit",
             "cancel", "join", "final", "end"}
  /\ dpc \in {"none", "wait", "dump", "next", "last", "exit"}
  /\ x \in Planes \cup {0} /\ k \in Frames
  /\ status \in BOOLEAN /\ cancelled \in BOOLEAN /\ gave_up \in BOOLEAN /\ ahead \in BOOLEAN
  /\ swapped \in BOOLEAN /\ plane_bo \in 0 .. made
  /\ clr \in [Threads -> [stage : {"idle", "cursor", "fb_id", "old_fb_id", "bo", "old_bo",
                                   "pipe", "ramless", "rm_ramless"},
                          frame : Frames, y : Planes \cup {0}]]
  /\ commit_done \in [Frames -> BOOLEAN]
  /\ made \in Nat /\ bos \subseteq 1 .. made /\ unmapped \subseteq 0 .. made
  /\ fbs \in [FbIds -> 0 .. made]
  /\ plane \in [Frames -> [Planes -> [bo : 0 .. made, old_bo : 0 .. made,
                                      fb_id : FbIds \cup {0}, old_fb_id : FbIds \cup {0}]]]
  /\ cursor \in [Frames -> 0 .. made]
  /\ pipe \in [Frames -> [Pipes -> [out_bo : 0 .. made, out_fb_id : FbIds \cup {0}]]]
  /\ wb_stripe \in [out_bo : 0 .. made, out_fb_id : FbIds \cup {0}]
  /\ ramless_fb_id \in FbIds \cup {0} /\ ramless_value \in FbIds \cup {0}
  /\ fb_inuse \in BOOLEAN

\* The fields that hold buffers; those of striped pipes hold a shared one.
Fields == ({"bo", "old_bo"} \X Frames \X Planes) \cup ({"out_bo"} \X Frames \X Pipes)
            \cup ({"cursor"} \X Frames \X {0})
Shared(d) == d[1] = "out_bo" /\ setup.wb[d[2]] = "stripe"
Held(d) == CASE d[1] = "bo"     -> plane[d[2]][d[3]].bo
             [] d[1] = "old_bo" -> plane[d[2]][d[3]].old_bo
             [] d[1] = "out_bo" -> pipe[d[2]][d[3]].out_bo
             [] d[1] = "cursor" -> cursor[d[2]]

\* The dump thread has not taken a frame that main has still to set in this round, which a
\* commit_done left over from a failed dump lets it do; and no creation failed after a failed
\* dump, which leaves bo and old_bo of a plane the same buffer.
Orderly == ~ahead /\ (status \/ ~gave_up)

\* main is in the middle of setting a plane, whose bo is its old_bo, too.
Exchanged(d, e) == swapped /\ {d, e} = {<<"bo", i, x>>, <<"old_bo", i, x>>}

\* No field, and no local of main, is left with a buffer that was destroyed, so that none
\* is destroyed twice; but for the one bo_dump destroys.
HeldBuffersExist ==
  Orderly => /\ \A d \in Fields : Held(d) # 0 => Held(d) \in bos \cup unmapped
             /\ plane_bo # 0 => plane_bo \in bos \cup unmapped

\* No buffer has two owners, in all the exchanges of bo and old_bo.
OneOwner ==
  Orderly => /\ \A d, e \in Fields : d # e /\ Held(d) = Held(e) /\ Held(d) # 0 =>
                  (Shared(d) /\ Shared(e)) \/ Exchanged(d, e)
             /\ \A d \in Fields : Held(d) = plane_bo => plane_bo = 0

\* "prepare all plane and wb buffers": in VCMD mode a frame is committed with
\* framebuffers that exist and show its own buffers.
Shows(id, b) == id # 0 /\ fbs[id] = b
CommitsOwnFbs ==
  pc = "commit" /\ setup.use_vcmd =>
    /\ \A p \in Planes : Shows(plane[i][p].fb_id, plane[i][p].bo)
    /\ \A q \in Pipes : Shows(pipe[i][q].out_fb_id, pipe[i][q].out_bo)

\* A run in which nothing failed leaves no buffer and no framebuffer behind, but
\* for the shared one of striped pipes and a ramless one that is still in use.
NothingLost ==
  Finished /\ status /\ ~gave_up =>
    /\ bos \subseteq {wb_stripe.out_bo}
    /\ \A id \in FbIds : fbs[id] # 0 => id = wb_stripe.out_fb_id
                                        \/ (id = ramless_fb_id /\ fb_inuse)

\* The framebuffer a ramless frame is committed with has not been removed since
\* the property was read.
RamlessLives ==
  pc = "commit" /\ ramless_value # 0 => fbs[ramless_value] # 0
=============================================================================
