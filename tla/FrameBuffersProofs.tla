------------------------- MODULE FrameBuffersProofs -------------------------
(***************************************************************************)
(* Proofs about FrameBuffers, for every number of frames, planes and pipes *)
(* and every choice of runs.                                               *)
(***************************************************************************)
EXTENDS FrameBuffers, NaturalLemmas, TLAPS

\* main is at a frame, a pipe or a plane of the run; it has none left when it is through.
Working == {"create_wb", "create_plane", "props", "wb", "planes", "cursor", "commit"}
MainIndex ==
  /\ i <= setup.num /\ k < setup.num
  /\ pc \in Working => status /\ i < setup.num
  /\ ~status => i < setup.num
  /\ pc = "cancel" => ~status
  /\ pc = "join" /\ setup.is_stream => status /\ x = 0
  /\ status /\ pc \in {"join", "final", "end"} => i = setup.num
  /\ pc \in {"create_wb", "create_plane", "wb"} => x \in Pipes
  /\ pc \in {"props", "cursor", "commit"} => x = 0
  /\ pc \in {"create_wb", "create_plane"} => setup.use_vcmd
  /\ pc \in {"wb", "planes"} => ~setup.use_vcmd
  /\ swapped => pc \in {"create_plane", "planes"}
  /\ ~swapped => plane_bo = 0

\* A thread that clears a frame is at a plane or a pipe of it.
PlaneStages == {"fb_id", "old_fb_id", "bo", "old_bo"}
ClearIndex ==
  \A t \in Threads : /\ clr[t].stage \in PlaneStages => clr[t].y \in Planes
                     /\ clr[t].stage = "pipe" => clr[t].y \in Pipes

TypeInv == TypeOK /\ MainIndex /\ ClearIndex

\* main makes the buffers of VCMD mode; a thread is in dpu_clear_frame_FB.
Creating == pc \in {"create_wb", "create_plane"}
Busy(t) == clr[t].stage # "idle"

\* In VCMD mode main finds no buffer in the planes it makes them for.
ToMake(f, p) == f > i \/ (f = i /\ (pc = "create_wb" \/ p >= x))
FreshInv == Creating =>
  /\ plane_bo = 0
  /\ \A f \in Frames, p \in Planes :
       plane[f][p].old_bo = 0 /\ (ToMake(f, p) => plane[f][p].bo = 0)

FbIds0 == FbIds \cup {0}
PlaneRec(m) == [bo : 0 .. m, old_bo : 0 .. m, fb_id : FbIds0, old_fb_id : FbIds0]
PipeRec(m) == [out_bo : 0 .. m, out_fb_id : FbIds0]

MainOK ==
  /\ setup \in Setups /\ round \in 1 .. setup.recycle /\ i \in 0 .. Num
  /\ pc \in Working \cup {"cancel", "join", "final", "end"}
  /\ dpc \in {"none", "wait", "dump", "next", "last", "exit"}
  /\ x \in Planes \cup {0} /\ k \in Frames
  /\ status \in BOOLEAN /\ cancelled \in BOOLEAN /\ gave_up \in BOOLEAN
  /\ ahead \in BOOLEAN /\ swapped \in BOOLEAN
  /\ MainIndex

Stages == PlaneStages \cup {"idle", "cursor", "pipe", "ramless", "rm_ramless"}
ClearOK ==
  /\ clr \in [Threads -> [stage : Stages, frame : Frames, y : Planes \cup {0}]]
  /\ ClearIndex

FieldsOK ==
  /\ plane \in [Frames -> [Planes -> PlaneRec(made)]]
  /\ cursor \in [Frames -> 0 .. made]
  /\ pipe \in [Frames -> [Pipes -> PipeRec(made)]]

PoolOK ==
  /\ made \in Nat /\ bos \subseteq 1 .. made /\ unmapped \subseteq 0 .. made
  /\ fbs \in [FbIds -> 0 .. made]
  /\ wb_stripe \in PipeRec(made) /\ plane_bo \in 0 .. made
  /\ ramless_fb_id \in FbIds0 /\ ramless_value \in FbIds0 /\ fb_inuse \in BOOLEAN

DataOK == commit_done \in [Frames -> BOOLEAN] /\ PoolOK /\ FieldsOK

LEMMA Types == TypeInv <=> MainOK /\ ClearOK /\ DataOK
  BY DEF TypeInv, TypeOK, MainOK, ClearOK, DataOK, PoolOK, FieldsOK, Working, Stages, PlaneStages,
         FbIds0, PlaneRec, PipeRec

\* What the constants say of a run.
LEMMA Run ==
  ASSUME MainOK
  PROVE  /\ setup.num \in 1 .. Num /\ setup.is_stream \in BOOLEAN /\ setup.use_vcmd \in BOOLEAN
         /\ setup.recycle \in Nat \ {0} /\ setup.cursor \in BOOLEAN
         /\ setup.wb \in [Frames -> {"normal", "stripe", "ramless"}]
         /\ setup.ramless \in [Frames -> {"absent", "on", "off"}]
         /\ setup.faults \in SUBSET AllFaults
<1>1. setup \in Setup
  BY SetupAssumption DEF MainOK
<1> QED
  BY <1>1 DEF Setup

LEMMA Sizes ==
  /\ Num \in Nat \ {0} /\ NumPipes \in Nat \ {0} /\ NumPlanes \in Nat \ {0}
  /\ 0 \in Frames /\ 0 \in Planes /\ 0 \in Pipes /\ Pipes \subseteq Planes
  BY SizeAssumption DEF Frames, Planes, Pipes

\* A new framebuffer has a free id.
LEMMA NewFbIsFree ==
  ASSUME FreeIds # {}
  PROVE  NewFb \in FbIds /\ fbs[NewFb] = 0
<1>1. FreeIds \subseteq Nat
  BY SizeAssumption DEF FreeIds, FbIds
<1>2. \E id \in FreeIds : \A id2 \in FreeIds : id <= id2
  BY <1>1, Least
<1>3. NewFb \in FreeIds
  BY <1>2 DEF NewFb
<1> QED
  BY <1>3 DEF FreeIds
-----------------------------------------------------------------------------
LEMMA SetsLeave ==
  ASSUME SetPlane \/ SetPlaneFails
  PROVE  swapped /\ ~swapped' /\ swapped' \in BOOLEAN /\ plane_bo' = 0
<1>1. swapped /\ swapped' = FALSE /\ plane_bo' = 0
  BY DEF SetPlane, SetPlaneFails, LeavePlane
<1> QED
  BY <1>1, Zenon

LEMMA MainOKStep == MainOK /\ [Next]_vars => MainOK'
<1> SUFFICES ASSUME MainOK, [Next]_vars PROVE MainOK'
  OBVIOUS
<1> USE Run, Sizes
    DEF MainOK, MainIndex, Working, mainVars, dumpVars, histVars, swapVars, Frames, Planes, Pipes
<1>1. CASE UNCHANGED <<setup, mainVars, swapVars, dpc, k, gave_up, ahead>>
  BY <1>1
<1>2. CASE CreateWb
  <2>1. /\ pc = "create_wb"
        /\ UNCHANGED <<setup, swapVars, round, i, status, cancelled, dpc, k, gave_up, ahead>>
    BY <1>2 DEF CreateWb
  <2>2. CASE x' = x + 1 /\ x + 1 < NumPipes /\ UNCHANGED pc
    BY <2>1, <2>2
  <2>3. CASE x' = 0 /\ pc' = "create_plane"
    BY <2>1, <2>3
  <2> QED
    BY <1>2, <2>2, <2>3 DEF CreateWb
<1>3. CASE CreatePlane
  <2>1. /\ pc = "create_plane" /\ ~swapped' /\ swapped' \in BOOLEAN /\ plane_bo' = 0
        /\ UNCHANGED <<setup, round, status, cancelled, k, gave_up, ahead>>
    BY <1>3, SetsLeave DEF CreatePlane
  <2>2. CASE x' = x + 1 /\ x + 1 < NumPipes /\ UNCHANGED <<pc, i, dpc>>
    BY <2>1, <2>2
  <2>3. CASE x' = 0 /\ i' = i + 1 /\ i + 1 < setup.num /\ pc' = "create_wb" /\ UNCHANGED dpc
    BY <2>1, <2>3
  <2>4. CASE x' = 0 /\ i' = 0 /\ pc' = "props" /\ dpc' = "wait"
    BY <2>1, <2>4
  <2> QED
    BY <1>3, <2>2, <2>3, <2>4 DEF CreatePlane
<1>4. CASE CreateFails
  <2>1. /\ pc \in {"create_wb", "create_plane"} /\ pc' = "final" /\ status' = FALSE
        /\ UNCHANGED <<setup, round, i, x, cancelled, dpc, k, gave_up, ahead>>
    BY <1>4 DEF CreateFails, Fails
  <2>2. ~swapped' /\ swapped' \in BOOLEAN /\ plane_bo' = 0
    BY <1>4, SetsLeave DEF CreateFails
  <2> QED
    BY <2>1, <2>2
<1>5. CASE SetProps
  BY <1>5 DEF SetProps
<1>6. CASE SetPropsFails
  BY <1>6 DEF SetPropsFails, SetFrameFails, Fails
<1>7. CASE SetWb
  <2>1. /\ pc = "wb"
        /\ UNCHANGED <<setup, swapVars, round, i, status, cancelled, dpc, k, gave_up, ahead>>
    BY <1>7 DEF SetWb
  <2>2. CASE x' = x + 1 /\ x + 1 < NumPipes /\ UNCHANGED pc
    BY <2>1, <2>2
  <2>3. CASE x' = 0 /\ pc' = "planes"
    BY <2>1, <2>3
  <2> QED
    BY <1>7, <2>2, <2>3 DEF SetWb
<1>8. CASE SetPlanes
  <2>1. /\ pc = "planes" /\ ~swapped' /\ swapped' \in BOOLEAN /\ plane_bo' = 0
        /\ UNCHANGED <<setup, round, i, status, cancelled, dpc, k, gave_up, ahead>>
    BY <1>8, SetsLeave DEF SetPlanes
  <2>2. CASE x' = x + 1 /\ x + 1 < NumPlanes /\ UNCHANGED pc
    BY <2>1, <2>2
  <2>3. CASE x' = 0 /\ pc' = "cursor"
    BY <2>1, <2>3
  <2> QED
    BY <1>8, <2>2, <2>3 DEF SetPlanes
<1>9. CASE SetBuffersFails
  <2>1. /\ pc \in {"wb", "planes"} /\ pc' = "cancel" /\ status' = FALSE
        /\ UNCHANGED <<setup, round, i, x, cancelled, dpc, k, gave_up, ahead>>
    BY <1>9 DEF SetBuffersFails, SetFrameFails, Fails
  <2>2. ~swapped' /\ swapped' \in BOOLEAN /\ plane_bo' = 0
    BY <1>9, SetsLeave DEF SetBuffersFails
  <2> QED
    BY <2>1, <2>2
<1>10. CASE SetCursor
  BY <1>10 DEF SetCursor
<1>11. CASE SetCursorFails
  BY <1>11 DEF SetCursorFails, SetFrameFails, Fails
<1>12. CASE Commit
  BY <1>12 DEF Commit
<1>13. CASE CommitFails
  BY <1>13 DEF CommitFails, SetFrameFails, Fails
<1>14. CASE Cancel
  BY <1>14 DEF Cancel
<1>15. CASE Join
  BY <1>15 DEF Join
<1>16. CASE Final
  BY <1>16 DEF Final
<1>17. CASE DumpThread
  <2>1. UNCHANGED <<setup, mainVars, swapVars>>
    BY <1>17 DEF DumpThread, DumpTakes, Dump, DumpFails, DumpNext, DumpEnds, DumpDies
  <2>2. /\ dpc' \in {"none", "wait", "dump", "next", "last", "exit"} /\ gave_up' \in BOOLEAN
        /\ ahead' \in BOOLEAN
        /\ k' = k \/ (k' = k + 1 /\ k + 1 < setup.num)
    <3>1. CASE DumpNext
      BY <3>1 DEF DumpNext
    <3>2. CASE DumpTakes
      BY <3>2 DEF DumpTakes
    <3>3. CASE Dump \/ DumpFails \/ DumpEnds \/ DumpDies
      BY <3>3 DEF Dump, DumpFails, DumpEnds, DumpDies
    <3> QED
      BY <1>17, <3>1, <3>2, <3>3 DEF DumpThread
  <2> QED
    BY <2>1, <2>2
<1>18. ASSUME NEW t \in Threads, Clear(t) PROVE MainOK'
  <2>1. UNCHANGED <<setup, mainVars, swapVars, dpc, k, gave_up, ahead>>
    BY <1>18 DEF Clear, ClearCursor, ClearFbId, ClearOldFbId, ClearBo, ClearOldBo, ClearPipe,
                 ClearRamless, ClearRmRamless
  <2> QED
    BY <1>1, <2>1
<1>19. CASE UNCHANGED vars
  BY <1>1, <1>19 DEF vars
<1>20. CASE SwapBos
  BY <1>20 DEF SwapBos
<1> QED
  BY <1>2, <1>3, <1>4, <1>5, <1>6, <1>7, <1>8, <1>9, <1>10, <1>11, <1>12, <1>13, <1>14, <1>15,
     <1>16, <1>17, <1>18, <1>19, <1>20
  DEF Next, Main

LEMMA ClearOKStep == MainOK /\ ClearOK /\ [Next]_vars => ClearOK'
<1> SUFFICES ASSUME MainOK, ClearOK, [Next]_vars PROVE ClearOK'
  OBVIOUS
<1> USE Sizes DEF ClearOK, ClearIndex, Stages, PlaneStages
<1>1. CASE UNCHANGED clr
  BY <1>1
<1>2. ASSUME NEW t \in Threads, NEW f \in Frames, ClearFrame(t, f) PROVE ClearOK'
  BY <1>2 DEF ClearFrame
<1>3. ASSUME NEW t \in Threads, NEW g \in Stages, NEW n \in Planes \cup {0}, Stage(t, g, n),
             g \in PlaneStages => n \in Planes, g = "pipe" => n \in Pipes
      PROVE  ClearOK'
  <2>1. clr' \in [Threads -> [stage : Stages, frame : Frames, y : Planes \cup {0}]]
    <3> DEFINE Places == [stage : Stages, frame : Frames, y : Planes \cup {0}]
               r == [clr[t] EXCEPT !.stage = g, !.y = n]
    <3>1. clr \in [Threads -> Places] /\ r \in Places
      OBVIOUS
    <3>2. clr' = [clr EXCEPT ![t] = r]
      BY <1>3 DEF Stage
    <3> HIDE DEF r
    <3> QED
      BY <3>1, <3>2
  <2>2. clr'[t].stage = g /\ clr'[t].y = n
    BY <1>3 DEF Stage
  <2>3. \A t2 \in Threads : t2 # t => clr'[t2] = clr[t2]
    BY <1>3 DEF Stage
  <2> QED
    BY <1>3, <2>1, <2>2, <2>3
<1>4. ASSUME NEW t \in Threads, ClearReturns(t) PROVE ClearOK'
  BY <1>4 DEF ClearReturns, Idle
<1>5. CASE SetPropsFails \/ SetBuffersFails \/ SetCursorFails \/ CommitFails
  <2>1. SetFrameFails
    BY <1>5 DEF SetPropsFails, SetBuffersFails, SetCursorFails, CommitFails
  <2>2. CASE ~setup.is_stream /\ i > 0
    <3>1. i - 1 \in Frames /\ "main" \in Threads
      BY <2>2 DEF MainOK, Frames, Threads
    <3> QED
      BY <1>2, <2>1, <2>2, <3>1 DEF SetFrameFails
  <2>3. CASE ~(~setup.is_stream /\ i > 0)
    BY <1>1, <2>1, <2>3 DEF SetFrameFails
  <2> QED
    BY <2>2, <2>3
<1>6. CASE Final
  <2>1. (IF status THEN i - 1 ELSE i) \in Frames /\ "main" \in Threads
    BY <1>6, Run DEF Final, MainOK, MainIndex, Frames, Threads
  <2> QED
    BY <1>2, <1>6, <2>1 DEF Final
<1>7. CASE Dump \/ DumpNext
  <2>1. "dump" \in Threads /\ k \in Frames /\ (k > 0 => k - 1 \in Frames)
    BY DEF MainOK, Frames, Threads
  <2> QED
    BY <1>1, <1>2, <1>7, <2>1 DEF Dump, DumpNext
<1>8. ASSUME NEW t \in Threads, Clear(t) PROVE ClearOK'
  <2>1. CASE ClearCursor(t)
    BY <1>3, <2>1 DEF ClearCursor
  <2>2. CASE ClearFbId(t)
    BY <1>3, <2>2 DEF ClearFbId
  <2>3. CASE ClearOldFbId(t)
    BY <1>3, <2>3 DEF ClearOldFbId
  <2>7. CASE ClearBo(t)
    BY <1>3, <2>7 DEF ClearBo
  <2>8. CASE ClearOldBo(t)
    <3>1. clr[t].y + 1 < NumPlanes => clr[t].y + 1 \in Planes
      BY DEF Planes
    <3> QED
      BY <1>3, <2>8, <3>1 DEF ClearOldBo
  <2>4. CASE ClearPipe(t)
    <3>1. clr[t].y + 1 < NumPipes => clr[t].y + 1 \in Pipes
      BY DEF Planes, Pipes
    <3> QED
      BY <1>3, <2>4, <3>1 DEF ClearPipe
  <2>5. CASE ClearRamless(t)
    BY <1>3, <1>4, <2>5 DEF ClearRamless
  <2>6. CASE ClearRmRamless(t)
    BY <1>4, <2>6 DEF ClearRmRamless
  <2> QED
    BY <1>8, <2>1, <2>2, <2>3, <2>4, <2>5, <2>6, <2>7, <2>8 DEF Clear
<1>9. CASE CreateWb \/ SwapBos \/ CreatePlane \/ CreateFails \/ SetProps \/ SetWb \/ SetPlanes \/ SetCursor
           \/ Commit \/ Cancel \/ Join
  BY <1>1, <1>9 DEF CreateWb, SwapBos, CreatePlane, CreateFails, SetProps, SetWb, SetPlanes,
                    SetCursor, Commit, Cancel, Join
<1>10. CASE DumpTakes \/ DumpFails \/ DumpEnds \/ DumpDies
  BY <1>1, <1>10 DEF DumpTakes, DumpFails, DumpEnds, DumpDies
<1>11. CASE UNCHANGED vars
  BY <1>1, <1>11 DEF vars
<1> QED
  BY <1>5, <1>6, <1>7, <1>8, <1>9, <1>10, <1>11 DEF Next, Main, DumpThread

-----------------------------------------------------------------------------
(* The fields and what they hold; what exists.                             *)

\* With more buffers made, every number of one still is the number of one.
LEMMA FieldsGrow ==
  ASSUME FieldsOK, made \in Nat, made' \in Nat, made <= made',
         UNCHANGED fieldVars
  PROVE  FieldsOK'
  BY DEF FieldsOK, fieldVars, PlaneRec, PipeRec

LEMMA PlanePut ==
  ASSUME FieldsOK, made \in Nat, made' \in Nat, made <= made', UNCHANGED <<cursor, pipe>>,
         NEW f \in Frames, NEW p \in Planes, NEW r \in PlaneRec(made'),
         plane' = [plane EXCEPT ![f][p] = r]
  PROVE  FieldsOK'
<1>1. plane \in [Frames -> [Planes -> PlaneRec(made')]]
  BY DEF FieldsOK, PlaneRec
<1>2. plane' \in [Frames -> [Planes -> PlaneRec(made')]]
  BY <1>1
<1> QED
  BY <1>2 DEF FieldsOK, PlaneRec, PipeRec

LEMMA PipePut ==
  ASSUME FieldsOK, made \in Nat, made' \in Nat, made <= made', UNCHANGED <<plane, cursor>>,
         NEW f \in Frames, NEW q \in Pipes, NEW r \in PipeRec(made'),
         pipe' = [pipe EXCEPT ![f][q] = r]
  PROVE  FieldsOK'
<1>1. pipe \in [Frames -> [Pipes -> PipeRec(made')]]
  BY DEF FieldsOK, PipeRec
<1>2. pipe' \in [Frames -> [Pipes -> PipeRec(made')]]
  BY <1>1
<1> QED
  BY <1>2 DEF FieldsOK, PlaneRec, PipeRec

LEMMA CursorPut ==
  ASSUME FieldsOK, made \in Nat, made' \in Nat, made <= made', UNCHANGED <<plane, pipe>>,
         NEW f \in Frames, NEW b \in 0 .. made', cursor' = [cursor EXCEPT ![f] = b]
  PROVE  FieldsOK'
  BY DEF FieldsOK, PlaneRec, PipeRec

LEMMA MakesOne ==
  ASSUME PoolOK, MakeBo
  PROVE  /\ made' = made + 1 /\ NewBo = made + 1 /\ NewBo \in 1 .. made'
         /\ bos' \subseteq 1 .. made' /\ unmapped \subseteq 0 .. made'
         /\ fbs \in [FbIds -> 0 .. made'] /\ wb_stripe \in PipeRec(made')
         /\ plane_bo \in 0 .. made'
  BY DEF PoolOK, MakeBo, NewBo, PipeRec

LEMMA MakesBoth ==
  ASSUME PoolOK, BoFbCreate
  PROVE  fbs' \in [FbIds -> 0 .. made'] /\ NewFb \in FbIds /\ MakeBo
  BY MakesOne, NewFbIsFree DEF BoFbCreate, AddFB

LEMMA CreateFailed ==
  ASSUME PoolOK, BoFbCreateFails, UNCHANGED <<unmapped, devVars>>, plane_bo' \in {0, plane_bo}
  PROVE  PoolOK' /\ made <= made' /\ made' \in Nat
<1>1. CASE UNCHANGED <<bos, made>>
  BY <1>1 DEF BoFbCreateFails, PoolOK, devVars, PipeRec
<1>2. CASE MakeBo
  BY <1>2, MakesOne DEF BoFbCreateFails, PoolOK, devVars, PipeRec
<1> QED
  BY <1>1, <1>2 DEF BoFbCreateFails

LEMMA Removes ==
  ASSUME PoolOK, NEW id, RmFB(id)
  PROVE  fbs' \in [FbIds -> 0 .. made]
  BY DEF PoolOK, RmFB

\* The plane gets the buffer that is made for it, or main's local one.
LEMMA SetsPlane ==
  ASSUME PoolOK, FieldsOK, i \in Frames, x \in Planes, SetPlane, UNCHANGED <<cursor, pipe>>,
         UNCHANGED <<unmapped, devVars>>
  PROVE  PoolOK' /\ FieldsOK'
<1> DEFINE p == plane[i][x]
<1>0. plane_bo' = 0
  BY SetsLeave
<1>1. p \in PlaneRec(made)
  BY DEF FieldsOK
<1>2. CASE BoFbCreate /\ plane' = [plane EXCEPT ![i][x] = PlaneSet(p, NewBo, NewFb)]
  <2>1. MakeBo /\ fbs' \in [FbIds -> 0 .. made'] /\ NewFb \in FbIds
    BY <1>2, MakesBoth
  <2>2. made' = made + 1 /\ NewBo \in 1 .. made' /\ made \in Nat
    BY <2>1, MakesOne DEF PoolOK
  <2>3. PlaneSet(p, NewBo, NewFb) \in PlaneRec(made')
    <3>1. p \in PlaneRec(made') /\ NewBo \in 0 .. made' /\ NewFb \in FbIds0
      BY <1>1, <2>1, <2>2 DEF PlaneRec, FbIds0
    <3> HIDE DEF p
    <3> QED
      BY <3>1 DEF PlaneSet, PlaneRec
  <2>4. FieldsOK'
    <3> DEFINE r == PlaneSet(p, NewBo, NewFb)
    <3>1. r \in PlaneRec(made') /\ plane' = [plane EXCEPT ![i][x] = r]
      BY <1>2, <2>3
    <3>2. made \in Nat /\ made' \in Nat /\ made <= made'
      BY <2>2
    <3> HIDE DEF r
    <3> QED
      BY <3>1, <3>2, PlanePut
  <2>5. PoolOK'
    BY <1>0, <2>1, <2>2, MakesOne DEF PoolOK, devVars
  <2> QED
    BY <2>4, <2>5
<1>3. CASE UNCHANGED poolVars /\ plane' = [plane EXCEPT ![i][x] = PlaneSet(p, plane_bo, p.fb_id)]
  <2>1. PlaneSet(p, plane_bo, p.fb_id) \in PlaneRec(made') /\ made' = made /\ made \in Nat
    BY <1>1, <1>3 DEF PlaneSet, PlaneRec, poolVars, PoolOK
  <2>2. FieldsOK'
    <3> DEFINE r == PlaneSet(p, plane_bo, p.fb_id)
    <3>1. r \in PlaneRec(made') /\ plane' = [plane EXCEPT ![i][x] = r]
      BY <1>3, <2>1
    <3>2. made \in Nat /\ made' \in Nat /\ made <= made'
      BY <2>1
    <3> HIDE DEF r
    <3> QED
      BY <3>1, <3>2, PlanePut
  <2> QED
    BY <1>0, <1>3, <2>2 DEF PoolOK, poolVars, devVars
<1> QED
  BY <1>2, <1>3 DEF SetPlane

\* A thread that clears a plane writes one field of it.
ClearPlane(t) == ClearFbId(t) \/ ClearOldFbId(t) \/ ClearBo(t) \/ ClearOldBo(t)
Or0(t, stage, n) == IF clr[t].stage = stage THEN 0 ELSE n
LEMMA PlaneCleared ==
  ASSUME ClearOK, FieldsOK, made \in Nat, NEW t \in Threads, ClearPlane(t)
  PROVE  \E f \in Frames, y \in Planes, r \in PlaneRec(made) :
           /\ f = clr[t].frame /\ y = clr[t].y /\ clr[t].stage \in PlaneStages
           /\ plane' = [plane EXCEPT ![f][y] = r] /\ UNCHANGED <<cursor, pipe, made, ramless_fb_id>>
           /\ r.fb_id = Or0(t, "fb_id", plane[f][y].fb_id)
           /\ r.old_fb_id = Or0(t, "old_fb_id", plane[f][y].old_fb_id)
           /\ r.bo = Or0(t, "bo", plane[f][y].bo)
           /\ r.old_bo = Or0(t, "old_bo", plane[f][y].old_bo)
<1>1. clr[t].frame \in Frames /\ clr[t].y \in Planes /\ clr[t].stage \in PlaneStages
  BY DEF ClearPlane, ClearFbId, ClearOldFbId, ClearBo, ClearOldBo, ClearOK, ClearIndex, PlaneStages
<1>2. PICK f \in Frames, y \in Planes : f = clr[t].frame /\ y = clr[t].y
  BY <1>1
<1>3. plane[f][y] \in PlaneRec(made)
  BY DEF FieldsOK
<1>4. UNCHANGED <<cursor, pipe, made, ramless_fb_id>>
  BY DEF ClearPlane, ClearFbId, ClearOldFbId, ClearBo, ClearOldBo, devVars
<1>5. CASE ClearFbId(t)
  <2>1. PICK r : r = [plane[f][y] EXCEPT !.fb_id = 0]
    OBVIOUS
  <2>2. plane' = [plane EXCEPT ![f][y] = r] /\ clr[t].stage = "fb_id"
    BY <1>2, <1>5, <2>1 DEF ClearFbId
  <2>3. r \in PlaneRec(made) /\ r.fb_id = 0 /\ r.old_fb_id = plane[f][y].old_fb_id
        /\ r.bo = plane[f][y].bo /\ r.old_bo = plane[f][y].old_bo
    BY <1>3, <2>1 DEF PlaneRec, FbIds0
  <2> QED
    BY <1>1, <1>2, <1>4, <2>2, <2>3 DEF Or0
<1>6. CASE ClearOldFbId(t)
  <2>1. PICK r : r = [plane[f][y] EXCEPT !.old_fb_id = 0]
    OBVIOUS
  <2>2. plane' = [plane EXCEPT ![f][y] = r] /\ clr[t].stage = "old_fb_id"
    BY <1>2, <1>6, <2>1 DEF ClearOldFbId
  <2>3. r \in PlaneRec(made) /\ r.old_fb_id = 0 /\ r.fb_id = plane[f][y].fb_id
        /\ r.bo = plane[f][y].bo /\ r.old_bo = plane[f][y].old_bo
    BY <1>3, <2>1 DEF PlaneRec, FbIds0
  <2> QED
    BY <1>1, <1>2, <1>4, <2>2, <2>3 DEF Or0
<1>7. CASE ClearBo(t)
  <2>1. PICK r : r = [plane[f][y] EXCEPT !.bo = 0]
    OBVIOUS
  <2>2. plane' = [plane EXCEPT ![f][y] = r] /\ clr[t].stage = "bo"
    BY <1>2, <1>7, <2>1 DEF ClearBo
  <2>3. r \in PlaneRec(made) /\ r.bo = 0 /\ r.old_bo = plane[f][y].old_bo
        /\ r.fb_id = plane[f][y].fb_id /\ r.old_fb_id = plane[f][y].old_fb_id
    BY <1>3, <2>1 DEF PlaneRec
  <2> QED
    BY <1>1, <1>2, <1>4, <2>2, <2>3 DEF Or0
<1>8. CASE ClearOldBo(t)
  <2>1. PICK r : r = [plane[f][y] EXCEPT !.old_bo = 0]
    OBVIOUS
  <2>2. plane' = [plane EXCEPT ![f][y] = r] /\ clr[t].stage = "old_bo"
    BY <1>2, <1>8, <2>1 DEF ClearOldBo
  <2>3. r \in PlaneRec(made) /\ r.old_bo = 0 /\ r.bo = plane[f][y].bo
        /\ r.fb_id = plane[f][y].fb_id /\ r.old_fb_id = plane[f][y].old_fb_id
    BY <1>3, <2>1 DEF PlaneRec
  <2> QED
    BY <1>1, <1>2, <1>4, <2>2, <2>3 DEF Or0
<1> QED
  BY <1>5, <1>6, <1>7, <1>8 DEF ClearPlane

LEMMA DataOKStep == MainOK /\ ClearOK /\ DataOK /\ [Next]_vars => DataOK'
<1> SUFFICES ASSUME MainOK, ClearOK, DataOK, [Next]_vars PROVE DataOK'
  OBVIOUS
<1> USE Sizes DEF DataOK, histVars, swapVars
<1>1. ASSUME UNCHANGED commit_done, PoolOK', FieldsOK' PROVE DataOK'
  BY <1>1
<1>2. ASSUME UNCHANGED <<fieldVars, poolVars, devVars, unmapped>>, commit_done' \in [Frames -> BOOLEAN],
             UNCHANGED plane_bo
      PROVE  DataOK'
  BY <1>2 DEF PoolOK, FieldsOK, fieldVars, poolVars, devVars
<1>3. i \in 0 .. Num /\ k \in Frames /\ x \in Planes \cup {0} /\ made \in Nat
  BY DEF MainOK, PoolOK
<1>4. pc \in Working => i \in Frames
  BY <1>3, Run DEF MainOK, MainIndex, Frames
\* main makes buffers.
<1>5. CASE CreateWb
  <2>1. x \in Pipes /\ i \in Frames
    BY <1>4, <1>5 DEF CreateWb, MainOK, MainIndex, Working
  <2>2. MakeBo /\ fbs' \in [FbIds -> 0 .. made'] /\ NewFb \in FbIds
    BY <1>5, MakesBoth DEF CreateWb
  <2>3. made' = made + 1 /\ NewBo \in 1 .. made'
    BY <2>2, MakesOne
  <2> DEFINE r == [out_bo |-> NewBo, out_fb_id |-> NewFb]
  <2>4. r \in PipeRec(made') /\ pipe' = [pipe EXCEPT ![i][x] = r] /\ UNCHANGED <<plane, cursor>>
    BY <1>5, <2>2, <2>3 DEF CreateWb, PipeRec, FbIds0
  <2>5. FieldsOK'
    <3>1. made' \in Nat /\ made <= made'
      BY <1>3, <2>3
    <3> HIDE DEF r
    <3> QED
      BY <1>3, <2>1, <2>4, <3>1, PipePut
  <2>6. PoolOK'
    BY <1>5, <2>2, <2>3, MakesOne DEF CreateWb, PoolOK, devVars, dumpVars
  <2> QED
    BY <1>1, <1>5, <2>5, <2>6 DEF CreateWb
<1>6. CASE CreatePlane \/ SetPlanes
  <2>1. x \in Planes /\ i \in Frames
    BY <1>4, <1>6 DEF CreatePlane, SetPlanes, MainOK, MainIndex, Working
  <2>2. SetPlane /\ UNCHANGED <<cursor, pipe, unmapped, devVars, commit_done>>
    BY <1>6 DEF CreatePlane, SetPlanes, dumpVars
  <2>3. PoolOK' /\ FieldsOK'
    BY <2>1, <2>2, SetsPlane
  <2> QED
    BY <1>1, <2>2, <2>3
<1>7. CASE CreateFails \/ SetBuffersFails
  <2>1. UNCHANGED <<plane, cursor, pipe, unmapped, devVars, commit_done>> /\ BoFbCreateFails
    BY <1>7 DEF CreateFails, SetBuffersFails, SetPlaneFails, dumpVars
  <2>2. plane_bo' \in {0, plane_bo}
    BY <1>7 DEF CreateFails, SetBuffersFails, SetPlaneFails, LeavePlane
  <2>3. PoolOK' /\ made <= made' /\ made' \in Nat
    BY <2>1, <2>2, CreateFailed
  <2>4. FieldsOK'
    BY <1>3, <2>1, <2>3, FieldsGrow DEF fieldVars
  <2> QED
    BY <1>1, <2>1, <2>3, <2>4
<1>17. CASE SwapBos
  <2>1. x \in Planes /\ i \in Frames
    BY <1>4, <1>17 DEF SwapBos, MainOK, MainIndex, Working
  <2>2. PICK r : r = [plane[i][x] EXCEPT !.old_bo = plane[i][x].bo]
    OBVIOUS
  <2>3. plane[i][x] \in PlaneRec(made)
    BY <2>1 DEF FieldsOK
  <2>4. r \in PlaneRec(made') /\ made' = made
    BY <1>17, <2>2, <2>3 DEF SwapBos, PlaneRec, poolVars
  <2>5. plane' = [plane EXCEPT ![i][x] = r] /\ UNCHANGED <<cursor, pipe>>
    BY <1>17, <2>2 DEF SwapBos
  <2>6. FieldsOK'
    <3>1. made' \in Nat /\ made <= made'
      BY <1>3, <2>4
    <3> QED
      BY <1>3, <2>1, <2>4, <2>5, <3>1, PlanePut
  <2>7. plane_bo' \in 0 .. made
    BY <1>17, <2>3 DEF SwapBos, PlaneRec
  <2>8. UNCHANGED <<unmapped, poolVars, devVars, commit_done>>
    BY <1>17 DEF SwapBos, dumpVars
  <2> QED
    BY <2>6, <2>7, <2>8 DEF PoolOK, poolVars, devVars
<1>8. CASE SetProps
  <2>1. UNCHANGED <<commit_done, plane, cursor, pipe, wb_stripe, ramless_fb_id, bos, made, fbs,
                    unmapped, plane_bo>>
    BY <1>8 DEF SetProps, fieldVars, poolVars, dumpVars
  <2>2. fb_inuse' \in BOOLEAN /\ ramless_value' \in FbIds0
    <3>1. setup.ramless[i] \in {"absent", "on", "off"}
      BY <1>4, <1>8, Run DEF SetProps, Working
    <3> QED
      BY <1>8, <3>1 DEF SetProps, PoolOK, FbIds0
  <2> QED
    BY <2>1, <2>2 DEF PoolOK, FieldsOK
<1>9. CASE SetWb
  <2>1. x \in Pipes /\ i \in Frames
    BY <1>4, <1>9 DEF SetWb, MainOK, MainIndex, Working
  <2>2. UNCHANGED <<commit_done, plane, cursor, fb_inuse, ramless_value, unmapped, plane_bo>>
    BY <1>9 DEF SetWb, dumpVars
  <2>3. ASSUME BoFbCreate, pipe' = [pipe EXCEPT ![i][x] = [out_bo |-> NewBo, out_fb_id |-> NewFb]],
               wb_stripe' \in {wb_stripe, [out_bo |-> NewBo, out_fb_id |-> NewFb]},
               ramless_fb_id' \in {ramless_fb_id, NewFb}
        PROVE  PoolOK' /\ FieldsOK'
    <3>2. MakeBo /\ fbs' \in [FbIds -> 0 .. made'] /\ NewFb \in FbIds
      BY <2>3, MakesBoth
    <3>3. made' = made + 1 /\ NewBo \in 1 .. made'
      BY <3>2, MakesOne
    <3> DEFINE r == [out_bo |-> NewBo, out_fb_id |-> NewFb]
    <3>4. r \in PipeRec(made') /\ pipe' = [pipe EXCEPT ![i][x] = r]
      BY <2>3, <3>2, <3>3 DEF PipeRec, FbIds0
    <3>5. FieldsOK'
      <4>1. made' \in Nat /\ made <= made'
        BY <1>3, <3>3
      <4> HIDE DEF r
      <4> QED
        BY <1>3, <2>1, <2>2, <3>4, <4>1, PipePut
    <3>6. wb_stripe' \in PipeRec(made')
      BY <2>3, <3>2, <3>4, MakesOne
    <3>7. ramless_fb_id' \in FbIds0
      BY <2>3, <3>2 DEF PoolOK, FbIds0
    <3>8. made' \in Nat /\ bos' \subseteq 1 .. made' /\ unmapped' \subseteq 0 .. made'
          /\ plane_bo' \in 0 .. made'
      BY <1>3, <2>2, <3>2, <3>3, MakesOne
    <3> QED
      BY <2>2, <3>2, <3>5, <3>6, <3>7, <3>8 DEF PoolOK
  <2>4. CASE PipeWb
    BY <1>1, <2>2, <2>3, <2>4 DEF PipeWb
  <2>5. CASE StripeWb /\ BoFbCreate /\ wb_stripe' = [out_bo |-> NewBo, out_fb_id |-> NewFb]
    BY <1>1, <2>2, <2>3, <2>5 DEF StripeWb
  <2>6. CASE StripeWb /\ UNCHANGED <<poolVars, wb_stripe>>
    <3> DEFINE r == wb_stripe
    <3>1. r \in PipeRec(made') /\ pipe' = [pipe EXCEPT ![i][x] = r] /\ UNCHANGED <<made, ramless_fb_id>>
      BY <2>6 DEF StripeWb, PoolOK, poolVars
    <3>2. FieldsOK'
      <4>1. made' \in Nat /\ made <= made'
        BY <1>3, <3>1
      <4> HIDE DEF r
      <4> QED
        BY <1>3, <2>1, <2>2, <3>1, <4>1, PipePut
    <3>3. PoolOK'
      BY <2>2, <2>6, <3>1 DEF PoolOK, poolVars
    <3> QED
      BY <1>1, <2>2, <3>2, <3>3
  <2> QED
    BY <1>9, <2>4, <2>5, <2>6 DEF SetWb, StripeWb
<1>10. CASE SetCursor \/ SetCursorFails
  <2>1. i \in Frames /\ UNCHANGED <<commit_done, plane, pipe, devVars, fbs, unmapped, plane_bo>>
    BY <1>4, <1>10 DEF SetCursor, SetCursorFails, Working, dumpVars
  <2>2. CASE MakeBo /\ cursor' = [cursor EXCEPT ![i] = NewBo]
    <3>1. made' = made + 1 /\ NewBo \in 1 .. made'
      BY <2>2, MakesOne
    <3>2. FieldsOK'
      <4>1. made' \in Nat /\ made <= made' /\ NewBo \in 0 .. made'
        BY <1>3, <3>1
      <4> QED
        BY <1>3, <2>1, <2>2, <4>1, CursorPut
    <3>3. PoolOK'
      BY <2>1, <2>2, <3>1, MakesOne DEF PoolOK, devVars
    <3> QED
      BY <1>1, <2>1, <3>2, <3>3
  <2>3. CASE UNCHANGED <<bos, made, cursor>>
    BY <2>1, <2>3 DEF PoolOK, FieldsOK, devVars
  <2> QED
    BY <1>10, <2>2, <2>3 DEF SetCursor, SetCursorFails
\* main and the dump thread publish, end and start.
<1>11. CASE Commit \/ DumpNext
  <2>1. commit_done' \in [Frames -> BOOLEAN]
    BY <1>11 DEF Commit, DumpNext
  <2> QED
    BY <1>2, <1>11, <2>1 DEF Commit, DumpNext, dumpVars
<1>12. CASE SetPropsFails \/ CommitFails \/ Cancel \/ Join \/ Final
  BY <1>2, <1>12 DEF SetPropsFails, CommitFails, Cancel, Join, Final, dumpVars
<1>13. CASE DumpTakes \/ Dump \/ DumpEnds \/ DumpDies
  BY <1>2, <1>13 DEF DumpTakes, Dump, DumpEnds, DumpDies
<1>14. CASE DumpFails
  <2>1. UNCHANGED <<commit_done, fieldVars, devVars, made, fbs, plane_bo>>
    BY <1>14 DEF DumpFails
  <2>2. CASE UNCHANGED <<bos, unmapped>>
    BY <2>1, <2>2 DEF PoolOK, FieldsOK, fieldVars, devVars
  <2>3. ASSUME NEW q \in Pipes, bos' = bos \ {pipe[k][q].out_bo},
               unmapped' = unmapped \cup {pipe[k][q].out_bo}
        PROVE  DataOK'
    <3>1. pipe[k][q].out_bo \in 0 .. made
      BY <1>3 DEF FieldsOK, PipeRec
    <3>2. bos' \subseteq 1 .. made /\ unmapped' \subseteq 0 .. made
      BY <2>3, <3>1 DEF PoolOK
    <3> QED
      BY <2>1, <3>2 DEF PoolOK, FieldsOK, fieldVars, devVars
  <2> QED
    BY <1>14, <2>2, <2>3 DEF DumpFails
\* A thread clears a frame.
<1>15. ASSUME NEW t \in Threads, Clear(t) PROVE DataOK'
  <2> DEFINE f == clr[t].frame  y == clr[t].y
  <2>1. f \in Frames /\ y \in Planes \cup {0}
    BY DEF ClearOK
  <2>2. UNCHANGED <<commit_done, made, unmapped, wb_stripe, fb_inuse, ramless_value, plane_bo>>
    BY <1>15 DEF Clear, ClearCursor, ClearFbId, ClearOldFbId, ClearBo, ClearOldBo, ClearPipe,
                 ClearRamless, ClearRmRamless, devVars, poolVars, dumpVars
  <2>3. ASSUME ramless_fb_id' \in FbIds0, bos' \subseteq bos, fbs' \in [FbIds -> 0 .. made], FieldsOK'
        PROVE  DataOK'
    BY <2>2, <2>3 DEF PoolOK
  <2>4. fbs \in [FbIds -> 0 .. made] /\ ramless_fb_id \in FbIds0
    BY DEF PoolOK
  <2>5. CASE ClearCursor(t)
    <3>1. FieldsOK'
      <4>1. made' \in Nat /\ made <= made' /\ 0 \in 0 .. made' /\ UNCHANGED <<plane, pipe>>
        BY <1>3, <2>2, <2>5 DEF ClearCursor
      <4>2. cursor' = [cursor EXCEPT ![f] = 0]
        BY <2>5 DEF ClearCursor
      <4> HIDE DEF f
      <4> QED
        BY <1>3, <2>1, <4>1, <4>2, CursorPut
    <3> QED
      BY <2>3, <2>4, <2>5, <3>1 DEF ClearCursor, devVars
  <2>6. CASE ClearPlane(t)
    <3>1. PICK g \in Frames, p \in Planes, r \in PlaneRec(made) :
            plane' = [plane EXCEPT ![g][p] = r] /\ UNCHANGED <<cursor, pipe, made, ramless_fb_id>>
      BY <1>3, <2>6, PlaneCleared
    <3>2. FieldsOK'
      <4>1. made' \in Nat /\ made <= made' /\ r \in PlaneRec(made')
        BY <1>3, <3>1
      <4> QED
        BY <1>3, <3>1, <4>1, PlanePut
    <3>3. bos' \subseteq bos /\ fbs' \in [FbIds -> 0 .. made]
      BY <2>4, <2>6, Removes DEF ClearPlane, ClearFbId, ClearOldFbId, ClearBo, ClearOldBo
    <3> QED
      BY <2>3, <2>4, <3>1, <3>2, <3>3
  <2>8. CASE ClearPipe(t)
    <3>1. y \in Pipes
      BY <2>8 DEF ClearPipe, ClearOK, ClearIndex
    <3>2. FieldsOK' /\ bos' \subseteq bos /\ fbs' \in [FbIds -> 0 .. made]
      <4>1. CASE UNCHANGED <<pipe, bos, fbs>>
        BY <2>4, <2>8, <4>1 DEF ClearPipe, FieldsOK
      <4>2. CASE setup.wb[f] # "stripe"
        <5> DEFINE s == pipe[f][y].out_fb_id = ramless_fb_id
                   r == [NoPipe EXCEPT !.out_fb_id = IF s THEN ramless_fb_id ELSE 0]
        <5>1. r \in PipeRec(made)
          BY <1>3, <2>4 DEF PipeRec, FbIds0, NoPipe
        <5>4. pipe' = [pipe EXCEPT ![f][y] = r]
          BY <2>8, <4>2 DEF ClearPipe
        <5>2. FieldsOK'
          <6>1. UNCHANGED <<plane, cursor>> /\ made' = made
            BY <2>8 DEF ClearPipe
          <6>2. made' \in Nat /\ made <= made' /\ r \in PipeRec(made')
            BY <1>3, <5>1, <6>1
          <6> HIDE DEF r, f, y
          <6> QED
            BY <1>3, <2>1, <3>1, <5>4, <6>1, <6>2, PipePut
        <5>3. fbs' \in [FbIds -> 0 .. made]
          BY <2>4, <2>8, <4>2, Removes DEF ClearPipe
        <5> QED
          BY <2>8, <4>2, <5>2, <5>3 DEF ClearPipe
      <4> QED
        BY <2>8, <4>1, <4>2 DEF ClearPipe
    <3> QED
      BY <2>3, <2>4, <2>8, <3>2 DEF ClearPipe, devVars
  <2>9. CASE ClearRamless(t)
    BY <1>2, <2>9 DEF ClearRamless, dumpVars
  <2>10. CASE ClearRmRamless(t)
    <3>1. FieldsOK'
      BY <2>10 DEF ClearRmRamless, FieldsOK, fieldVars
    <3> QED
      BY <2>3, <2>10, <3>1, Removes DEF ClearRmRamless, FbIds0
  <2> QED
    BY <1>15, <2>5, <2>6, <2>8, <2>9, <2>10 DEF Clear, ClearPlane
<1>16. CASE UNCHANGED vars
  BY <1>2, <1>16 DEF vars, dumpVars
<1> QED
  BY <1>5, <1>6, <1>7, <1>8, <1>9, <1>10, <1>11, <1>12, <1>13, <1>14, <1>15, <1>16, <1>17
  DEF Next, Main, DumpThread

LEMMA TypeInvInit == Init => TypeInv
<1> SUFFICES ASSUME Init PROVE MainOK /\ ClearOK /\ DataOK
  BY Types
<1>1. setup \in Setup
  BY SetupAssumption DEF Init
<1>2. MainOK
  <2>1. setup.num \in 1 .. Num /\ setup.recycle \in Nat \ {0}
    BY <1>1 DEF Setup
  <2>2. MainIndex
    BY <2>1, Sizes DEF Init, MainIndex, Working
  <2>3. setup \in Setups /\ round \in 1 .. setup.recycle /\ i \in 0 .. Num
    BY <2>1, Sizes DEF Init
  <2>4. pc \in Working /\ dpc \in {"none", "wait"} /\ x = 0 /\ k \in Frames
    BY Sizes DEF Init, Working
  <2>5. status \in BOOLEAN /\ cancelled \in BOOLEAN /\ gave_up \in BOOLEAN
        /\ ahead \in BOOLEAN /\ swapped \in BOOLEAN
    BY DEF Init
  <2> QED
    BY <2>2, <2>3, <2>4, <2>5 DEF MainOK
<1>3. ClearOK
  BY Sizes DEF Init, ClearOK, ClearIndex, Idle, Stages, PlaneStages
<1>4. DataOK
  <2>1. NoPlane \in PlaneRec(0) /\ NoPipe \in PipeRec(0)
    BY DEF NoPlane, NoPipe, PlaneRec, PipeRec, FbIds0
  <2>2. FieldsOK
    BY <2>1 DEF Init, FieldsOK
  <2>3. PoolOK
    <3>1. made = 0 /\ bos = {} /\ unmapped = {} /\ fbs \in [FbIds -> 0 .. 0]
      BY DEF Init
    <3>2. wb_stripe \in PipeRec(made) /\ plane_bo = 0 /\ fb_inuse \in BOOLEAN
      BY <2>1, <3>1 DEF Init
    <3>3. ramless_fb_id \in FbIds0 /\ ramless_value \in FbIds0
      BY DEF Init, FbIds0
    <3> QED
      BY <3>1, <3>2, <3>3 DEF PoolOK
  <2>4. commit_done \in [Frames -> BOOLEAN]
    BY DEF Init
  <2> QED
    BY <2>2, <2>3, <2>4 DEF DataOK
<1> QED
  BY <1>2, <1>3, <1>4

LEMMA TypeInvStep == TypeInv /\ [Next]_vars => TypeInv'
<1>1. MainOK /\ ClearOK /\ DataOK /\ [Next]_vars => (MainOK /\ ClearOK /\ DataOK)'
  BY MainOKStep, ClearOKStep, DataOKStep
<1>2. TypeInv' <=> (MainOK /\ ClearOK /\ DataOK)'
  BY Types, PTL
<1> QED
  BY <1>1, <1>2, Types

\* Every variable keeps its type, for any number of frames, planes and pipes, any
\* runs and any bound of the framebuffer ids.
THEOREM TypeCorrect == Spec => []TypeOK
<1>1. Spec => []TypeInv
  BY TypeInvInit, TypeInvStep, PTL DEF Spec
<1> QED
  BY <1>1, PTL DEF TypeInv
-----------------------------------------------------------------------------
(* Who owns a buffer.                                                      *)

LEMMA SetupStays == ASSUME [Next]_vars PROVE setup' = setup
  BY DEF Next, Main, DumpThread, Clear, vars, CreateWb, SwapBos, CreatePlane, CreateFails, SetProps,
         SetPropsFails, SetWb, SetPlanes, SetBuffersFails, SetCursor, SetCursorFails, Commit,
         CommitFails, Cancel, Join, Final, DumpTakes, Dump, DumpFails, DumpNext, DumpEnds,
         DumpDies, ClearCursor, ClearFbId, ClearOldFbId, ClearBo, ClearOldBo, ClearPipe,
         ClearRamless, ClearRmRamless

LEMMA FreshInvStep == MainOK /\ ClearOK /\ DataOK /\ FreshInv /\ [Next]_vars => FreshInv'
<1> SUFFICES ASSUME MainOK, ClearOK, DataOK, FreshInv, [Next]_vars, Creating' PROVE FreshInv'
  BY DEF FreshInv
<1> USE DEF FreshInv, Creating, ToMake
<1>1. /\ i \in Nat /\ x \in Nat /\ \A f \in Frames : f \in Nat
      /\ \A p \in Planes : p \in Nat
      /\ plane \in [Frames -> [Planes -> PlaneRec(made)]]
      /\ Creating => i \in Frames /\ x \in Planes
  BY Run, Sizes DEF MainOK, MainIndex, Working, DataOK, FieldsOK, Planes, Frames
<1>2. CASE CreateWb
  <2>1. UNCHANGED <<plane, plane_bo, i>> /\ pc = "create_wb"
    BY <1>2 DEF CreateWb, swapVars
  <2> QED
    BY <1>1, <2>1
<1>3. CASE SwapBos
  <2>1. /\ Creating /\ UNCHANGED <<pc, i, x>> /\ plane_bo' = plane[i][x].old_bo
        /\ plane' = [plane EXCEPT ![i][x].old_bo = plane[i][x].bo]
    BY <1>3 DEF SwapBos, mainVars
  <2>2. ToMake(i, x) /\ i \in Frames /\ x \in Planes
    BY <1>1, <2>1
  <2>3. plane[i][x].bo = 0 /\ plane_bo' = 0
    BY <2>1, <2>2
  <2>4. ASSUME NEW f \in Frames, NEW p \in Planes
        PROVE  plane'[f][p].bo = plane[f][p].bo /\ plane'[f][p].old_bo = 0
    <3>1. plane[f][p] \in PlaneRec(made)
      BY <1>1
    <3> QED
      BY <1>1, <2>1, <2>2, <2>3, <3>1 DEF PlaneRec
  <2> QED
    BY <2>1, <2>3, <2>4
<1>4. CASE CreatePlane
  <2>1. /\ pc = "create_plane" /\ SetPlane /\ plane_bo = 0 /\ plane_bo' = 0
        /\ i \in Frames /\ x \in Planes
    BY <1>1, <1>4, SetsLeave DEF CreatePlane
  <2>2. plane' = [plane EXCEPT ![i][x] = PlaneSet(plane[i][x], NewBo, NewFb)]
    BY <2>1 DEF SetPlane
  <2>3. plane'[i][x].old_bo = 0
    BY <1>1, <2>1, <2>2 DEF PlaneSet
  <2>4. \/ pc' = pc /\ i' = i /\ x' = x + 1
        \/ i' = i + 1 /\ pc' = "create_wb"
    BY <1>4, <2>1 DEF CreatePlane
  <2>5. ASSUME NEW f \in Frames, NEW p \in Planes
        PROVE  plane'[f][p].old_bo = 0 /\ (ToMake(f, p)' => plane'[f][p].bo = 0)
    <3>1. CASE f = i /\ p = x
      BY <1>1, <2>1, <2>3, <2>4, <3>1
    <3>2. CASE ~(f = i /\ p = x)
      <4>1. plane'[f][p] = plane[f][p]
        BY <1>1, <2>1, <2>2, <3>2
      <4>2. ToMake(f, p)' => ToMake(f, p)
        BY <1>1, <2>1, <2>4
      <4> QED
        BY <2>1, <4>1, <4>2
    <3> QED
      BY <3>1, <3>2
  <2> QED
    BY <2>1, <2>5
<1>5. ASSUME UNCHANGED <<mainVars, plane_bo>>,
             \A f \in Frames, p \in Planes : /\ plane'[f][p].bo \in {0, plane[f][p].bo}
                                             /\ plane'[f][p].old_bo \in {0, plane[f][p].old_bo}
      PROVE  FreshInv'
  BY <1>5 DEF mainVars
<1>6. CASE DumpThread
  BY <1>5, <1>6 DEF DumpThread, DumpTakes, Dump, DumpFails, DumpNext, DumpEnds, DumpDies, fieldVars,
                    swapVars
<1>7. ASSUME NEW t \in Threads, Clear(t) PROVE FreshInv'
  <2>1. CASE ClearCursor(t) \/ ClearPipe(t) \/ ClearRamless(t) \/ ClearRmRamless(t)
    BY <1>5, <2>1 DEF ClearCursor, ClearPipe, ClearRamless, ClearRmRamless, fieldVars, swapVars
  <2>2. CASE ClearPlane(t)
    <3>1. PICK g \in Frames, y \in Planes, r \in PlaneRec(made) :
            /\ plane' = [plane EXCEPT ![g][y] = r]
            /\ r.bo \in {0, plane[g][y].bo} /\ r.old_bo \in {0, plane[g][y].old_bo}
      <4>1. made \in Nat /\ FieldsOK
        BY DEF DataOK, PoolOK
      <4> QED
        BY <2>2, <4>1, PlaneCleared DEF Or0
    <3>2. UNCHANGED <<mainVars, plane_bo>>
      BY <2>2 DEF ClearPlane, ClearFbId, ClearOldFbId, ClearBo, ClearOldBo, swapVars
    <3>3. \A f \in Frames, p \in Planes : /\ plane'[f][p].bo \in {0, plane[f][p].bo}
                                          /\ plane'[f][p].old_bo \in {0, plane[f][p].old_bo}
      BY <1>1, <3>1
    <3> QED
      BY <1>5, <3>2, <3>3
  <2> QED
    BY <1>7, <2>1, <2>2 DEF Clear, ClearPlane
<1>8. CASE UNCHANGED vars
  BY <1>5, <1>8 DEF vars, fieldVars, swapVars
<1>9. CASE \/ CreateFails \/ SetProps \/ SetPropsFails \/ SetWb \/ SetPlanes \/ SetBuffersFails
           \/ SetCursor \/ SetCursorFails \/ Commit \/ CommitFails \/ Cancel \/ Join \/ Final
  BY <1>9 DEF CreateFails, SetProps, SetPropsFails, SetWb, SetPlanes, SetBuffersFails, SetCursor,
              SetCursorFails, Commit, CommitFails, Cancel, Join, Final, Fails, SetFrameFails
<1> QED
  BY <1>2, <1>3, <1>4, <1>6, <1>7, <1>8, <1>9 DEF Next, Main

\* main clears a frame only when it is through with setting them, and the dump thread, as
\* long as it has not run ahead, frames before the one main is setting.
AheadInv ==
  /\ Creating => dpc = "none"
  /\ Busy("main") => pc \in {"cancel", "end"}
  /\ ~ahead => /\ dpc \in {"dump", "next"} => k < i
               /\ dpc = "last" => i = setup.num
               /\ Busy("dump") => dpc \in {"next", "last"} /\ clr["dump"].frame < i

\* As long as nothing failed, main finds no buffer in the plane it sets.
FirstSet == swapped /\ status /\ ~gave_up => plane_bo = 0 /\ plane[i][x].bo = 0

\* While main sets a plane, its local has the buffer of old_bo, and old_bo that of bo.
Owned(d) == IF swapped /\ d = <<"old_bo", i, x>> THEN plane_bo ELSE Held(d)
Copied == swapped => plane[i][x].old_bo = plane[i][x].bo

Exist == bos \cup unmapped
OwnedExist == \A d \in Fields : Owned(d) # 0 => Owned(d) \in Exist

\* Two fields own one buffer only as striped pipes.
OnePlace ==
  \A d, e \in Fields : d # e /\ Owned(d) = Owned(e) /\ Owned(d) # 0 => Shared(d) /\ Shared(e)

\* The buffer in dev.wb_stripe exists, and is that of striped pipes only.
StripeInv ==
  /\ wb_stripe.out_bo # 0 => wb_stripe.out_bo \in Exist
  /\ \A d \in Fields : Owned(d) = wb_stripe.out_bo /\ Owned(d) # 0 => Shared(d)

Owning == OwnedExist /\ OnePlace /\ StripeInv /\ Copied
Owners == Orderly => Owning

LEMMA FieldIs ==
  ASSUME NEW d \in Fields
  PROVE  \/ \E f \in Frames, p \in Planes : d = <<"bo", f, p>> \/ d = <<"old_bo", f, p>>
         \/ \E f \in Frames, q \in Pipes : d = <<"out_bo", f, q>>
         \/ \E f \in Frames : d = <<"cursor", f, 0>>
  BY DEF Fields

LEMMA AreFields ==
  /\ \A f \in Frames, p \in Planes : <<"bo", f, p>> \in Fields /\ <<"old_bo", f, p>> \in Fields
  /\ \A f \in Frames, q \in Pipes : <<"out_bo", f, q>> \in Fields
  /\ \A f \in Frames : <<"cursor", f, 0>> \in Fields
  BY DEF Fields

LEMMA HeldIs ==
  /\ \A f, p : Held(<<"bo", f, p>>) = plane[f][p].bo /\ Held(<<"old_bo", f, p>>) = plane[f][p].old_bo
  /\ \A f, q : Held(<<"out_bo", f, q>>) = pipe[f][q].out_bo
  /\ \A f : Held(<<"cursor", f, 0>>) = cursor[f]
  BY DEF Held

LEMMA HeldIsNext ==
  /\ \A f, p : /\ Held(<<"bo", f, p>>)' = plane'[f][p].bo
               /\ Held(<<"old_bo", f, p>>)' = plane'[f][p].old_bo
  /\ \A f, q : Held(<<"out_bo", f, q>>)' = pipe'[f][q].out_bo
  /\ \A f : Held(<<"cursor", f, 0>>)' = cursor'[f]
  BY DEF Held

LEMMA OwnedType ==
  ASSUME DataOK, NEW d \in Fields
  PROVE  Owned(d) \in 0 .. made
<1> USE DEF DataOK, FieldsOK
<1>1. Held(d) \in 0 .. made
  <2>1. CASE \E f \in Frames, p \in Planes : d = <<"bo", f, p>> \/ d = <<"old_bo", f, p>>
    <3>1. PICK f \in Frames, p \in Planes : d = <<"bo", f, p>> \/ d = <<"old_bo", f, p>>
      BY <2>1
    <3>2. plane[f][p] \in PlaneRec(made)
      OBVIOUS
    <3> QED
      BY <3>1, <3>2, HeldIs DEF PlaneRec
  <2>2. CASE \E f \in Frames, q \in Pipes : d = <<"out_bo", f, q>>
    <3>1. PICK f \in Frames, q \in Pipes : d = <<"out_bo", f, q>>
      BY <2>2
    <3>2. pipe[f][q] \in PipeRec(made)
      OBVIOUS
    <3> QED
      BY <3>1, <3>2, HeldIs DEF PipeRec
  <2>3. CASE \E f \in Frames : d = <<"cursor", f, 0>>
    BY <2>3, HeldIs
  <2> QED
    BY <2>1, <2>2, <2>3, FieldIs
<1> QED
  BY <1>1 DEF Owned, PoolOK

\* Out of the middle of a plane, a field owns what it holds.
LEMMA OwnedHeld ==
  /\ ~swapped => \A d : Owned(d) = Held(d)
  /\ ~swapped' => \A d : Owned(d)' = Held(d)'
  BY DEF Owned

\* A step that keeps or forgets what the fields own, and destroys no buffer that is
\* still owned.
LEMMA OwningKeep ==
  ASSUME Owning, UNCHANGED setup, wb_stripe'.out_bo = wb_stripe.out_bo,
         \A d \in Fields : \/ Owned(d)' = 0
                           \/ Owned(d)' = Owned(d) /\ (Owned(d) \in Exist => Owned(d) \in Exist'),
         wb_stripe.out_bo \in Exist => wb_stripe.out_bo \in Exist', Copied'
  PROVE  Owning'
<1>1. \A d : Shared(d)' = Shared(d)
  BY DEF Shared
<1>2. OwnedExist'
  BY DEF Owning, OwnedExist
<1>3. OnePlace'
  BY <1>1 DEF Owning, OnePlace
<1>4. StripeInv'
  BY <1>1 DEF Owning, StripeInv
<1> QED
  BY <1>2, <1>3, <1>4 DEF Owning

\* A new buffer has one owner, the field it is stored in.
LEMMA OwningMake ==
  ASSUME Owning, DataOK, UNCHANGED setup, Exist' = Exist \cup {made + 1}, NEW d0 \in Fields,
         Owned(d0)' = made + 1, \A d \in Fields : d # d0 => Owned(d)' = Owned(d),
         \/ wb_stripe'.out_bo = wb_stripe.out_bo
         \/ wb_stripe'.out_bo = made + 1 /\ Shared(d0),
         Copied'
  PROVE  Owning'
<1>1. \A d : Shared(d)' = Shared(d)
  BY DEF Shared
<1>2. \A d \in Fields : Owned(d) \in 0 .. made
  BY OwnedType
<1>3. made \in Nat /\ wb_stripe.out_bo \in 0 .. made
  BY DEF DataOK, PoolOK, PipeRec
<1>4. OwnedExist'
  BY <1>3 DEF Owning, OwnedExist
<1>5. OnePlace'
  BY <1>1, <1>2, <1>3 DEF Owning, OnePlace
<1>6. StripeInv'
  <2>1. wb_stripe'.out_bo # 0 => wb_stripe'.out_bo \in Exist'
    BY <1>3 DEF Owning, StripeInv
  <2>2. ASSUME NEW d \in Fields, Owned(d)' = wb_stripe'.out_bo, Owned(d)' # 0 PROVE Shared(d)
    BY <1>2, <1>3, <2>2 DEF Owning, StripeInv
  <2> QED
    BY <1>1, <2>1, <2>2 DEF StripeInv
<1> QED
  BY <1>4, <1>5, <1>6 DEF Owning

\* One field takes over what another one owns, which gets a new buffer or that of the first.
LEMMA OwningSwap ==
  ASSUME Owning, DataOK, UNCHANGED <<setup, wb_stripe>>, Exist \subseteq Exist',
         NEW d1 \in Fields, NEW d2 \in Fields, d1 # d2, ~Shared(d1), ~Shared(d2),
         \A d \in Fields \ {d1, d2} : Owned(d)' = Owned(d),
         Owned(d2)' = Owned(d1), Owned(d1)' \in {Owned(d2), made + 1},
         Owned(d1)' = made + 1 => made + 1 \in Exist', Copied'
  PROVE  Owning'
<1>1. \A d : Shared(d)' = Shared(d)
  BY DEF Shared
<1>2. \A d \in Fields : Owned(d) \in 0 .. made
  BY OwnedType
<1>3. made \in Nat /\ wb_stripe.out_bo \in 0 .. made
  BY DEF DataOK, PoolOK, PipeRec
<1>4. OwnedExist'
  <2>1. ASSUME NEW d \in Fields, Owned(d)' # 0 PROVE Owned(d)' \in Exist'
    BY <2>1 DEF Owning, OwnedExist
  <2> QED
    BY <2>1 DEF OwnedExist
<1>5. \A d, e \in Fields :
        d # e /\ Owned(d) = Owned(e) /\ Owned(d) # 0 => Shared(d) /\ Shared(e)
  BY DEF Owning, OnePlace
<1>6. OnePlace'
  <2>1. ASSUME NEW d \in Fields, NEW e \in Fields, d # e, Owned(d)' = Owned(e)', Owned(d)' # 0
        PROVE  Shared(d) /\ Shared(e)
    <3>1. d \notin {d1, d2} => Owned(d)' = Owned(d) /\ Owned(d) # made + 1
      BY <1>2, <1>3
    <3>2. e \notin {d1, d2} => Owned(e)' = Owned(e) /\ Owned(e) # made + 1
      BY <1>2, <1>3
    <3>3. Owned(d1) # made + 1 /\ Owned(d2) # made + 1
      BY <1>2, <1>3
    <3> QED
      BY <1>5, <2>1, <3>1, <3>2, <3>3
  <2> QED
    BY <1>1, <2>1 DEF OnePlace
<1>7. StripeInv'
  <2>1. wb_stripe'.out_bo # 0 => wb_stripe'.out_bo \in Exist'
    BY DEF Owning, StripeInv
  <2>2. ASSUME NEW d \in Fields, Owned(d)' = wb_stripe'.out_bo, Owned(d)' # 0 PROVE Shared(d)
    BY <1>2, <1>3, <2>2 DEF Owning, StripeInv
  <2> QED
    BY <1>1, <2>1, <2>2 DEF StripeInv
<1> QED
  BY <1>4, <1>6, <1>7 DEF Owning

\* What a write to one field of a frame does to all fields.
LEMMA PlaneHeld ==
  ASSUME DataOK, NEW f \in Frames, NEW p \in Planes, NEW r, plane' = [plane EXCEPT ![f][p] = r],
         UNCHANGED <<cursor, pipe>>
  PROVE  /\ Held(<<"bo", f, p>>)' = r.bo /\ Held(<<"old_bo", f, p>>)' = r.old_bo
         /\ \A d \in Fields \ {<<"bo", f, p>>, <<"old_bo", f, p>>} : Held(d)' = Held(d)
<1>1. plane \in [Frames -> [Planes -> PlaneRec(made)]]
  BY DEF DataOK, FieldsOK
<1>2. plane'[f][p] = r
  BY <1>1
<1>3. \A g \in Frames, q \in Planes : ~(g = f /\ q = p) => plane'[g][q] = plane[g][q]
  BY <1>1
<1>4. ASSUME NEW d \in Fields \ {<<"bo", f, p>>, <<"old_bo", f, p>>} PROVE Held(d)' = Held(d)
  <2>1. CASE \E g \in Frames, q \in Planes : d = <<"bo", g, q>> \/ d = <<"old_bo", g, q>>
    <3>1. PICK g \in Frames, q \in Planes : d = <<"bo", g, q>> \/ d = <<"old_bo", g, q>>
      BY <2>1
    <3>2. plane'[g][q] = plane[g][q] \/ (g = f /\ q = p)
      BY <1>3
    <3> QED
      BY <1>3, <1>4, <3>1, <3>2, HeldIs, HeldIsNext
  <2>2. CASE \E g \in Frames, q \in Pipes : d = <<"out_bo", g, q>>
    BY <2>2, HeldIs, HeldIsNext
  <2>3. CASE \E g \in Frames : d = <<"cursor", g, 0>>
    BY <2>3, HeldIs, HeldIsNext
  <2> QED
    BY <2>1, <2>2, <2>3, FieldIs
<1> QED
  BY <1>2, <1>4, HeldIsNext

LEMMA PipeHeld ==
  ASSUME DataOK, NEW f \in Frames, NEW q \in Pipes, NEW r, pipe' = [pipe EXCEPT ![f][q] = r],
         UNCHANGED <<plane, cursor>>
  PROVE  /\ Held(<<"out_bo", f, q>>)' = r.out_bo
         /\ \A d \in Fields \ {<<"out_bo", f, q>>} : Held(d)' = Held(d)
<1>1. pipe \in [Frames -> [Pipes -> PipeRec(made)]]
  BY DEF DataOK, FieldsOK
<1>2. pipe'[f][q] = r
  BY <1>1
<1>3. \A g \in Frames, p \in Pipes : ~(g = f /\ p = q) => pipe'[g][p] = pipe[g][p]
  BY <1>1
<1>4. ASSUME NEW d \in Fields \ {<<"out_bo", f, q>>} PROVE Held(d)' = Held(d)
  <2>1. CASE \E g \in Frames, p \in Planes : d = <<"bo", g, p>> \/ d = <<"old_bo", g, p>>
    BY <2>1, HeldIs, HeldIsNext
  <2>2. CASE \E g \in Frames, p \in Pipes : d = <<"out_bo", g, p>>
    <3>1. PICK g \in Frames, p \in Pipes : d = <<"out_bo", g, p>>
      BY <2>2
    <3>2. pipe'[g][p] = pipe[g][p]
      BY <1>3, <1>4, <3>1
    <3> QED
      BY <3>1, <3>2, HeldIs, HeldIsNext
  <2>3. CASE \E g \in Frames : d = <<"cursor", g, 0>>
    BY <2>3, HeldIs, HeldIsNext
  <2> QED
    BY <2>1, <2>2, <2>3, FieldIs
<1> QED
  BY <1>2, <1>4, HeldIsNext

LEMMA CursorHeld ==
  ASSUME DataOK, NEW f \in Frames, NEW b, cursor' = [cursor EXCEPT ![f] = b],
         UNCHANGED <<plane, pipe>>
  PROVE  /\ Held(<<"cursor", f, 0>>)' = b
         /\ \A d \in Fields \ {<<"cursor", f, 0>>} : Held(d)' = Held(d)
<1>1. cursor'[f] = b /\ \A g \in Frames : g # f => cursor'[g] = cursor[g]
  BY DEF DataOK, FieldsOK
<1>2. ASSUME NEW d \in Fields \ {<<"cursor", f, 0>>} PROVE Held(d)' = Held(d)
  <2>1. CASE \E g \in Frames, p \in Planes : d = <<"bo", g, p>> \/ d = <<"old_bo", g, p>>
    BY <2>1, HeldIs, HeldIsNext
  <2>2. CASE \E g \in Frames, p \in Pipes : d = <<"out_bo", g, p>>
    BY <2>2, HeldIs, HeldIsNext
  <2>3. CASE \E g \in Frames : d = <<"cursor", g, 0>>
    BY <1>1, <1>2, <2>3, HeldIs, HeldIsNext
  <2> QED
    BY <2>1, <2>2, <2>3, FieldIs
<1> QED
  BY <1>1, <1>2, HeldIsNext

LEMMA FieldsHeld ==
  ASSUME UNCHANGED fieldVars
  PROVE  \A d \in Fields : Held(d)' = Held(d)
<1> SUFFICES ASSUME NEW d \in Fields PROVE Held(d)' = Held(d)
  OBVIOUS
<1> QED
  BY FieldIs, HeldIs, HeldIsNext DEF fieldVars

\* Where the fields are left alone, what they own stays.
LEMMA OwningStays ==
  ASSUME Owning, UNCHANGED <<setup, wb_stripe, fieldVars, swapVars>>, swapped => UNCHANGED <<i, x>>,
         Exist \subseteq Exist'
  PROVE  Owning'
<1>1. \A d \in Fields : Owned(d)' = Owned(d)
  BY FieldsHeld DEF Owned, swapVars
<1>2. Copied'
  BY DEF Owning, Copied, swapVars, fieldVars
<1> QED
  BY <1>1, <1>2, OwningKeep

\* The beginning: the former old_bo is main's.
LEMMA OwningSwapBos ==
  ASSUME Owning, DataOK, NEW f \in Frames, NEW q \in Planes, f = i, q = x, SwapBos
  PROVE  Owning'
<1> DEFINE d1 == <<"bo", f, q>>
           d2 == <<"old_bo", f, q>>
<1>1. plane[f][q] \in PlaneRec(made) /\ plane \in [Frames -> [Planes -> PlaneRec(made)]]
  BY DEF DataOK, FieldsOK
<1>2. PICK r : r = [plane[f][q] EXCEPT !.old_bo = plane[f][q].bo]
  OBVIOUS
<1>3. r.bo = plane[f][q].bo /\ r.old_bo = plane[f][q].bo
  BY <1>1, <1>2 DEF PlaneRec
<1>4. /\ plane' = [plane EXCEPT ![f][q] = r] /\ ~swapped /\ swapped'
      /\ plane_bo' = plane[f][q].old_bo /\ UNCHANGED <<setup, cursor, pipe, wb_stripe, i, x>>
      /\ Exist' = Exist
  BY <1>2 DEF SwapBos, mainVars, dumpVars, histVars, devVars, poolVars, Exist
<1>5. Held(d1)' = r.bo /\ Held(d2)' = r.old_bo /\ \A d \in Fields \ {d1, d2} : Held(d)' = Held(d)
  BY <1>4, PlaneHeld
<1>6. Held(d1) = plane[f][q].bo /\ Held(d2) = plane[f][q].old_bo /\ d1 # d2
  BY HeldIs
<1>7. \A d \in Fields : Owned(d)' = Owned(d)
  <2>1. \A d : Owned(d) = Held(d)
    BY <1>4, OwnedHeld
  <2>2. Owned(d2)' = plane_bo' /\ \A d : d # d2 => Owned(d)' = Held(d)'
    BY <1>4 DEF Owned
  <2> HIDE DEF d1, d2
  <2> QED
    BY <1>3, <1>4, <1>5, <1>6, <2>1, <2>2
<1>8. Copied'
  <2>1. plane'[f][q] = r
    BY <1>1, <1>4
  <2> QED
    BY <1>3, <1>4, <2>1 DEF Copied
<1> QED
  BY <1>4, <1>7, <1>8, OwningKeep

\* The end: the plane has changed its buffers.
LEMMA OwningSetPlane ==
  ASSUME Owning, DataOK, NEW f \in Frames, NEW q \in Planes, f = i, q = x, SetPlane,
         UNCHANGED <<setup, cursor, pipe, unmapped, devVars>>
  PROVE  Owning'
<1> DEFINE d1 == <<"bo", f, q>>
           d2 == <<"old_bo", f, q>>
<1>0. swapped /\ ~swapped'
  BY SetsLeave
<1>1. /\ d1 \in Fields /\ d2 \in Fields /\ d1 # d2 /\ ~Shared(d1) /\ ~Shared(d2)
      /\ Owned(d1) = plane[f][q].bo /\ Owned(d2) = plane_bo /\ plane[f][q].old_bo = plane[f][q].bo
  BY <1>0, AreFields, HeldIs DEF Shared, Owned, Owning, Copied
<1>2. PICK r : /\ plane' = [plane EXCEPT ![f][q] = r] /\ r.old_bo = plane[f][q].old_bo
               /\ \/ BoFbCreate /\ r.bo = NewBo
                  \/ UNCHANGED poolVars /\ r.bo = plane_bo
  <2> DEFINE new == PlaneSet(plane[f][q], NewBo, NewFb)
             old == PlaneSet(plane[f][q], plane_bo, plane[f][q].fb_id)
  <2>1. \/ BoFbCreate /\ plane' = [plane EXCEPT ![f][q] = new]
        \/ UNCHANGED poolVars /\ plane' = [plane EXCEPT ![f][q] = old]
    BY DEF SetPlane
  <2>2. plane[f][q] \in PlaneRec(made)
    BY DEF DataOK, FieldsOK
  <2>3. /\ new.old_bo = plane[f][q].old_bo /\ new.bo = NewBo
        /\ old.old_bo = plane[f][q].old_bo /\ old.bo = plane_bo
    BY <2>2 DEF PlaneSet, PlaneRec
  <2> HIDE DEF new, old
  <2> QED
    BY <2>1, <2>3
<1>3. Held(d1)' = r.bo /\ Held(d2)' = r.old_bo /\ \A d \in Fields \ {d1, d2} : Held(d)' = Held(d)
  <2>1. plane' = [plane EXCEPT ![f][q] = r] /\ UNCHANGED <<cursor, pipe>>
    BY <1>2
  <2> QED
    BY <2>1, PlaneHeld
<1>4. Exist \subseteq Exist' /\ (BoFbCreate => made + 1 \in Exist')
  BY <1>2 DEF Exist, BoFbCreate, MakeBo, NewBo, poolVars
<1>5. \A d : Owned(d)' = Held(d)' /\ (d # d2 => Owned(d) = Held(d))
  BY <1>0, OwnedHeld DEF Owned
<1>6. Owned(d2)' = Owned(d1) /\ (Owned(d1)' = Owned(d2) \/ (Owned(d1)' = made + 1 /\ made + 1 \in Exist'))
  BY <1>1, <1>2, <1>3, <1>4, <1>5 DEF NewBo
<1>7. Owned(d1)' = made + 1 => made + 1 \in Exist'
  <2>1. Owned(d2) \in 0 .. made /\ made \in Nat
    BY <1>1, OwnedType DEF DataOK, PoolOK
  <2> QED
    BY <1>6, <2>1
<1>8. Copied'
  BY <1>0 DEF Copied
<1> HIDE DEF d1, d2
<1> QED
  BY <1>1, <1>3, <1>4, <1>5, <1>6, <1>7, <1>8, OwningSwap DEF devVars

\* A first creation that fails leaves the plane without a buffer.
LEMMA OwningSetPlaneFails ==
  ASSUME Owning, NEW f \in Frames, NEW q \in Planes, f = i, q = x, SetPlaneFails, plane[i][x].bo = 0,
         UNCHANGED <<setup, cursor, pipe, unmapped, devVars>>
  PROVE  Owning'
<1>1. swapped /\ ~swapped' /\ plane_bo = 0 /\ UNCHANGED plane
  BY SetsLeave DEF SetPlaneFails
<1>2. Exist \subseteq Exist'
  BY DEF Exist, SetPlaneFails, BoFbCreateFails, MakeBo
<1>3. Held(<<"old_bo", i, x>>) = 0
  BY <1>1, HeldIs DEF Owning, Copied
<1>4. \A d \in Fields : Held(d)' = Held(d)
  BY <1>1, FieldsHeld DEF fieldVars
<1>5. \A d \in Fields : Owned(d)' = Owned(d)
  BY <1>1, <1>3, <1>4, OwnedHeld DEF Owned
<1>6. Copied'
  BY <1>1 DEF Copied
<1> QED
  BY <1>2, <1>5, <1>6, OwningKeep DEF devVars

\* A thread does not clear the frame main is setting.
LEMMA ClearsAnother ==
  ASSUME MainOK, ClearOK, AheadInv, ~ahead, NEW t \in Threads, Clear(t), swapped
  PROVE  clr[t].frame # i
<1>1. pc \in {"create_plane", "planes"} /\ clr[t].stage # "idle"
  BY DEF MainOK, MainIndex, Clear, ClearCursor, ClearFbId, ClearOldFbId, ClearBo, ClearOldBo,
         ClearPipe, ClearRamless, ClearRmRamless
<1>2. clr[t].frame \in Nat /\ i \in Nat
  BY DEF MainOK, ClearOK, Frames
<1> QED
  BY <1>1, <1>2 DEF AheadInv, Busy, Threads

\* What a thread destroys it forgets, and nobody else holds it.
LEMMA OwningClear ==
  ASSUME Owning, MainOK, ClearOK, DataOK, AheadInv, ~ahead, NEW t \in Threads, Clear(t)
  PROVE  Owning'
<1>1. PICK f \in Frames, y \in Planes \cup {0} : f = clr[t].frame /\ y = clr[t].y
  BY DEF ClearOK
<1>2. UNCHANGED <<setup, unmapped, wb_stripe, i, x, swapVars>> /\ (swapped => f # i)
  BY <1>1, ClearsAnother
  DEF Clear, ClearCursor, ClearFbId, ClearOldFbId, ClearBo, ClearOldBo, ClearPipe, ClearRamless,
      ClearRmRamless, devVars, dumpVars, histVars, mainVars
<1>3. ASSUME UNCHANGED fieldVars, UNCHANGED bos PROVE Owning'
  BY <1>2, <1>3, OwningStays DEF Exist
\* Cleared are the fields of D, none of them shared, and their buffers destroyed.
<1>4. ASSUME NEW D \in SUBSET Fields, \A d \in D : ~Shared(d) /\ Held(d)' = 0 /\ d[2] = f,
             \A d \in Fields \ D : Held(d)' = Held(d),
             \A b \in bos \ bos' : \E d \in D : Held(d) = b
      PROVE  Owning'
  <2>0. swapped => \A d \in D : d # <<"old_bo", i, x>> /\ d # <<"bo", i, x>>
    BY <1>2, <1>4
  <2>1. /\ \A d \in D : Owned(d) = Held(d) /\ Owned(d)' = 0
        /\ \A d \in Fields \ D : Owned(d)' = Owned(d)
    BY <1>2, <1>4, <2>0 DEF Owned, swapVars
  <2>2. ASSUME NEW d \in Fields \ D, Owned(d) \in Exist, Owned(d) # 0 PROVE Owned(d) \in Exist'
    <3>1. \A e \in D : Owned(e) # Owned(d)
      BY <1>4, <2>2 DEF Owning, OnePlace
    <3> QED
      BY <1>2, <1>4, <2>1, <2>2, <3>1 DEF Exist
  <2>3. wb_stripe.out_bo \in Exist => wb_stripe.out_bo \in Exist'
    <3>1. CASE wb_stripe.out_bo = 0
      BY <1>2, <3>1 DEF Exist, DataOK, PoolOK
    <3>2. CASE wb_stripe.out_bo # 0
      <4>1. \A e \in D : Owned(e) # wb_stripe.out_bo
        BY <1>4, <3>2 DEF Owning, StripeInv
      <4> QED
        BY <1>2, <1>4, <2>1, <4>1 DEF Exist
    <3> QED
      BY <3>1, <3>2
  <2>4. \A d \in Fields : \/ Owned(d)' = 0
                          \/ Owned(d)' = Owned(d) /\ (Owned(d) \in Exist => Owned(d) \in Exist')
    <3> SUFFICES ASSUME NEW d \in Fields, Owned(d)' # 0
                 PROVE  Owned(d)' = Owned(d) /\ (Owned(d) \in Exist => Owned(d) \in Exist')
      OBVIOUS
    <3>1. d \notin D
      BY <2>1
    <3> QED
      BY <2>1, <2>2, <3>1
  <2>5. Copied'
    <3>1. CASE ~swapped
      BY <1>2, <3>1 DEF Copied, swapVars
    <3>2. CASE swapped
      <4>1. i \in Frames /\ x \in Planes
        BY <3>2, Run, Sizes DEF MainOK, MainIndex, Working, Frames
      <4>2. <<"bo", i, x>> \in Fields \ D /\ <<"old_bo", i, x>> \in Fields \ D
        BY <2>0, <3>2, <4>1, AreFields
      <4>3. plane'[i][x].bo = plane[i][x].bo /\ plane'[i][x].old_bo = plane[i][x].old_bo
        BY <1>4, <4>2, HeldIs, HeldIsNext
      <4> QED
        BY <1>2, <3>2, <4>3 DEF Copied, Owning
    <3> QED
      BY <3>1, <3>2
  <2> QED
    BY <1>2, <2>3, <2>4, <2>5, OwningKeep
<1>5. CASE ClearCursor(t)
  <2> DEFINE d0 == <<"cursor", f, 0>>
  <2>1. cursor' = [cursor EXCEPT ![f] = 0] /\ UNCHANGED <<plane, pipe>> /\ bos' = bos \ {cursor[f]}
    BY <1>1, <1>5 DEF ClearCursor
  <2>2. Held(d0)' = 0 /\ \A d \in Fields \ {d0} : Held(d)' = Held(d)
    BY <1>1, <2>1, CursorHeld
  <2>3. d0 \in Fields /\ ~Shared(d0) /\ Held(d0) = cursor[f] /\ d0[2] = f
    BY <1>1, AreFields, HeldIs DEF Shared
  <2>4. {d0} \in SUBSET Fields /\ \A b \in bos \ bos' : \E d \in {d0} : Held(d) = b
    BY <2>1, <2>3
  <2>5. \A d \in {d0} : ~Shared(d) /\ Held(d)' = 0 /\ d[2] = f
    BY <2>2, <2>3
  <2> HIDE DEF d0
  <2> QED
    BY <1>4, <2>2, <2>4, <2>5
<1>6. CASE ClearPlane(t)
  <2>1. made \in Nat /\ FieldsOK
    BY DEF DataOK, PoolOK
  <2>2. PICK g \in Frames, p \in Planes, r \in PlaneRec(made) :
          /\ g = clr[t].frame /\ p = clr[t].y
          /\ plane' = [plane EXCEPT ![g][p] = r] /\ UNCHANGED <<cursor, pipe>>
          /\ r.bo = Or0(t, "bo", plane[g][p].bo) /\ r.old_bo = Or0(t, "old_bo", plane[g][p].old_bo)
    BY <1>6, <2>1, PlaneCleared
  <2>3. g = f
    BY <1>1, <2>2
  <2> DEFINE d1 == <<"bo", g, p>>
             d2 == <<"old_bo", g, p>>
             D == IF clr[t].stage = "bo" THEN {d1} ELSE IF clr[t].stage = "old_bo" THEN {d2} ELSE {}
  <2>4. Held(d1)' = r.bo /\ Held(d2)' = r.old_bo /\ \A d \in Fields \ {d1, d2} : Held(d)' = Held(d)
    BY <2>2, PlaneHeld
  <2>5. /\ d1 \in Fields /\ d2 \in Fields /\ ~Shared(d1) /\ ~Shared(d2) /\ d1 # d2
        /\ Held(d1) = plane[g][p].bo /\ Held(d2) = plane[g][p].old_bo /\ d1[2] = f /\ d2[2] = f
    BY <2>3, AreFields, HeldIs DEF Shared
  <2>6. /\ clr[t].stage = "bo" => bos \ bos' \subseteq {plane[g][p].bo}
        /\ clr[t].stage = "old_bo" => bos \ bos' \subseteq {plane[g][p].old_bo}
        /\ clr[t].stage \notin {"bo", "old_bo"} => bos' = bos
    BY <1>6, <2>2 DEF ClearPlane, ClearFbId, ClearOldFbId, ClearBo, ClearOldBo
  <2> HIDE DEF d1, d2
  <2>7. D \in SUBSET Fields /\ \A b \in bos \ bos' : \E d \in D : Held(d) = b
    BY <2>5, <2>6
  <2>8. \A d \in D : ~Shared(d) /\ Held(d)' = 0 /\ d[2] = f
    BY <2>2, <2>4, <2>5 DEF Or0
  <2>9. \A d \in Fields \ D : Held(d)' = Held(d)
    BY <2>2, <2>4, <2>5 DEF Or0
  <2> HIDE DEF D
  <2> QED
    BY <1>4, <2>7, <2>8, <2>9
<1>8. CASE ClearPipe(t)
  <2>1. y \in Pipes /\ UNCHANGED <<plane, cursor>>
    BY <1>1, <1>8 DEF ClearPipe, ClearOK, ClearIndex
  <2>2. CASE UNCHANGED <<pipe, bos>>
    BY <1>3, <2>1, <2>2 DEF fieldVars
  <2>3. CASE setup.wb[f] # "stripe"
    <3> DEFINE d0 == <<"out_bo", f, y>>
    <3>1. PICK r : /\ r.out_bo = 0
                   /\ pipe' = [pipe EXCEPT ![f][y] = r] /\ bos' = bos \ {pipe[f][y].out_bo}
      <4> DEFINE r == [NoPipe EXCEPT !.out_fb_id = IF pipe[f][y].out_fb_id = ramless_fb_id
                                                   THEN ramless_fb_id ELSE 0]
      <4>1. pipe' = [pipe EXCEPT ![f][y] = r] /\ bos' = bos \ {pipe[f][y].out_bo}
        BY <1>1, <1>8, <2>3 DEF ClearPipe
      <4>2. r.out_bo = 0
        BY DEF NoPipe
      <4> QED
        BY <4>1, <4>2
    <3>3. Held(d0)' = r.out_bo /\ \A d \in Fields \ {d0} : Held(d)' = Held(d)
      BY <2>1, <3>1, PipeHeld
    <3>4. d0 \in Fields /\ ~Shared(d0) /\ Held(d0) = pipe[f][y].out_bo /\ d0[2] = f
      BY <2>1, <2>3, AreFields, HeldIs DEF Shared
    <3>5. {d0} \in SUBSET Fields /\ \A b \in bos \ bos' : \E d \in {d0} : Held(d) = b
      BY <3>1, <3>4
    <3>6. \A d \in {d0} : ~Shared(d) /\ Held(d)' = 0 /\ d[2] = f
      BY <3>1, <3>3, <3>4
    <3> HIDE DEF d0
    <3> QED
      BY <1>4, <3>3, <3>5, <3>6
  <2> QED
    BY <1>1, <1>8, <2>2, <2>3 DEF ClearPipe
<1>9. CASE ClearRamless(t) \/ ClearRmRamless(t)
  BY <1>3, <1>9 DEF ClearRamless, ClearRmRamless, poolVars
<1> QED
  BY <1>5, <1>6, <1>8, <1>9 DEF Clear, ClearPlane

\* What is out of order once stays so.
LEMMA OrderlyBack ==
  ASSUME MainOK, [Next]_vars, Orderly' PROVE Orderly /\ ~ahead
<1>1. (ahead => ahead') /\ (gave_up => gave_up') /\ (status' => status)
  <2> USE DEF mainVars, dumpVars, histVars
  <2>1. CASE CreateWb \/ SwapBos \/ CreatePlane \/ SetProps \/ SetWb \/ SetPlanes \/ SetCursor
             \/ Commit \/ Cancel \/ Join \/ Final
    <3>1. UNCHANGED <<ahead, gave_up, status>>
      BY <2>1 DEF CreateWb, SwapBos, CreatePlane, SetProps, SetWb, SetPlanes, SetCursor, Commit,
                  Cancel, Join, Final
    <3> QED
      BY <3>1
  <2>2. CASE CreateFails \/ SetPropsFails \/ SetBuffersFails \/ SetCursorFails \/ CommitFails
    <3>1. UNCHANGED <<ahead, gave_up>> /\ status' = FALSE
      BY <2>2 DEF CreateFails, SetPropsFails, SetBuffersFails, SetCursorFails, CommitFails,
                  SetFrameFails, Fails
    <3> QED
      BY <3>1
  <2>3. CASE DumpThread
    <3>1. CASE DumpTakes
      BY <3>1 DEF DumpTakes
    <3>2. CASE DumpFails
      BY <3>2 DEF DumpFails
    <3>3. CASE Dump \/ DumpNext \/ DumpEnds \/ DumpDies
      BY <3>3 DEF Dump, DumpNext, DumpEnds, DumpDies
    <3> QED
      BY <2>3, <3>1, <3>2, <3>3 DEF DumpThread
  <2>4. ASSUME NEW t \in Threads, Clear(t) PROVE UNCHANGED <<ahead, gave_up, status>>
    BY <2>4 DEF Clear, ClearCursor, ClearFbId, ClearOldFbId, ClearBo, ClearOldBo, ClearPipe,
                ClearRamless, ClearRmRamless
  <2>5. CASE UNCHANGED vars
    BY <2>5 DEF vars
  <2> QED
    BY <2>1, <2>2, <2>3, <2>4, <2>5 DEF Next, Main
<1> QED
  BY <1>1 DEF Orderly, MainOK

LEMMA OwnersStep ==
  MainOK /\ ClearOK /\ DataOK /\ AheadInv /\ FirstSet /\ Owners /\ [Next]_vars => Owners'
<1> SUFFICES ASSUME MainOK, ClearOK, DataOK, AheadInv, FirstSet, Owners, [Next]_vars, Orderly'
             PROVE  Owning'
  BY DEF Owners
<1>0. Owning /\ ~ahead
  BY OrderlyBack DEF Owners
<1>1. ASSUME UNCHANGED <<setup, wb_stripe, fieldVars, swapVars>>, swapped => UNCHANGED <<i, x>>,
             Exist \subseteq Exist'
      PROVE  Owning'
  BY <1>0, <1>1, OwningStays
<1>2. pc \in Working => i \in Frames
  <2>1. i \in 0 .. Num /\ setup.num \in 1 .. Num /\ Num \in Nat
    BY Run, Sizes DEF MainOK
  <2> QED
    BY <2>1 DEF MainOK, MainIndex, Frames
<1>3. ASSUME MakeBo, UNCHANGED unmapped PROVE Exist' = Exist \cup {made + 1} /\ NewBo = made + 1
  BY <1>3 DEF Exist, MakeBo, NewBo
<1>99. ASSUME pc \notin {"create_plane", "planes"}, UNCHANGED swapped
       PROVE  ~swapped /\ Copied' /\ \A d : Owned(d) = Held(d) /\ Owned(d)' = Held(d)'
  BY <1>99, OwnedHeld DEF MainOK, MainIndex, Copied
<1>4. CASE CreateWb
  <2>1. PICK f \in Frames, q \in Pipes : f = i /\ q = x
    BY <1>2, <1>4 DEF CreateWb, MainOK, MainIndex, Working
  <2> DEFINE d0 == <<"out_bo", f, q>>
  <2>2. PICK r : /\ pipe' = [pipe EXCEPT ![f][q] = r] /\ UNCHANGED <<setup, plane, cursor, wb_stripe>>
                 /\ Exist' = Exist \cup {made + 1} /\ r.out_bo = made + 1
    <3> DEFINE r == [out_bo |-> NewBo, out_fb_id |-> NewFb]
    <3>1. MakeBo /\ UNCHANGED <<setup, plane, cursor, wb_stripe, unmapped>>
      BY <1>4 DEF CreateWb, BoFbCreate, dumpVars, histVars, devVars
    <3>2. Exist' = Exist \cup {made + 1} /\ r.out_bo = made + 1
      BY <1>3, <3>1
    <3>3. pipe' = [pipe EXCEPT ![f][q] = r]
      BY <1>4, <2>1 DEF CreateWb
    <3> QED
      BY <3>1, <3>2, <3>3
  <2>3. d0 \in Fields
    BY AreFields
  <2>4. Held(d0)' = r.out_bo /\ \A d \in Fields \ {d0} : Held(d)' = Held(d)
    BY <2>2, PipeHeld
  <2>5. Copied' /\ \A d : Owned(d) = Held(d) /\ Owned(d)' = Held(d)'
    BY <1>4, <1>99 DEF CreateWb, swapVars
  <2> HIDE DEF d0
  <2> QED
    BY <1>0, <2>2, <2>3, <2>4, <2>5, OwningMake
<1>5. CASE SwapBos \/ CreatePlane \/ SetPlanes
  <2>1. PICK f \in Frames, q \in Planes : f = i /\ q = x
    BY <1>2, <1>5, Sizes DEF SwapBos, CreatePlane, SetPlanes, MainOK, MainIndex, Working
  <2>2. CASE SwapBos
    BY <1>0, <2>1, <2>2, OwningSwapBos
  <2>3. CASE CreatePlane \/ SetPlanes
    <3>1. SetPlane /\ UNCHANGED <<setup, cursor, pipe, unmapped, devVars>>
      BY <2>3 DEF CreatePlane, SetPlanes, dumpVars, histVars
    <3> QED
      BY <1>0, <2>1, <3>1, OwningSetPlane
  <2> QED
    BY <1>5, <2>2, <2>3
<1>6. CASE CreateFails \/ SetBuffersFails
  <2>1. UNCHANGED <<setup, cursor, pipe, unmapped, gave_up, devVars>> /\ status' = FALSE
    BY <1>6 DEF CreateFails, SetBuffersFails, SetFrameFails, Fails, dumpVars, histVars
  <2>2. CASE SetPlaneFails /\ pc \in {"create_plane", "planes"}
    <3>1. PICK f \in Frames, q \in Planes : f = i /\ q = x
      BY <1>2, <2>2, Sizes DEF MainOK, MainIndex, Working
    <3>2. status /\ swapped
      BY <2>2, SetsLeave DEF MainOK, MainIndex, Working
    <3>3. plane[i][x].bo = 0
      BY <2>1, <3>2 DEF Orderly, FirstSet
    <3> QED
      BY <1>0, <2>1, <2>2, <3>1, <3>3, OwningSetPlaneFails
  <2>3. CASE BoFbCreateFails /\ UNCHANGED <<plane, swapVars>> /\ pc \in {"create_wb", "wb"}
    <3>1. Exist \subseteq Exist'
      BY <2>1, <2>3 DEF Exist, BoFbCreateFails, MakeBo
    <3>2. ~swapped
      BY <2>3 DEF MainOK, MainIndex
    <3> QED
      BY <1>1, <2>1, <2>3, <3>1, <3>2 DEF devVars, fieldVars
  <2> QED
    BY <1>6, <2>2, <2>3 DEF CreateFails, SetBuffersFails
<1>7. CASE SetWb
  <2>1. PICK f \in Frames, q \in Pipes : f = i /\ q = x
    BY <1>2, <1>7 DEF SetWb, MainOK, MainIndex, Working
  <2>2. UNCHANGED <<setup, plane, cursor, unmapped>>
    BY <1>7 DEF SetWb, dumpVars, histVars
  <2>9. Copied' /\ \A d : Owned(d) = Held(d) /\ Owned(d)' = Held(d)'
    BY <1>7, <1>99 DEF SetWb, swapVars
  <2> DEFINE d0 == <<"out_bo", f, q>>
  <2>3. d0 \in Fields /\ (setup.wb[f] = "stripe" => Shared(d0))
    BY AreFields DEF Shared
  <2>4. ASSUME NEW r, r = [out_bo |-> NewBo, out_fb_id |-> NewFb], BoFbCreate,
               pipe' = [pipe EXCEPT ![f][q] = r],
               wb_stripe' = wb_stripe \/ (wb_stripe' = r /\ setup.wb[f] = "stripe")
        PROVE  Owning'
    <3>1. Exist' = Exist \cup {made + 1} /\ r.out_bo = made + 1
      BY <1>3, <2>2, <2>4 DEF BoFbCreate
    <3>2. Held(d0)' = r.out_bo /\ \A d \in Fields \ {d0} : Held(d)' = Held(d)
      BY <2>2, <2>4, PipeHeld
    <3> HIDE DEF d0
    <3> QED
      BY <1>0, <2>2, <2>3, <2>4, <2>9, <3>1, <3>2, OwningMake
  <2>5. CASE UNCHANGED <<poolVars, wb_stripe>> /\ pipe' = [pipe EXCEPT ![f][q] = wb_stripe]
             /\ setup.wb[f] = "stripe"
    <3>1. PICK r : r = wb_stripe
      OBVIOUS
    <3>2. Held(d0)' = r.out_bo /\ \A d \in Fields \ {d0} : Held(d)' = Held(d)
      BY <2>2, <2>5, <3>1, PipeHeld
    <3>3. Exist' = Exist /\ \A d : Shared(d)' = Shared(d)
      BY <2>2, <2>5 DEF Exist, poolVars, Shared
    <3> HIDE DEF d0
    <3>0. Owned(d0)' = wb_stripe.out_bo /\ \A d \in Fields \ {d0} : Owned(d)' = Owned(d)
      BY <2>9, <3>1, <3>2
    <3>4. OwnedExist'
      BY <1>0, <2>3, <2>5, <3>0, <3>3 DEF Owning, OwnedExist, StripeInv
    <3>5. OnePlace'
      BY <1>0, <2>3, <2>5, <3>0, <3>3 DEF Owning, OnePlace, StripeInv
    <3>6. StripeInv'
      BY <1>0, <2>3, <2>5, <3>0, <3>3 DEF Owning, StripeInv
    <3> QED
      BY <2>9, <3>4, <3>5, <3>6 DEF Owning
  <2>6. CASE PipeWb
    BY <2>1, <2>4, <2>6 DEF PipeWb
  <2>7. CASE StripeWb
    BY <2>1, <2>4, <2>5, <2>7 DEF StripeWb
  <2> QED
    BY <1>7, <2>6, <2>7 DEF SetWb
<1>8. CASE SetCursor \/ SetCursorFails
  <2>0. PICK f \in Frames : f = i
    BY <1>2, <1>8 DEF SetCursor, SetCursorFails, Working
  <2>1. UNCHANGED <<setup, plane, pipe, wb_stripe, unmapped, swapVars>>
    BY <1>8 DEF SetCursor, SetCursorFails, devVars, dumpVars, histVars
  <2>9. ~swapped /\ Copied' /\ \A d : Owned(d) = Held(d) /\ Owned(d)' = Held(d)'
    BY <1>8, <1>99, <2>1 DEF SetCursor, SetCursorFails, swapVars
  <2>2. CASE MakeBo /\ cursor' = [cursor EXCEPT ![i] = NewBo]
    <3> DEFINE d0 == <<"cursor", f, 0>>
    <3>0. PICK b : b = NewBo
      OBVIOUS
    <3>1. Held(d0)' = b /\ \A d \in Fields \ {d0} : Held(d)' = Held(d)
      BY <2>0, <2>1, <2>2, <3>0, CursorHeld
    <3>2. d0 \in Fields
      BY AreFields
    <3> HIDE DEF d0
    <3> QED
      BY <1>0, <1>3, <2>1, <2>2, <2>9, <3>0, <3>1, <3>2, OwningMake
  <2>3. CASE UNCHANGED <<bos, made, cursor>>
    BY <1>1, <2>1, <2>3, <2>9 DEF fieldVars, Exist
  <2> QED
    BY <1>8, <2>2, <2>3 DEF SetCursor, SetCursorFails
<1>9. CASE DumpFails
  <2>1. UNCHANGED <<setup, fieldVars, devVars, swapVars, i, x>>
    BY <1>9 DEF DumpFails, mainVars
  <2>2. Exist \subseteq Exist'
    BY <1>9 DEF DumpFails, Exist
  <2> QED
    BY <1>1, <2>1, <2>2 DEF devVars
<1>10. CASE SetProps \/ SetPropsFails \/ Commit \/ CommitFails \/ Cancel \/ Join \/ Final
  <2>1. pc \notin {"create_plane", "planes"}
    BY <1>10 DEF SetProps, SetPropsFails, Commit, CommitFails, Cancel, Join, Final
  <2>2. ~swapped
    BY <2>1 DEF MainOK, MainIndex
  <2>3. UNCHANGED <<setup, wb_stripe, fieldVars, swapVars>> /\ Exist \subseteq Exist'
    BY <1>10
    DEF SetProps, SetPropsFails, Commit, CommitFails, Cancel, Join, Final, devVars, poolVars,
        dumpVars, histVars, Exist
  <2> QED
    BY <1>1, <2>2, <2>3
<1>11. CASE DumpTakes \/ Dump \/ DumpNext \/ DumpEnds \/ DumpDies
  BY <1>1, <1>11 DEF DumpTakes, Dump, DumpNext, DumpEnds, DumpDies, devVars, poolVars, histVars,
                     mainVars, Exist
<1>12. ASSUME NEW t \in Threads, Clear(t) PROVE Owning'
  BY <1>0, <1>12, OwningClear
<1>13. CASE UNCHANGED vars
  BY <1>1, <1>13 DEF vars, devVars, poolVars, dumpVars, histVars, mainVars, Exist
<1> QED
  BY <1>4, <1>5, <1>6, <1>7, <1>8, <1>9, <1>10, <1>11, <1>12, <1>13 DEF Next, Main, DumpThread

LEMMA OwnersInit == Init => Owners
<1> SUFFICES ASSUME Init PROVE Owning
  BY DEF Owners
<1>1. wb_stripe = NoPipe /\ ~swapped
  BY DEF Init
<1>2. \A d \in Fields : Held(d) = 0
  <2> SUFFICES ASSUME NEW d \in Fields PROVE Held(d) = 0
    OBVIOUS
  <2>1. /\ \A f \in Frames, p \in Planes : plane[f][p] = NoPlane
        /\ \A f \in Frames, q \in Pipes : pipe[f][q] = NoPipe
        /\ \A f \in Frames : cursor[f] = 0
    BY DEF Init
  <2> QED
    BY <2>1, FieldIs, HeldIs DEF NoPlane, NoPipe
<1>3. \A d \in Fields : Owned(d) = 0
  BY <1>1, <1>2, OwnedHeld
<1> QED
  BY <1>1, <1>3 DEF Owning, OwnedExist, OnePlace, StripeInv, Copied, NoPipe

\* What is owned is what the fields and main's local hold, but for the copy in old_bo.
LEMMA OwnersHold ==
  ASSUME MainOK, Owners PROVE HeldBuffersExist /\ OneOwner
<1> SUFFICES ASSUME Orderly PROVE HeldBuffersExist /\ OneOwner
  BY DEF HeldBuffersExist, OneOwner
<1>0. OwnedExist /\ OnePlace /\ Copied
  BY DEF Owners, Owning
<1>1. CASE ~swapped
  <2>1. plane_bo = 0 /\ \A d : Owned(d) = Held(d)
    BY <1>1, OwnedHeld DEF MainOK, MainIndex
  <2> QED
    BY <1>0, <2>1 DEF HeldBuffersExist, OneOwner, OwnedExist, OnePlace, Exist
<1>2. CASE swapped
  <2>1. PICK f \in Frames, q \in Planes : f = i /\ q = x
    BY <1>2, Run, Sizes DEF MainOK, MainIndex, Working, Frames
  <2> DEFINE d1 == <<"bo", f, q>>
             d2 == <<"old_bo", f, q>>
  <2>2. d1 \in Fields /\ d2 \in Fields /\ d1 # d2 /\ ~Shared(d1) /\ ~Shared(d2)
    BY AreFields DEF Shared
  <2>3. Owned(d2) = plane_bo /\ Held(d2) = Held(d1) /\ \A d : d # d2 => Owned(d) = Held(d)
    BY <1>0, <1>2, <2>1, HeldIs DEF Owned, Copied
  <2>4. \A d, e : {d, e} = {d1, d2} => Exchanged(d, e)
    BY <1>2, <2>1 DEF Exchanged
  <2> HIDE DEF d1, d2
  <2>5. HeldBuffersExist
    BY <1>0, <2>2, <2>3 DEF HeldBuffersExist, OwnedExist, Exist
  <2>6. ASSUME NEW d \in Fields, NEW e \in Fields, d # e, Held(d) = Held(e), Held(d) # 0
        PROVE  (Shared(d) /\ Shared(e)) \/ Exchanged(d, e)
    <3>1. CASE d # d2 /\ e # d2
      BY <1>0, <2>3, <2>6, <3>1 DEF OnePlace
    <3>2. CASE d = d2
      BY <1>0, <2>2, <2>3, <2>4, <2>6, <3>2 DEF OnePlace
    <3>3. CASE e = d2
      BY <1>0, <2>2, <2>3, <2>4, <2>6, <3>3 DEF OnePlace
    <3> QED
      BY <3>1, <3>2, <3>3
  <2>7. ASSUME NEW d \in Fields, Held(d) = plane_bo, plane_bo # 0 PROVE FALSE
    BY <1>0, <2>2, <2>3, <2>7 DEF OnePlace
  <2> QED
    BY <2>5, <2>6, <2>7 DEF OneOwner
<1> QED
  BY <1>1, <1>2

LEMMA FreshInvHolds == Spec => []FreshInv
<1>1. Init => FreshInv
  BY DEF Init, FreshInv, NoPlane
<1>2. TypeInv /\ FreshInv /\ [Next]_vars => FreshInv'
  BY Types, FreshInvStep
<1>3. Spec => []TypeInv
  BY TypeInvInit, TypeInvStep, PTL DEF Spec
<1> QED
  BY <1>1, <1>2, <1>3, PTL DEF Spec
=============================================================================
