-------------------------- MODULE FrameIdProofs --------------------------
(***************************************************************************)
(* Proofs about the framebuffer ids of FrameBuffers: what the frames are   *)
(* committed with, and that the framebuffer of a ramless pipe lives.       *)
(***************************************************************************)
EXTENDS FrameBuffersProofs

\* In a run of one round: what is committed, dumped and cleared is behind main.
OnceInv == setup.recycle = 1 =>
  /\ Creating => dpc = "none"
  /\ dpc = "none" => ~Busy("dump")
  /\ \A f \in Frames : commit_done[f] => f < i /\ ~Creating
  /\ dpc \in {"dump", "next", "last"} => k < i
  /\ Busy("dump") => clr["dump"].frame + 1 < i \/ i = setup.num
  /\ Busy("main") => pc \in {"cancel", "end"}

\* The places that hold framebuffer ids, and the ids in them.
Slots == ({"plane"} \X Frames \X Planes) \cup ({"pipe"} \X Frames \X Pipes)
Ids(s) == (IF s[1] = "plane" THEN {plane[s[2]][s[3]].fb_id, plane[s[2]][s[3]].old_fb_id}
                             ELSE {pipe[s[2]][s[3]].out_fb_id}) \ {0}

\* What main has prepared in VCMD mode and nobody has released.
PlaneReady(f, p) ==
  /\ p \in Pipes
  /\ CASE pc = "create_wb"    -> f < i
       [] pc = "create_plane" -> f < i \/ (f = i /\ p < x)
       [] OTHER               -> pc \in Working /\ i <= f /\ f < setup.num
PipeReady(f, q) ==
  CASE pc = "create_wb"    -> f < i \/ (f = i /\ q < x)
    [] pc = "create_plane" -> f <= i
    [] OTHER               -> pc \in Working /\ i <= f /\ f < setup.num

VcmdInv == setup.recycle = 1 /\ setup.use_vcmd =>
  /\ ramless_fb_id = 0
  /\ Creating => \A s \in Slots : \A id \in Ids(s) : fbs[id] # 0
  /\ \A s1, s2 \in Slots : s1 # s2 => Ids(s1) \cap Ids(s2) = {}
  /\ \A f \in Frames, p \in Planes : PlaneReady(f, p) => Shows(plane[f][p].fb_id, plane[f][p].bo)
  /\ \A f \in Frames, q \in Pipes : PipeReady(f, q) => Shows(pipe[f][q].out_fb_id, pipe[f][q].out_bo)

-----------------------------------------------------------------------------
(* What every step does to the frames.                                     *)

LEMMA Where ==
  ASSUME MainOK
  PROVE  /\ i \in Nat /\ x \in Nat /\ k \in Nat /\ setup.num \in Nat \ {0} /\ setup.num <= Num
         /\ pc \in Working => i \in Frames /\ x \in Planes
         /\ pc \in {"create_wb", "create_plane", "wb"} => x \in Pipes
  BY Run, Sizes DEF MainOK, MainIndex, Frames, Planes, Pipes

\* A thread that clears a frame moves on in it, and changes nothing of main or the dump loop.
LEMMA ClearMoves ==
  ASSUME ClearOK, NEW t \in Threads, Clear(t)
  PROVE  /\ UNCHANGED <<setup, mainVars, swapVars, dumpVars, commit_done, wb_stripe, fb_inuse,
                        ramless_value, made>>
         /\ Busy(t) /\ \A t2 \in Threads : t2 # t => clr'[t2] = clr[t2]
         /\ Busy(t)' => clr'[t].frame = clr[t].frame
<1> USE DEF Busy, mainVars, swapVars, dumpVars, histVars, devVars, poolVars
<1>0. clr \in [Threads -> [stage : Stages, frame : Frames, y : Planes \cup {0}]]
  BY DEF ClearOK
<1>1. ASSUME NEW s \in Stages, NEW y, Stage(t, s, y), clr[t].stage # "idle"
      PROVE  /\ Busy(t) /\ \A t2 \in Threads : t2 # t => clr'[t2] = clr[t2]
             /\ Busy(t)' => clr'[t].frame = clr[t].frame
  BY <1>0, <1>1 DEF Stage
<1>2. ASSUME ClearReturns(t), clr[t].stage # "idle"
      PROVE  /\ Busy(t) /\ \A t2 \in Threads : t2 # t => clr'[t2] = clr[t2]
             /\ Busy(t)' => clr'[t].frame = clr[t].frame
  BY <1>0, <1>2 DEF ClearReturns, Idle
<1>3. CASE ClearCursor(t)
  BY <1>1, <1>3 DEF ClearCursor, Stages, PlaneStages
<1>4. CASE ClearFbId(t)
  BY <1>1, <1>4 DEF ClearFbId, Stages, PlaneStages
<1>5. CASE ClearOldFbId(t)
  BY <1>1, <1>5 DEF ClearOldFbId, Stages, PlaneStages
<1>9. CASE ClearBo(t)
  BY <1>1, <1>9 DEF ClearBo, Stages, PlaneStages
<1>10. CASE ClearOldBo(t)
  BY <1>1, <1>10 DEF ClearOldBo, Stages, PlaneStages
<1>6. CASE ClearPipe(t)
  BY <1>1, <1>6 DEF ClearPipe, Stages
<1>7. CASE ClearRamless(t)
  BY <1>1, <1>2, <1>7 DEF ClearRamless, Stages
<1>8. CASE ClearRmRamless(t)
  BY <1>2, <1>8 DEF ClearRmRamless
<1> QED
  BY <1>3, <1>4, <1>5, <1>6, <1>7, <1>8, <1>9, <1>10 DEF Clear

LEMMA OnceInvStep ==
  ASSUME MainOK, ClearOK, DataOK, OnceInv, [Next]_vars PROVE OnceInv'
<1> SUFFICES ASSUME setup'.recycle = 1 PROVE OnceInv'
  BY DEF OnceInv
<1> USE Where DEF OnceInv, Busy, Creating, mainVars, dumpVars, histVars
<1>0. /\ commit_done \in [Frames -> BOOLEAN] /\ i <= setup.num
      /\ clr \in [Threads -> [stage : Stages, frame : Frames, y : Planes \cup {0}]]
      /\ round \in 1 .. setup.recycle
  BY DEF DataOK, ClearOK, MainOK, MainIndex
<1>1. CASE CreateWb
  BY <1>0, <1>1 DEF CreateWb
<1>2. CASE CreatePlane
  BY <1>0, <1>2 DEF CreatePlane
<1>3. CASE CreateFails
  BY <1>0, <1>3 DEF CreateFails, Fails
<1>4. CASE SwapBos \/ SetProps \/ SetWb \/ SetPlanes \/ SetCursor
  BY <1>0, <1>4 DEF SwapBos, SetProps, SetWb, SetPlanes, SetCursor
<1>5. CASE SetPropsFails \/ SetBuffersFails \/ SetCursorFails \/ CommitFails
  <2>1. /\ UNCHANGED <<setup, i, dpc, k, commit_done>> /\ pc' = "cancel" /\ ~Creating
        /\ clr'["dump"] = clr["dump"]
    <3>1. SetFrameFails /\ UNCHANGED <<setup, i, dpc, k, commit_done>> /\ ~Creating
      BY <1>5 DEF SetPropsFails, SetBuffersFails, SetCursorFails, CommitFails
    <3> QED
      BY <1>0, <3>1 DEF SetFrameFails, Fails, ClearFrame, Threads
  <2> QED
    BY <1>0, <2>1
<1>6. CASE Commit
  <2>1. /\ pc = "commit" /\ commit_done' = [commit_done EXCEPT ![i] = TRUE] /\ i' = i + 1
        /\ pc' \in {"props", "join"} /\ UNCHANGED <<setup, dpc, k, clr>> /\ i < setup.num
    BY <1>6 DEF Commit, MainOK, MainIndex, Working
  <2>2. \A f \in Frames : f \in Nat
    BY DEF Frames
  <2>3. Busy("dump") => clr["dump"].frame + 1 < i'
    <3>1. clr["dump"].frame \in Nat
      BY <1>0, <2>2 DEF Threads
    <3> QED
      BY <2>1, <3>1
  <2>4. \A f \in Frames : commit_done'[f] => f < i'
    BY <1>0, <2>1, <2>2
  <2> QED
    BY <2>1, <2>3, <2>4
<1>7. CASE Cancel \/ Join
  BY <1>0, <1>7 DEF Cancel, Join, Idle
<1>8. CASE Final
  BY <1>0, <1>8 DEF Final, ClearFrame
<1>9. CASE DumpTakes \/ DumpFails \/ DumpEnds \/ DumpDies
  <2>1. /\ UNCHANGED <<setup, pc, i, k, clr, commit_done>> /\ dpc' \in {"dump", "exit"} /\ dpc # "none"
        /\ dpc' = "dump" => commit_done[k] /\ k \in Frames
    BY <1>9 DEF DumpTakes, DumpFails, DumpEnds, DumpDies, MainOK
  <2> QED
    BY <2>1
<1>10. CASE Dump
  <2>1. UNCHANGED <<setup, pc, i, k, commit_done>> /\ dpc = "dump" /\ dpc' = "next" /\ k < i
    BY <1>10 DEF Dump
  <2>2. clr'["main"] = clr["main"] /\ (clr'["dump"] = clr["dump"] \/ clr'["dump"].frame = k - 1)
    BY <1>0, <1>10 DEF Dump, ClearFrame, Threads
  <2> QED
    BY <2>1, <2>2
<1>11. CASE DumpNext
  <2>1. /\ UNCHANGED <<setup, pc, i>> /\ dpc = "next" /\ dpc' \in {"wait", "last"} /\ k < i
        /\ clr["dump"] = Idle
    BY <1>11 DEF DumpNext
  <2>2. \A f \in Frames : commit_done'[f] => commit_done[f]
    BY <1>0, <1>11 DEF DumpNext, MainOK
  <2>3. clr'["main"] = clr["main"] /\ (clr'["dump"] = clr["dump"] \/ k + 1 >= setup.num)
    BY <1>0, <1>11 DEF DumpNext, ClearFrame, Threads
  <2>4. Busy("dump")' => i = setup.num
    <3>1. Busy("dump")' => k + 1 >= setup.num
      BY <2>1, <2>3 DEF Idle
    <3>2. k + 1 >= setup.num => i = setup.num
      BY <1>0, <2>1
    <3> QED
      BY <3>1, <3>2
  <2>5. ~Creating /\ ~Creating' /\ dpc' # "none"
    BY <2>1
  <2>6. \A f \in Frames : commit_done'[f] => f < i'
    BY <2>1, <2>2
  <2>7. dpc' \in {"dump", "next", "last"} => k' < i'
    BY <1>0, <1>11, <2>1 DEF DumpNext
  <2>8. Busy("main")' => pc' \in {"cancel", "end"}
    BY <2>1, <2>3
  <2> QED
    BY <2>1, <2>4, <2>5, <2>6, <2>7, <2>8
<1>12. ASSUME NEW t \in Threads, Clear(t) PROVE OnceInv'
  <2>1. UNCHANGED <<setup, pc, i, dpc, k, commit_done>>
    BY <1>12, ClearMoves
  <2>2. \A t2 \in Threads : Busy(t2)' => Busy(t2) /\ clr'[t2].frame = clr[t2].frame
    BY <1>12, ClearMoves
  <2>3. "main" \in Threads /\ "dump" \in Threads
    BY DEF Threads
  <2> QED
    BY <2>1, <2>2, <2>3
<1>13. CASE UNCHANGED vars
  BY <1>13 DEF vars
<1> QED
  BY <1>1, <1>2, <1>3, <1>4, <1>5, <1>6, <1>7, <1>8, <1>9, <1>10, <1>11, <1>12, <1>13
     DEF Next, Main, DumpThread
-----------------------------------------------------------------------------
(* The framebuffer ids.                                                    *)

LEMMA SlotIs ==
  ASSUME NEW s \in Slots
  PROVE  \/ \E f \in Frames, p \in Planes : s = <<"plane", f, p>>
         \/ \E f \in Frames, q \in Pipes : s = <<"pipe", f, q>>
  BY DEF Slots

LEMMA AreSlots ==
  /\ \A f \in Frames, p \in Planes : <<"plane", f, p>> \in Slots
  /\ \A f \in Frames, q \in Pipes : <<"pipe", f, q>> \in Slots
  BY DEF Slots

LEMMA IdsAre ==
  /\ \A f, p : Ids(<<"plane", f, p>>) = {plane[f][p].fb_id, plane[f][p].old_fb_id} \ {0}
  /\ \A f, q : Ids(<<"pipe", f, q>>) = {pipe[f][q].out_fb_id} \ {0}
  BY DEF Ids

LEMMA IdsAreNext ==
  /\ \A f, p : Ids(<<"plane", f, p>>)' = {plane'[f][p].fb_id, plane'[f][p].old_fb_id} \ {0}
  /\ \A f, q : Ids(<<"pipe", f, q>>)' = {pipe'[f][q].out_fb_id} \ {0}
  BY DEF Ids

LEMMA IdsKeep ==
  ASSUME UNCHANGED <<plane, pipe>>
  PROVE  \A s \in Slots : Ids(s)' = Ids(s)
  BY DEF Ids

\* A write to a plane or to a pipe changes the ids of that one only.
LEMMA PlaneIds ==
  ASSUME DataOK, NEW f \in Frames, NEW p \in Planes, NEW r, plane' = [plane EXCEPT ![f][p] = r],
         UNCHANGED pipe
  PROVE  /\ plane'[f][p] = r
         /\ \A g \in Frames, q \in Planes : ~(g = f /\ q = p) => plane'[g][q] = plane[g][q]
         /\ \A s \in Slots : Ids(s)' = IF s = <<"plane", f, p>> THEN {r.fb_id, r.old_fb_id} \ {0} ELSE Ids(s)
<1>1. plane \in [Frames -> [Planes -> PlaneRec(made)]]
  BY DEF DataOK, FieldsOK
<1>2. plane'[f][p] = r /\ \A g \in Frames, q \in Planes : ~(g = f /\ q = p) => plane'[g][q] = plane[g][q]
  BY <1>1
<1>3. ASSUME NEW s \in Slots \ {<<"plane", f, p>>} PROVE Ids(s)' = Ids(s)
  <2>1. CASE \E g \in Frames, q \in Planes : s = <<"plane", g, q>>
    <3>1. PICK g \in Frames, q \in Planes : s = <<"plane", g, q>>
      BY <2>1
    <3>2. plane'[g][q] = plane[g][q]
      BY <1>2, <1>3, <3>1
    <3> QED
      BY <3>1, <3>2, IdsAre, IdsAreNext
  <2>2. CASE \E g \in Frames, q \in Pipes : s = <<"pipe", g, q>>
    <3>1. PICK g \in Frames, q \in Pipes : s = <<"pipe", g, q>>
      BY <2>2
    <3>2. Ids(s) = {pipe[g][q].out_fb_id} \ {0}
      BY <3>1, IdsAre
    <3>3. Ids(s)' = {pipe'[g][q].out_fb_id} \ {0}
      BY <3>1, IdsAreNext
    <3> QED
      BY <3>2, <3>3
  <2> QED
    BY <2>1, <2>2, SlotIs
<1> QED
  BY <1>2, <1>3, IdsAreNext

\* The swap leaves the ids, and the buffers the frames show.
LEMMA SwapIds ==
  ASSUME MainOK, DataOK, SwapBos
  PROVE  /\ \A s \in Slots : Ids(s)' = Ids(s)
         /\ \A f \in Frames, p \in Planes : /\ plane'[f][p].fb_id = plane[f][p].fb_id
                                           /\ plane'[f][p].bo = plane[f][p].bo
<1>1. i \in Frames /\ x \in Planes /\ pipe' = pipe
  BY Where DEF SwapBos, Working
<1>2. PICK g \in Frames, q \in Planes : g = i /\ q = x
  BY <1>1
<1>3. PICK r : r = [plane[g][q] EXCEPT !.old_bo = plane[g][q].bo]
  OBVIOUS
<1>4. plane' = [plane EXCEPT ![g][q] = r]
  BY <1>2, <1>3 DEF SwapBos
<1>5. plane[g][q] \in PlaneRec(made)
  BY DEF DataOK, FieldsOK
<1>6. r.fb_id = plane[g][q].fb_id /\ r.old_fb_id = plane[g][q].old_fb_id /\ r.bo = plane[g][q].bo
  BY <1>3, <1>5 DEF PlaneRec
<1>7. /\ plane'[g][q] = r
      /\ \A h \in Frames, p \in Planes : ~(h = g /\ p = q) => plane'[h][p] = plane[h][p]
      /\ \A s \in Slots : Ids(s)' = IF s = <<"plane", g, q>> THEN {r.fb_id, r.old_fb_id} \ {0} ELSE Ids(s)
  BY <1>1, <1>4, PlaneIds
<1>8. Ids(<<"plane", g, q>>) = {r.fb_id, r.old_fb_id} \ {0}
  BY <1>6, IdsAre
<1>9. \A s \in Slots : Ids(s)' = Ids(s)
  BY <1>7, <1>8
<1> QED
  BY <1>6, <1>7, <1>9

LEMMA PipeIds ==
  ASSUME DataOK, NEW f \in Frames, NEW q \in Pipes, NEW r, pipe' = [pipe EXCEPT ![f][q] = r],
         UNCHANGED plane
  PROVE  /\ pipe'[f][q] = r
         /\ \A g \in Frames, p \in Pipes : ~(g = f /\ p = q) => pipe'[g][p] = pipe[g][p]
         /\ \A s \in Slots : Ids(s)' = IF s = <<"pipe", f, q>> THEN {r.out_fb_id} \ {0} ELSE Ids(s)
<1>1. pipe \in [Frames -> [Pipes -> PipeRec(made)]]
  BY DEF DataOK, FieldsOK
<1>2. pipe'[f][q] = r /\ \A g \in Frames, p \in Pipes : ~(g = f /\ p = q) => pipe'[g][p] = pipe[g][p]
  BY <1>1
<1>3. ASSUME NEW s \in Slots \ {<<"pipe", f, q>>} PROVE Ids(s)' = Ids(s)
  <2>1. CASE \E g \in Frames, p \in Planes : s = <<"plane", g, p>>
    <3>1. PICK g \in Frames, p \in Planes : s = <<"plane", g, p>>
      BY <2>1
    <3>2. Ids(s) = {plane[g][p].fb_id, plane[g][p].old_fb_id} \ {0}
      BY <3>1, IdsAre
    <3>3. Ids(s)' = {plane'[g][p].fb_id, plane'[g][p].old_fb_id} \ {0}
      BY <3>1, IdsAreNext
    <3> QED
      BY <3>2, <3>3
  <2>2. CASE \E g \in Frames, p \in Pipes : s = <<"pipe", g, p>>
    <3>1. PICK g \in Frames, p \in Pipes : s = <<"pipe", g, p>>
      BY <2>2
    <3>2. pipe'[g][p] = pipe[g][p]
      BY <1>2, <1>3, <3>1
    <3> QED
      BY <3>1, <3>2, IdsAre, IdsAreNext
  <2> QED
    BY <2>1, <2>2, SlotIs
<1> QED
  BY <1>2, <1>3, IdsAreNext

\* A created framebuffer shows the new buffer; its id is new to all that are in use.
LEMMA NewFramebuffer ==
  ASSUME DataOK, BoFbCreate
  PROVE  /\ NewFb \in FbIds /\ NewFb # 0 /\ fbs[NewFb] = 0 /\ fbs'[NewFb] = NewBo /\ NewBo # 0
         /\ \A id \in FbIds : id # NewFb => fbs'[id] = fbs[id]
         /\ NewBo = made + 1 /\ bos' = bos \cup {NewBo} /\ made' = NewBo
<1>1. NewFb \in FbIds /\ fbs[NewFb] = 0
  BY NewFbIsFree DEF BoFbCreate, AddFB
<1>2. fbs \in [FbIds -> 0 .. made] /\ made \in Nat
  BY DEF DataOK, PoolOK
<1> QED
  BY <1>1, <1>2, SizeAssumption DEF BoFbCreate, AddFB, MakeBo, NewBo, FbIds

\* A thread that clears a frame touches this frame and the ids in it; besides, it may
\* remove the ramless framebuffer.
Touches(t, f) ==
  /\ \A g \in Frames : g # f => plane'[g] = plane[g] /\ pipe'[g] = pipe[g] /\ cursor'[g] = cursor[g]
  /\ \A s \in Slots : Ids(s)' \subseteq Ids(s)
  /\ \A id \in FbIds : \/ fbs'[id] = fbs[id]
                       \/ id = ramless_fb_id /\ clr[t].stage = "rm_ramless"
                       \/ \E p \in Planes : id \in Ids(<<"plane", f, p>>)
                       \/ \E q \in Pipes : id \in Ids(<<"pipe", f, q>>) /\ id # ramless_fb_id
  /\ UNCHANGED ramless_fb_id \/ (ramless_fb_id' = 0 /\ clr[t].stage = "rm_ramless")

LEMMA ClearTouches ==
  ASSUME DataOK, ClearOK, NEW t \in Threads, Clear(t)
  PROVE  clr[t].frame \in Frames /\ Touches(t, clr[t].frame)
<1>0. PICK f \in Frames : f = clr[t].frame
  BY DEF ClearOK
<1> SUFFICES Touches(t, f)
  BY <1>0
<1>1. /\ clr[t].y \in Planes \cup {0}
      /\ clr[t].stage = "pipe" => clr[t].y \in Pipes
  BY DEF ClearOK, ClearIndex
<1>2. /\ plane \in [Frames -> [Planes -> PlaneRec(made)]] /\ pipe \in [Frames -> [Pipes -> PipeRec(made)]]
      /\ cursor \in [Frames -> 0 .. made] /\ fbs \in [FbIds -> 0 .. made] /\ 0 \notin FbIds
  BY SizeAssumption DEF DataOK, FieldsOK, PoolOK, FbIds
<1>3. CASE ClearCursor(t)
  BY <1>0, <1>2, <1>3, IdsKeep DEF Touches, ClearCursor, devVars
<1>4. CASE ClearPlane(t)
  <2>1. PICK h \in Frames, p \in Planes, r \in PlaneRec(made) :
          /\ h = clr[t].frame /\ p = clr[t].y /\ clr[t].stage \in PlaneStages
          /\ plane' = [plane EXCEPT ![h][p] = r] /\ UNCHANGED <<cursor, pipe, made, ramless_fb_id>>
          /\ r.fb_id = Or0(t, "fb_id", plane[h][p].fb_id)
          /\ r.old_fb_id = Or0(t, "old_fb_id", plane[h][p].old_fb_id)
          /\ r.bo = Or0(t, "bo", plane[h][p].bo)
          /\ r.old_bo = Or0(t, "old_bo", plane[h][p].old_bo)
    <3>1. FieldsOK /\ made \in Nat
      BY DEF DataOK, PoolOK
    <3> QED
      BY <1>4, <3>1, PlaneCleared
  <2> DEFINE s0 == <<"plane", f, p>>
  <2>2. h = f
    BY <1>0, <2>1
  <2>3. r.fb_id \in {0, plane[f][p].fb_id} /\ r.old_fb_id \in {0, plane[f][p].old_fb_id}
    BY <2>1, <2>2 DEF Or0
  <2>4. \A s \in Slots : Ids(s)' = IF s = s0 THEN {r.fb_id, r.old_fb_id} \ {0} ELSE Ids(s)
    <3>1. f \in Frames /\ p \in Planes /\ plane' = [plane EXCEPT ![f][p] = r] /\ pipe' = pipe
      BY <2>1, <2>2
    <3> QED
      BY <3>1, PlaneIds
  <2>5. \A s \in Slots : Ids(s)' \subseteq Ids(s)
    BY <2>3, <2>4, IdsAre
  <2>6. \A g \in Frames : g # f => plane'[g] = plane[g]
    BY <1>2, <2>1, <2>2
  <2>7. UNCHANGED fbs \/ RmFB(plane[f][p].fb_id) \/ RmFB(plane[f][p].old_fb_id)
    <3>1. f = clr[t].frame /\ p = clr[t].y
      BY <1>0, <2>1
    <3>2. CASE ClearFbId(t)
      BY <3>1, <3>2 DEF ClearFbId
    <3>3. CASE ClearOldFbId(t)
      BY <3>1, <3>3 DEF ClearOldFbId
    <3>4. ClearBo(t) => fbs' = fbs
      BY DEF ClearBo
    <3>5. ClearOldBo(t) => fbs' = fbs
      BY DEF ClearOldBo
    <3> QED
      BY <1>4, <3>2, <3>3, <3>4, <3>5 DEF ClearPlane
  <2>8. \A id \in FbIds : fbs'[id] = fbs[id] \/ id \in Ids(s0)
    BY <1>2, <2>7, IdsAre DEF RmFB
  <2> QED
    BY <2>1, <2>5, <2>6, <2>8 DEF Touches
<1>6. CASE ClearPipe(t)
  <2>1. UNCHANGED <<plane, cursor, ramless_fb_id>> /\ clr[t].y \in Pipes
    BY <1>1, <1>6 DEF ClearPipe, devVars
  <2>2. CASE setup.wb[f] = "stripe"
    BY <1>0, <1>2, <1>6, <2>1, <2>2, IdsKeep DEF Touches, ClearPipe
  <2>3. CASE setup.wb[f] # "stripe"
    <3>0. PICK q \in Pipes : q = clr[t].y
      BY <2>1
    <3> DEFINE shared == pipe[f][q].out_fb_id = ramless_fb_id
               s0 == <<"pipe", f, q>>
    <3>9. PICK r : r = [NoPipe EXCEPT !.out_fb_id = IF shared THEN ramless_fb_id ELSE 0]
      OBVIOUS
    <3>1. /\ pipe' = [pipe EXCEPT ![f][q] = r]
          /\ IF shared THEN UNCHANGED fbs ELSE RmFB(pipe[f][q].out_fb_id)
      BY <1>0, <1>6, <2>3, <3>0, <3>9 DEF ClearPipe
    <3>2. r.out_fb_id \in {0, pipe[f][q].out_fb_id}
      BY <3>9 DEF NoPipe
    <3>3. \A id \in FbIds : fbs'[id] = fbs[id] \/ (id = pipe[f][q].out_fb_id /\ id # ramless_fb_id)
      BY <1>2, <3>1 DEF RmFB
    <3> HIDE DEF shared
    <3>4. \A s \in Slots : Ids(s)' = IF s = s0 THEN {r.out_fb_id} \ {0} ELSE Ids(s)
      <4>1. f \in Frames /\ q \in Pipes /\ pipe' = [pipe EXCEPT ![f][q] = r] /\ plane' = plane
        BY <1>1, <2>1, <3>1
      <4> QED
        BY <4>1, PipeIds
    <3>5. \A s \in Slots : Ids(s)' \subseteq Ids(s)
      BY <3>2, <3>4, IdsAre
    <3>6. \A g \in Frames : g # f => pipe'[g] = pipe[g]
      BY <1>2, <3>1
    <3>7. \A id \in FbIds : fbs'[id] = fbs[id] \/ (id \in Ids(s0) /\ id # ramless_fb_id)
      BY <1>2, <3>3, IdsAre
    <3> QED
      BY <2>1, <3>5, <3>6, <3>7 DEF Touches
  <2> QED
    BY <2>2, <2>3
<1>7. CASE ClearRamless(t)
  BY <1>0, <1>7, IdsKeep DEF Touches, ClearRamless, fieldVars, devVars, poolVars
<1>8. CASE ClearRmRamless(t)
  BY <1>0, <1>2, <1>8, IdsKeep DEF Touches, ClearRmRamless, fieldVars, RmFB
<1> QED
  BY <1>3, <1>4, <1>6, <1>7, <1>8 DEF Clear, ClearPlane
-----------------------------------------------------------------------------
(* VCMD mode in one round.                                                 *)

\* A step that leaves the framebuffers and their ids alone, and prepares nothing.
LEMMA VcmdKeeps ==
  ASSUME VcmdInv, UNCHANGED <<setup, plane, pipe, fbs, ramless_fb_id>>, ~Creating',
         \A f \in Frames, p \in Planes : PlaneReady(f, p)' => PlaneReady(f, p),
         \A f \in Frames, q \in Pipes : PipeReady(f, q)' => PipeReady(f, q)
  PROVE  VcmdInv'
<1> SUFFICES ASSUME setup.recycle = 1, setup.use_vcmd PROVE VcmdInv'
  BY DEF VcmdInv
<1>1. \A s \in Slots : Ids(s)' = Ids(s)
  BY IdsKeep
<1>2. \A s1, s2 \in Slots : s1 # s2 => (Ids(s1) \cap Ids(s2))' = {}
  BY <1>1 DEF VcmdInv
<1>3. \A f \in Frames, p \in Planes : PlaneReady(f, p)' => Shows(plane[f][p].fb_id, plane[f][p].bo)'
  BY DEF VcmdInv, Shows
<1>4. \A f \in Frames, q \in Pipes : PipeReady(f, q)' => Shows(pipe[f][q].out_fb_id, pipe[f][q].out_bo)'
  BY DEF VcmdInv, Shows
<1> QED
  BY <1>2, <1>3, <1>4 DEF VcmdInv

\* A new framebuffer in slot s0: the slots still have different ones.
LEMMA VcmdMakes ==
  ASSUME DataOK, VcmdInv, Creating, BoFbCreate, setup.recycle = 1, setup.use_vcmd,
         NEW s0 \in Slots, Ids(s0)' \subseteq {NewFb},
         \A s \in Slots \ {s0} : Ids(s)' = Ids(s)
  PROVE  /\ \A s \in Slots : \A id \in Ids(s)' : fbs'[id] # 0
         /\ \A s1, s2 \in Slots : s1 # s2 => Ids(s1)' \cap Ids(s2)' = {}
<1>1. PICK n \in FbIds : n = NewFb
  BY NewFramebuffer
<1>2. fbs[n] = 0 /\ fbs'[n] # 0 /\ \A id \in FbIds : id # n => fbs'[id] = fbs[id]
  BY <1>1, NewFramebuffer
<1>3. \A s \in Slots : Ids(s) \subseteq FbIds
  <2>1. \A f \in Frames : /\ \A p \in Planes : plane[f][p] \in PlaneRec(made)
                          /\ \A q \in Pipes : pipe[f][q] \in PipeRec(made)
    BY DEF DataOK, FieldsOK
  <2> QED
    BY <2>1, SlotIs, IdsAre DEF PlaneRec, PipeRec, FbIds0
<1>4. \A s \in Slots : n \notin Ids(s)
  BY <1>2 DEF VcmdInv
<1>5. ASSUME NEW s \in Slots, NEW id \in Ids(s)' PROVE fbs'[id] # 0
  <2>1. CASE s = s0
    BY <1>1, <1>2, <1>5, <2>1
  <2>2. CASE s # s0
    <3>1. id \in Ids(s) /\ id \in FbIds /\ fbs[id] # 0
      BY <1>3, <1>5, <2>2 DEF VcmdInv
    <3> QED
      BY <1>2, <3>1
  <2> QED
    BY <2>1, <2>2
<1>6. ASSUME NEW s1 \in Slots, NEW s2 \in Slots, s1 # s2 PROVE Ids(s1)' \cap Ids(s2)' = {}
  <2>1. Ids(s1) \cap Ids(s2) = {}
    BY <1>6 DEF VcmdInv
  <2>2. CASE s1 = s0
    <3>1. Ids(s1)' \subseteq {n} /\ Ids(s2)' = Ids(s2)
      BY <1>1, <1>6, <2>2
    <3> QED
      BY <1>4, <3>1
  <2>3. CASE s2 = s0
    <3>1. Ids(s2)' \subseteq {n} /\ Ids(s1)' = Ids(s1)
      BY <1>1, <1>6, <2>3
    <3> QED
      BY <1>4, <3>1
  <2>4. CASE s1 # s0 /\ s2 # s0
    BY <2>1, <2>4
  <2> QED
    BY <2>2, <2>3, <2>4
<1> QED
  BY <1>5, <1>6

\* What showed its buffer still shows it when another framebuffer was created.
LEMMA StillShows ==
  ASSUME DataOK, VcmdInv, Creating, BoFbCreate, setup.recycle = 1, setup.use_vcmd
  PROVE  /\ \A f \in Frames, p \in Planes :
              Shows(plane[f][p].fb_id, plane[f][p].bo) => fbs'[plane[f][p].fb_id] = plane[f][p].bo
         /\ \A f \in Frames, q \in Pipes :
              Shows(pipe[f][q].out_fb_id, pipe[f][q].out_bo) =>
                fbs'[pipe[f][q].out_fb_id] = pipe[f][q].out_bo
<1>1. fbs[NewFb] = 0 /\ \A id \in FbIds : id # NewFb => fbs'[id] = fbs[id]
  BY NewFramebuffer
<1>2. ASSUME NEW s \in Slots, NEW id \in Ids(s), id \in FbIds PROVE fbs'[id] = fbs[id]
  <2>1. fbs[id] # 0
    BY DEF VcmdInv
  <2> QED
    BY <1>1, <1>2, <2>1
<1>3. ASSUME NEW f \in Frames, NEW p \in Planes, plane[f][p].fb_id # 0
      PROVE  fbs'[plane[f][p].fb_id] = fbs[plane[f][p].fb_id]
  <2>1. plane[f][p] \in PlaneRec(made) /\ <<"plane", f, p>> \in Slots
    BY AreSlots DEF DataOK, FieldsOK
  <2>2. plane[f][p].fb_id \in Ids(<<"plane", f, p>>) /\ plane[f][p].fb_id \in FbIds
    BY <1>3, <2>1, IdsAre DEF PlaneRec, FbIds0
  <2> QED
    BY <1>2, <2>1, <2>2
<1>4. ASSUME NEW f \in Frames, NEW q \in Pipes, pipe[f][q].out_fb_id # 0
      PROVE  fbs'[pipe[f][q].out_fb_id] = fbs[pipe[f][q].out_fb_id]
  <2>1. pipe[f][q] \in PipeRec(made) /\ <<"pipe", f, q>> \in Slots
    BY AreSlots DEF DataOK, FieldsOK
  <2>2. pipe[f][q].out_fb_id \in Ids(<<"pipe", f, q>>) /\ pipe[f][q].out_fb_id \in FbIds
    BY <1>4, <2>1, IdsAre DEF PipeRec, FbIds0
  <2> QED
    BY <1>2, <2>1, <2>2
<1> QED
  BY <1>3, <1>4 DEF Shows

LEMMA VcmdCreateWb ==
  ASSUME MainOK, DataOK, VcmdInv, CreateWb PROVE VcmdInv'
<1> SUFFICES ASSUME setup.recycle = 1, setup.use_vcmd PROVE VcmdInv'
  BY DEF VcmdInv, CreateWb
<1>0. pc = "create_wb" /\ BoFbCreate /\ UNCHANGED <<setup, i, plane, ramless_fb_id>> /\ Creating
  BY DEF CreateWb, devVars, Creating
<1>1. PICK f \in Frames, q \in Pipes : f = i /\ q = x
  BY <1>0, Where DEF Working
<1>2. PICK r : r = [out_bo |-> NewBo, out_fb_id |-> NewFb]
  OBVIOUS
<1>3. r.out_bo = NewBo /\ r.out_fb_id = NewFb /\ pipe' = [pipe EXCEPT ![f][q] = r]
  BY <1>1, <1>2 DEF CreateWb
<1>4. pipe'[f][q] = r /\ \A g \in Frames, p \in Pipes : ~(g = f /\ p = q) => pipe'[g][p] = pipe[g][p]
  BY <1>3 DEF DataOK, FieldsOK
<1>5. PICK s0 \in Slots : s0 = <<"pipe", f, q>>
  BY AreSlots
<1>6. \A s \in Slots : Ids(s)' = IF s = s0 THEN {r.out_fb_id} \ {0} ELSE Ids(s)
  <2>1. \A s \in Slots : Ids(s)' = IF s = <<"pipe", f, q>> THEN {r.out_fb_id} \ {0} ELSE Ids(s)
    BY <1>0, <1>3, PipeIds
  <2> QED
    BY <1>5, <2>1
<1>7. /\ \A s \in Slots : \A id \in Ids(s)' : fbs'[id] # 0
      /\ \A s1, s2 \in Slots : s1 # s2 => Ids(s1)' \cap Ids(s2)' = {}
  BY <1>0, <1>3, <1>6, VcmdMakes
<1>8. \/ x + 1 < NumPipes /\ x' = x + 1 /\ pc' = "create_wb"
      \/ ~(x + 1 < NumPipes) /\ x' = 0 /\ pc' = "create_plane"
  BY DEF CreateWb
<1>9. ASSUME NEW g \in Frames, NEW p \in Planes, PlaneReady(g, p)'
      PROVE  Shows(plane[g][p].fb_id, plane[g][p].bo)'
  <2>1. PlaneReady(g, p)
    BY <1>0, <1>1, <1>8, <1>9 DEF PlaneReady, Pipes, Frames
  <2> QED
    BY <1>0, <2>1, StillShows DEF VcmdInv, Shows
<1>10. ASSUME NEW g \in Frames, NEW p \in Pipes, PipeReady(g, p)'
       PROVE  Shows(pipe[g][p].out_fb_id, pipe[g][p].out_bo)'
  <2>0. CASE g = f /\ p = q
    BY <1>0, <1>3, <1>4, <2>0, NewFramebuffer DEF Shows
  <2>9. CASE ~(g = f /\ p = q)
    <3>1. PipeReady(g, p)
      <4>1. f \in Nat /\ g \in Nat /\ q \in Nat /\ p \in Nat /\ p < NumPipes
        BY SizeAssumption DEF Frames, Pipes
      <4>2. CASE pc' = "create_wb"
        BY <1>0, <1>1, <1>8, <1>10, <2>9, <4>1, <4>2 DEF PipeReady
      <4>3. CASE pc' = "create_plane"
        BY <1>0, <1>1, <1>8, <1>10, <2>9, <4>1, <4>3, SizeAssumption DEF PipeReady
      <4> QED
        BY <1>8, <4>2, <4>3
    <3> QED
      BY <1>0, <1>4, <2>9, <3>1, StillShows DEF VcmdInv, Shows
  <2> QED
    BY <2>0, <2>9
<1> QED
  BY <1>0, <1>7, <1>9, <1>10 DEF VcmdInv

LEMMA VcmdCreatePlane ==
  ASSUME NumPlanes = NumPipes, MainOK, DataOK, FreshInv, VcmdInv, CreatePlane PROVE VcmdInv'
<1> SUFFICES ASSUME setup.recycle = 1, setup.use_vcmd PROVE VcmdInv'
  BY DEF VcmdInv, CreatePlane
<1>0. /\ pc = "create_plane" /\ SetPlane /\ UNCHANGED <<setup, pipe, ramless_fb_id>> /\ Creating
      /\ Planes = Pipes
  BY DEF CreatePlane, devVars, Creating, Planes, Pipes
<1>1. PICK f \in Frames, q \in Planes : f = i /\ q = x
  BY <1>0, Where DEF Working
<1>2. plane_bo = 0 /\ plane[f][q] \in PlaneRec(made)
  BY <1>0 DEF FreshInv, DataOK, FieldsOK
<1>3. BoFbCreate /\ plane' = [plane EXCEPT ![f][q] = PlaneSet(plane[f][q], NewBo, NewFb)]
  BY <1>0, <1>1, <1>2 DEF SetPlane
<1>4. PICK r : r = PlaneSet(plane[f][q], NewBo, NewFb)
  OBVIOUS
<1>5. r.bo = NewBo /\ r.fb_id = NewFb /\ r.old_fb_id = NewFb
  BY <1>2, <1>4 DEF PlaneSet, PlaneRec
<1>6. plane' = [plane EXCEPT ![f][q] = r]
  BY <1>3, <1>4
<1>7. plane'[f][q] = r /\ \A g \in Frames, p \in Planes : ~(g = f /\ p = q) => plane'[g][p] = plane[g][p]
  BY <1>6 DEF DataOK, FieldsOK
<1>8. PICK s0 \in Slots : s0 = <<"plane", f, q>>
  BY AreSlots
<1>9. \A s \in Slots : Ids(s)' = IF s = s0 THEN {r.fb_id, r.old_fb_id} \ {0} ELSE Ids(s)
  <2>1. \A s \in Slots : Ids(s)' = IF s = <<"plane", f, q>> THEN {r.fb_id, r.old_fb_id} \ {0} ELSE Ids(s)
    <3>1. pipe' = pipe
      BY <1>0
    <3> QED
      BY <1>6, <3>1, PlaneIds
  <2> QED
    BY <1>8, <2>1
<1>10. /\ \A s \in Slots : \A id \in Ids(s)' : fbs'[id] # 0
       /\ \A s1, s2 \in Slots : s1 # s2 => Ids(s1)' \cap Ids(s2)' = {}
  <2>1. Ids(s0)' \subseteq {NewFb} /\ \A s \in Slots \ {s0} : Ids(s)' = Ids(s)
    BY <1>5, <1>9
  <2> QED
    BY <1>0, <1>3, <2>1, VcmdMakes
<1>12. \/ x + 1 < NumPipes /\ x' = x + 1 /\ i' = i /\ pc' = "create_plane"
       \/ ~(x + 1 < NumPipes) /\ i + 1 < setup.num /\ x' = 0 /\ i' = i + 1 /\ pc' = "create_wb"
       \/ ~(x + 1 < NumPipes) /\ ~(i + 1 < setup.num) /\ x' = 0 /\ i' = 0 /\ pc' = "props"
  BY <1>0 DEF CreatePlane
<1>13. f \in Nat /\ q \in Nat /\ setup.num \in Nat
  BY Where DEF Frames, Planes
<1>14. ASSUME NEW g \in Frames, NEW p \in Planes, PlaneReady(g, p)'
       PROVE  Shows(plane[g][p].fb_id, plane[g][p].bo)'
  <2>1. CASE g = f /\ p = q
    BY <1>3, <1>5, <1>7, <2>1, NewFramebuffer DEF Shows
  <2>2. CASE ~(g = f /\ p = q)
    <3>1. PlaneReady(g, p)
      <4>1. g \in Nat /\ p \in Nat /\ p < NumPipes /\ p \in Pipes
        BY <1>0, SizeAssumption DEF Frames, Pipes
      <4>2. CASE pc' = "create_plane"
        BY <1>0, <1>1, <1>12, <1>13, <1>14, <2>2, <4>1, <4>2 DEF PlaneReady
      <4>3. CASE pc' = "create_wb"
        BY <1>0, <1>1, <1>12, <1>13, <1>14, <2>2, <4>1, <4>3, SizeAssumption DEF PlaneReady
      <4>4. CASE pc' = "props"
        BY <1>0, <1>1, <1>12, <1>13, <1>14, <2>2, <4>1, <4>4, SizeAssumption DEF PlaneReady
      <4> QED
        BY <1>12, <4>2, <4>3, <4>4
    <3> QED
      BY <1>0, <1>3, <1>7, <2>2, <3>1, StillShows DEF VcmdInv, Shows
  <2> QED
    BY <2>1, <2>2
<1>15. ASSUME NEW g \in Frames, NEW p \in Pipes, PipeReady(g, p)'
       PROVE  Shows(pipe[g][p].out_fb_id, pipe[g][p].out_bo)'
  <2>1. PipeReady(g, p)
    <3>1. g \in Nat /\ p \in Nat
      BY DEF Frames, Pipes
    <3> QED
      BY <1>0, <1>1, <1>12, <1>13, <1>15, <3>1 DEF PipeReady, Pipes
  <2> QED
    BY <1>0, <1>3, <2>1, StillShows DEF VcmdInv, Shows
<1> QED
  BY <1>0, <1>10, <1>14, <1>15 DEF VcmdInv

LEMMA VcmdClear ==
  ASSUME MainOK, ClearOK, DataOK, OnceInv, VcmdInv, NEW t \in Threads, Clear(t) PROVE VcmdInv'
<1>0. UNCHANGED <<setup, pc, i, x>> /\ Busy(t)
  BY ClearMoves DEF mainVars
<1> SUFFICES ASSUME setup.recycle = 1, setup.use_vcmd PROVE VcmdInv'
  BY <1>0 DEF VcmdInv
<1>1. ~Creating /\ (pc \in Working => t = "dump")
  BY <1>0 DEF OnceInv, Creating, Threads, Working
<1>2. PICK f \in Frames : f = clr[t].frame
  BY ClearTouches
<1>3. Touches(t, f)
  BY <1>2, ClearTouches
<1>4. ASSUME pc \in Working, NEW g \in Frames, i <= g PROVE g # f
  <2>1. clr["dump"].frame + 1 < i
    BY <1>0, <1>1, <1>4 DEF OnceInv, MainOK, MainIndex
  <2> QED
    BY <1>1, <1>2, <1>4, <2>1, Where DEF Frames
<1>5. ASSUME NEW s \in Slots, NEW id \in Ids(s), id \in FbIds,
             \A p \in Planes : s # <<"plane", f, p>>,
             \A q \in Pipes : s # <<"pipe", f, q>>
      PROVE  fbs'[id] = fbs[id]
  <2>1. id # ramless_fb_id
    BY <1>5, SizeAssumption DEF VcmdInv, FbIds
  <2>2. \A p \in Planes : id \notin Ids(<<"plane", f, p>>)
    BY <1>5, AreSlots DEF VcmdInv
  <2>3. \A q \in Pipes : id \notin Ids(<<"pipe", f, q>>)
    BY <1>5, AreSlots DEF VcmdInv
  <2> QED
    BY <1>3, <1>5, <2>1, <2>2, <2>3 DEF Touches
<1>6. ASSUME NEW g \in Frames, NEW p \in Planes, PlaneReady(g, p)'
      PROVE  Shows(plane[g][p].fb_id, plane[g][p].bo)'
  <2>1. PlaneReady(g, p) /\ pc \in Working /\ i <= g
    BY <1>0, <1>1, <1>6 DEF PlaneReady, Creating
  <2>2. g # f /\ plane'[g][p] = plane[g][p]
    BY <1>3, <1>4, <2>1 DEF Touches
  <2>3. Shows(plane[g][p].fb_id, plane[g][p].bo)
    BY <2>1 DEF VcmdInv
  <2>4. plane[g][p] \in PlaneRec(made) /\ <<"plane", g, p>> \in Slots
    BY AreSlots DEF DataOK, FieldsOK
  <2>5. plane[g][p].fb_id \in Ids(<<"plane", g, p>>) /\ plane[g][p].fb_id \in FbIds
    BY <2>3, <2>4, IdsAre DEF Shows, PlaneRec, FbIds0
  <2>6. fbs'[plane[g][p].fb_id] = fbs[plane[g][p].fb_id]
    BY <1>5, <2>2, <2>4, <2>5
  <2> QED
    BY <2>2, <2>3, <2>6 DEF Shows
<1>7. ASSUME NEW g \in Frames, NEW q \in Pipes, PipeReady(g, q)'
      PROVE  Shows(pipe[g][q].out_fb_id, pipe[g][q].out_bo)'
  <2>1. PipeReady(g, q) /\ pc \in Working /\ i <= g
    BY <1>0, <1>1, <1>7 DEF PipeReady, Creating
  <2>2. g # f /\ pipe'[g][q] = pipe[g][q]
    BY <1>3, <1>4, <2>1 DEF Touches
  <2>3. Shows(pipe[g][q].out_fb_id, pipe[g][q].out_bo)
    BY <2>1 DEF VcmdInv
  <2>4. pipe[g][q] \in PipeRec(made) /\ <<"pipe", g, q>> \in Slots
    BY AreSlots DEF DataOK, FieldsOK
  <2>5. pipe[g][q].out_fb_id \in Ids(<<"pipe", g, q>>) /\ pipe[g][q].out_fb_id \in FbIds
    BY <2>3, <2>4, IdsAre DEF Shows, PipeRec, FbIds0
  <2>6. fbs'[pipe[g][q].out_fb_id] = fbs[pipe[g][q].out_fb_id]
    BY <1>5, <2>2, <2>4, <2>5
  <2> QED
    BY <2>2, <2>3, <2>6 DEF Shows
<1>8. \A s1, s2 \in Slots : s1 # s2 => Ids(s1)' \cap Ids(s2)' = {}
  BY <1>3 DEF Touches, VcmdInv
<1>9. ramless_fb_id' = 0 /\ ~Creating'
  BY <1>0, <1>1, <1>3 DEF Touches, VcmdInv, Creating
<1> QED
  BY <1>6, <1>7, <1>8, <1>9 DEF VcmdInv

LEMMA VcmdInvStep ==
  ASSUME NumPlanes = NumPipes, MainOK, ClearOK, DataOK, FreshInv, OnceInv, VcmdInv, [Next]_vars
  PROVE  VcmdInv'
<1> SUFFICES ASSUME setup.recycle = 1, setup.use_vcmd PROVE VcmdInv'
  BY SetupStays DEF VcmdInv
<1>0. setup' = setup
  BY SetupStays
<1>1. CASE CreateWb
  BY <1>1, VcmdCreateWb
<1>2. CASE CreatePlane
  BY <1>2, VcmdCreatePlane
<1>3. CASE CreateFails
  <2>1. pc' = "final" /\ UNCHANGED <<fbs, plane, pipe, ramless_fb_id>>
    BY <1>3 DEF CreateFails, Fails, BoFbCreateFails, SetPlaneFails, devVars
  <2> QED
    BY <1>0, <2>1, VcmdKeeps DEF Creating, PlaneReady, PipeReady, Working
<1>10. CASE SwapBos
  <2>1. UNCHANGED <<setup, pc, i, x, pipe, fbs, ramless_fb_id>>
    BY <1>10 DEF SwapBos, mainVars, devVars, poolVars
  <2>2. \A s \in Slots : Ids(s)' = Ids(s)
    BY <1>10, SwapIds
  <2>3. \A f \in Frames, p \in Planes : PlaneReady(f, p)' => Shows(plane[f][p].fb_id, plane[f][p].bo)'
    BY <1>10, <2>1, SwapIds DEF VcmdInv, PlaneReady, Shows
  <2>4. \A f \in Frames, q \in Pipes : PipeReady(f, q)' => Shows(pipe[f][q].out_fb_id, pipe[f][q].out_bo)'
    BY <2>1 DEF VcmdInv, PipeReady, Shows
  <2> QED
    BY <2>1, <2>2, <2>3, <2>4 DEF VcmdInv, Creating
<1>4. CASE SetProps \/ SetCursor \/ Commit
  <2>1. /\ UNCHANGED <<plane, pipe, fbs, ramless_fb_id>>
        /\ pc \in {"props", "cursor", "commit"} /\ i' \in {i, i + 1}
        /\ pc' \in {"props", "wb", "cursor", "commit", "join"}
    BY <1>4 DEF SetProps, SetCursor, Commit, devVars, poolVars, fieldVars
  <2>2. \A f \in Frames : i' <= f => i <= f
    BY <2>1, Where DEF Frames
  <2> QED
    BY <1>0, <2>1, <2>2, VcmdKeeps DEF Creating, PlaneReady, PipeReady, Working
<1>5. CASE SetWb \/ SetPlanes \/ SetBuffersFails
  BY <1>5 DEF SetWb, SetPlanes, SetBuffersFails, MainOK, MainIndex
<1>6. CASE SetPropsFails \/ SetCursorFails \/ CommitFails \/ Cancel \/ Join \/ Final
  <2>1. pc' \in {"cancel", "join", "final", "end"} /\ UNCHANGED <<plane, pipe, fbs, ramless_fb_id>>
    <3>1. CASE Join
      BY <3>1 DEF Join, MainOK, fieldVars, devVars, poolVars
    <3>2. CASE SetPropsFails \/ SetCursorFails \/ CommitFails \/ Cancel \/ Final
      BY <3>2 DEF SetPropsFails, SetCursorFails, CommitFails, Cancel, Final, SetFrameFails, Fails,
                  fieldVars, devVars, poolVars
    <3> QED
      BY <1>6, <3>1, <3>2
  <2> QED
    BY <1>0, <2>1, VcmdKeeps DEF Creating, PlaneReady, PipeReady, Working
<1>7. CASE DumpThread
  <2>1. UNCHANGED <<mainVars, plane, pipe, fbs, ramless_fb_id>>
    BY <1>7 DEF DumpThread, DumpTakes, Dump, DumpFails, DumpNext, DumpEnds, DumpDies, fieldVars, devVars,
                poolVars
  <2> QED
    BY <1>0, <2>1, IdsKeep DEF mainVars, VcmdInv, Creating, PlaneReady, PipeReady, Shows
<1>8. ASSUME NEW t \in Threads, Clear(t) PROVE VcmdInv'
  BY <1>8, VcmdClear
<1>9. CASE UNCHANGED vars
  BY <1>0, <1>9, IdsKeep
     DEF vars, mainVars, fieldVars, poolVars, devVars, VcmdInv, Creating, PlaneReady, PipeReady, Shows
<1> QED
  BY <1>1, <1>2, <1>3, <1>4, <1>5, <1>6, <1>7, <1>8, <1>9, <1>10 DEF Next, Main

LEMMA OnceInvHolds == Spec => []OnceInv
<1>1. Init => OnceInv
  BY DEF Init, OnceInv, Busy, Idle, Creating, Threads
<1>2. TypeInv /\ OnceInv /\ [Next]_vars => OnceInv'
  BY Types, OnceInvStep
<1>3. Spec => []TypeInv
  BY TypeInvInit, TypeInvStep, PTL DEF Spec
<1> QED
  BY <1>1, <1>2, <1>3, PTL DEF Spec

\* The runs the next theorem is about: a run of VCMD mode has one round.
VcmdOnce == \A s \in Setups : s.use_vcmd => s.recycle = 1

\* In VCMD mode, with as many planes as pipes and in one round, every frame is committed with
\* framebuffers that exist and show its own buffers, however the dump thread releases the frames
\* before, and whatever failed.
THEOREM CommitsPrepared ==
  ASSUME NumPlanes = NumPipes, VcmdOnce PROVE Spec => []CommitsOwnFbs
<1>1. Init => VcmdInv
  BY IdsAre, SlotIs DEF Init, VcmdInv, NoPlane, NoPipe, PlaneReady, PipeReady, Frames, Pipes
<1>2. TypeInv /\ FreshInv /\ OnceInv /\ VcmdInv /\ [Next]_vars => VcmdInv'
  BY Types, VcmdInvStep
<1>3. TypeInv /\ VcmdInv => CommitsOwnFbs
  <2> SUFFICES ASSUME TypeInv, VcmdInv, pc = "commit", setup.use_vcmd PROVE CommitsOwnFbs
    BY DEF CommitsOwnFbs
  <2>1. MainOK /\ Planes = Pipes
    BY Types DEF Planes, Pipes
  <2>2. setup.recycle = 1 /\ i \in Frames /\ i <= i /\ i < setup.num
    BY <2>1, Where DEF VcmdOnce, MainOK, MainIndex, Working
  <2> QED
    BY <2>1, <2>2 DEF VcmdInv, CommitsOwnFbs, PlaneReady, PipeReady, Working
<1>4. Spec => []TypeInv
  BY TypeInvInit, TypeInvStep, PTL DEF Spec
<1> QED
  BY <1>1, <1>2, <1>3, <1>4, FreshInvHolds, OnceInvHolds, PTL DEF Spec
-----------------------------------------------------------------------------
(* The framebuffer of a ramless pipe.                                      *)

NoRamless == setup.use_vcmd \/ \A f \in Frames : setup.wb[f] # "ramless"
RamZeroInv == NoRamless => ramless_fb_id = 0 /\ ramless_value = 0

LEMMA RamZeroInvStep ==
  ASSUME MainOK, RamZeroInv, [Next]_vars PROVE RamZeroInv'
<1> SUFFICES ASSUME NoRamless PROVE RamZeroInv'
  BY SetupStays DEF RamZeroInv, NoRamless
<1>1. CASE SetProps
  BY <1>1, Where, Run DEF SetProps, RamZeroInv, Working
<1>2. CASE SetWb
  BY <1>2, Where DEF SetWb, StripeWb, PipeWb, RamZeroInv, NoRamless, Working, MainOK, MainIndex
<1>3. ASSUME NEW t \in Threads, Clear(t) PROVE RamZeroInv'
  BY <1>3 DEF Clear, ClearCursor, ClearFbId, ClearOldFbId, ClearBo, ClearOldBo, ClearPipe, ClearRamless,
              ClearRmRamless, RamZeroInv, devVars
<1>4. CASE UNCHANGED devVars
  BY <1>4 DEF RamZeroInv, devVars
<1>5. CASE Main /\ ~SetProps /\ ~SetWb
  <2>1. UNCHANGED devVars
    BY <1>5 DEF Main, CreateWb, SwapBos, CreatePlane, CreateFails, SetPropsFails, SetPlanes, SetBuffersFails,
                SetCursor, SetCursorFails, Commit, CommitFails, Cancel, Join, Final
  <2> QED
    BY <1>4, <2>1
<1>6. CASE DumpThread \/ UNCHANGED vars
  <2>1. UNCHANGED devVars
    BY <1>6 DEF DumpThread, DumpTakes, Dump, DumpFails, DumpNext, DumpEnds, DumpDies, vars
  <2> QED
    BY <1>4, <2>1
<1> QED
  BY <1>1, <1>2, <1>3, <1>5, <1>6 DEF Next

\* The property RAMLESS_FB is on from frame 1 to frame f.
InUse(f) == setup.ramless[1] = "on" /\ \A h \in Frames : 1 <= h /\ h <= f => setup.ramless[h] # "off"
\* The last frame whose properties were set.
LastRead(f) == IF pc = "props" THEN f + 1 = i ELSE f = i

\* A ramless pipe is in frame 0 only, and a frame that uses its framebuffer is one of a
\* sequence from frame 1 on.
RamlessFirst ==
  /\ setup.recycle = 1 /\ ~setup.use_vcmd
  /\ \A f \in Frames : setup.wb[f] = "ramless" => f = 0
  /\ \A f \in Frames : f > 0 /\ setup.ramless[f] = "on" => InUse(f)

RamInv == RamlessFirst =>
  /\ pc \in Working => \A f \in Frames : LastRead(f) /\ 1 <= f /\ InUse(f) => fb_inuse
  /\ pc \in Working /\ clr["dump"].stage = "rm_ramless" => \A f \in Frames : LastRead(f) => ~InUse(f)
  /\ pc \in {"wb", "planes", "cursor", "commit"} /\ ramless_value # 0 =>
       i > 0 /\ setup.ramless[i] = "on" /\ ramless_value = ramless_fb_id
  /\ pc \in {"props", "wb"} /\ i = 0 =>
       /\ pc = "props" => ramless_fb_id = 0
       /\ \A f \in Frames, p \in Planes : Ids(<<"plane", f, p>>) = {}
  /\ pc \in Working /\ ramless_fb_id # 0 =>
       /\ fbs[ramless_fb_id] # 0
       /\ \A f \in Frames, p \in Planes : ramless_fb_id \notin Ids(<<"plane", f, p>>)

LEMMA RamSetProps ==
  ASSUME MainOK, ClearOK, DataOK, OnceInv, RamInv, RamlessFirst, SetProps PROVE RamInv'
<1>1. /\ pc = "props" /\ pc' = "wb" /\ i \in Frames /\ i \in Nat /\ i < setup.num
      /\ UNCHANGED <<setup, i, clr, plane, fbs, ramless_fb_id, pipe>>
  BY Where DEF SetProps, RamlessFirst, Working, fieldVars, poolVars, MainOK, MainIndex
<1>2. /\ setup.ramless[i] \in {"absent", "on", "off"}
      /\ setup.ramless[i] = "on" => fb_inuse' /\ ramless_value' = ramless_fb_id
      /\ setup.ramless[i] # "on" => ramless_value' = 0
  BY <1>1, Run DEF SetProps
<1>10. setup.ramless[i] = "absent" => (fb_inuse => fb_inuse')
  BY DEF SetProps
<1>3. ASSUME i > 1, InUse(i)
      PROVE  \E f \in Frames : LastRead(f) /\ 1 <= f /\ InUse(f)
  <2>1. i - 1 \in Frames
    BY <1>1, <1>3, Sizes DEF Frames
  <2>2. InUse(i - 1)
    BY <1>1, <1>3 DEF InUse, Frames
  <2> QED
    BY <1>1, <1>3, <2>1, <2>2 DEF LastRead
<1>4. ASSUME 1 <= i, InUse(i) PROVE fb_inuse'
  <2>1. setup.ramless[i] # "off" /\ (i = 1 => setup.ramless[i] # "absent")
    BY <1>1, <1>4 DEF InUse
  <2>2. i > 1 => fb_inuse
    BY <1>1, <1>3, <1>4 DEF RamInv, Working
  <2> QED
    BY <1>1, <1>2, <1>4, <1>10, <2>1, <2>2
<1>5. ASSUME clr["dump"].stage = "rm_ramless" PROVE ~InUse(i)
  <2>1. i > 1
    BY <1>1, <1>5 DEF OnceInv, RamlessFirst, Busy, ClearOK, Frames, Threads
  <2> QED
    BY <1>1, <1>3, <1>5, <2>1 DEF RamInv, Working
<1>6. ASSUME ramless_value' # 0 PROVE i > 0 /\ setup.ramless[i] = "on" /\ ramless_value' = ramless_fb_id
  BY <1>1, <1>2, <1>6 DEF RamInv
<1>7. \A s \in Slots : Ids(s)' = Ids(s)
  BY <1>1, IdsKeep
<1>8. \A f \in Frames, p \in Planes : Ids(<<"plane", f, p>>)' = Ids(<<"plane", f, p>>)
  BY <1>7, AreSlots
<1>9. \A f : InUse(f)' = InUse(f) /\ (LastRead(f)' <=> f = i)
  BY <1>1 DEF InUse, LastRead
<1> QED
  BY <1>1, <1>4, <1>5, <1>6, <1>8, <1>9 DEF RamInv, Working

\* What a plane is set to: a new framebuffer, or one it has.
LEMMA SetPlaneIds ==
  ASSUME DataOK, SetPlane, i \in Frames, x \in Planes, UNCHANGED pipe
  PROVE  /\ \A s \in Slots, id \in FbIds : id \in Ids(s)' => id \in Ids(s) \/ fbs[id] = 0
         /\ \A id \in FbIds : fbs[id] # 0 => fbs'[id] # 0
<1>1. PICK f \in Frames, p \in Planes : f = i /\ p = x
  OBVIOUS
<1>2. PICK r : /\ plane' = [plane EXCEPT ![f][p] = r]
               /\ \/ BoFbCreate /\ r.fb_id = NewFb /\ r.old_fb_id = NewFb
                  \/ UNCHANGED fbs /\ r.fb_id = plane[f][p].fb_id /\ r.old_fb_id = plane[f][p].fb_id
  <2> DEFINE new == PlaneSet(plane[f][p], NewBo, NewFb)
             old == PlaneSet(plane[f][p], plane_bo, plane[f][p].fb_id)
  <2>1. \/ BoFbCreate /\ plane' = [plane EXCEPT ![f][p] = new]
        \/ UNCHANGED fbs /\ plane' = [plane EXCEPT ![f][p] = old]
    BY <1>1 DEF SetPlane, poolVars
  <2>2. /\ new.fb_id = NewFb /\ new.old_fb_id = NewFb
        /\ old.fb_id = plane[f][p].fb_id /\ old.old_fb_id = plane[f][p].fb_id
    <3>1. plane[f][p] \in PlaneRec(made)
      BY DEF DataOK, FieldsOK
    <3> QED
      BY <3>1 DEF PlaneSet, PlaneRec
  <2> HIDE DEF new, old
  <2> QED
    BY <2>1, <2>2
<1>3. \A s \in Slots : Ids(s)' = IF s = <<"plane", f, p>> THEN {r.fb_id, r.old_fb_id} \ {0} ELSE Ids(s)
  BY <1>2, PlaneIds
<1>4. CASE BoFbCreate /\ r.fb_id = NewFb /\ r.old_fb_id = NewFb
  BY <1>3, <1>4, NewFramebuffer
<1>5. CASE UNCHANGED fbs /\ r.fb_id = plane[f][p].fb_id /\ r.old_fb_id = plane[f][p].fb_id
  <2>1. {r.fb_id, r.old_fb_id} \ {0} \subseteq Ids(<<"plane", f, p>>)
    BY <1>5, IdsAre
  <2> QED
    BY <1>3, <1>5, <2>1
<1> QED
  BY <1>2, <1>4, <1>5

LEMMA RamSetPlanes ==
  ASSUME MainOK, DataOK, RamInv, RamlessFirst, SetPlanes PROVE RamInv'
<1>1. /\ pc = "planes" /\ pc' \in {"planes", "cursor"} /\ SetPlane /\ i \in Frames /\ x \in Planes
      /\ UNCHANGED <<setup, i, clr, pipe, fb_inuse, ramless_value, ramless_fb_id>>
  BY Where DEF SetPlanes, Working, devVars
<1>2. /\ \A s \in Slots, id \in FbIds : id \in Ids(s)' => id \in Ids(s) \/ fbs[id] = 0
      /\ \A id \in FbIds : fbs[id] # 0 => fbs'[id] # 0
  BY <1>1, SetPlaneIds
<1>3. ASSUME ramless_fb_id # 0
      PROVE  /\ fbs'[ramless_fb_id] # 0
             /\ \A f \in Frames, p \in Planes : ramless_fb_id \notin Ids(<<"plane", f, p>>)'
  <2>1. ramless_fb_id \in FbIds
    BY <1>3 DEF DataOK, PoolOK, FbIds0
  <2>2. /\ fbs[ramless_fb_id] # 0
        /\ \A f \in Frames, p \in Planes : ramless_fb_id \notin Ids(<<"plane", f, p>>)
    BY <1>1, <1>3 DEF RamInv, Working
  <2> QED
    BY <1>2, <2>1, <2>2, AreSlots
<1>4. \A f : InUse(f)' = InUse(f) /\ LastRead(f)' = LastRead(f)
  BY <1>1 DEF InUse, LastRead
<1> QED
  BY <1>1, <1>3, <1>4 DEF RamInv, Working

LEMMA RamSetWb ==
  ASSUME MainOK, DataOK, RamInv, RamlessFirst, SetWb PROVE RamInv'
<1>1. /\ pc = "wb" /\ pc' \in {"wb", "planes"} /\ i \in Frames /\ i \in Nat
      /\ UNCHANGED <<setup, i, clr, plane, fb_inuse, ramless_value>>
  BY Where DEF SetWb, Working
<1>2. \A f \in Frames, p \in Planes : Ids(<<"plane", f, p>>)' = Ids(<<"plane", f, p>>)
  BY <1>1, IdsAre, IdsAreNext
<1>3. \/ BoFbCreate /\ ramless_fb_id' = ramless_fb_id
      \/ UNCHANGED fbs /\ ramless_fb_id' = ramless_fb_id
      \/ BoFbCreate /\ ramless_fb_id' = NewFb /\ i = 0
  BY <1>1 DEF SetWb, StripeWb, PipeWb, poolVars, RamlessFirst
<1>4. ASSUME ramless_fb_id' # 0
      PROVE  /\ fbs'[ramless_fb_id'] # 0
             /\ \A f \in Frames, p \in Planes : ramless_fb_id' \notin Ids(<<"plane", f, p>>)
  <2>1. CASE ramless_fb_id' = ramless_fb_id
    <3>1. ramless_fb_id \in FbIds
      BY <1>4, <2>1 DEF DataOK, PoolOK, FbIds0
    <3>2. /\ fbs[ramless_fb_id] # 0
          /\ \A f \in Frames, p \in Planes : ramless_fb_id \notin Ids(<<"plane", f, p>>)
      BY <1>1, <1>4, <2>1 DEF RamInv, Working
    <3>3. BoFbCreate \/ UNCHANGED fbs
      BY <1>3
    <3>4. fbs'[ramless_fb_id] # 0
      BY <3>1, <3>2, <3>3, NewFramebuffer
    <3> QED
      BY <2>1, <3>2, <3>4
  <2>2. CASE BoFbCreate /\ ramless_fb_id' = NewFb /\ i = 0
    BY <1>1, <2>2, NewFramebuffer DEF RamInv
  <2> QED
    BY <1>3, <2>1, <2>2
<1>5. ramless_value # 0 => ramless_fb_id' = ramless_fb_id
  BY <1>1, <1>3 DEF RamInv
<1>6. \A f : InUse(f)' = InUse(f) /\ LastRead(f)' = LastRead(f)
  BY <1>1 DEF InUse, LastRead
<1> QED
  BY <1>1, <1>2, <1>4, <1>5, <1>6 DEF RamInv, Working

LEMMA RamClear ==
  ASSUME MainOK, ClearOK, DataOK, OnceInv, RamInv, RamlessFirst, NEW t \in Threads, Clear(t)
  PROVE  RamInv'
<1>0. UNCHANGED <<setup, pc, i, x, fb_inuse, ramless_value>> /\ Busy(t)
  BY ClearMoves DEF mainVars
<1> SUFFICES ASSUME pc \in Working PROVE RamInv'
  BY <1>0 DEF RamInv, Working
<1>1. t = "dump"
  BY <1>0 DEF OnceInv, RamlessFirst, Threads, Working
<1>2. PICK f \in Frames : f = clr[t].frame
  BY ClearTouches
<1>3. Touches(t, f)
  BY <1>2, ClearTouches
<1>4. f + 1 < i /\ f \in Nat /\ i \in Nat /\ i \in Frames /\ i < setup.num
  BY <1>0, <1>1, <1>2, Where DEF OnceInv, RamlessFirst, MainOK, MainIndex, Frames
<1>5. \A g, p : g \in Frames /\ p \in Planes => Ids(<<"plane", g, p>>)' \subseteq Ids(<<"plane", g, p>>)
  BY <1>3, AreSlots DEF Touches
<1>6. ASSUME ramless_fb_id' # 0
      PROVE  /\ ramless_fb_id' = ramless_fb_id /\ fbs'[ramless_fb_id] # 0
             /\ \A g \in Frames, p \in Planes : ramless_fb_id \notin Ids(<<"plane", g, p>>)
  <2>1. ramless_fb_id' = ramless_fb_id
    BY <1>3, <1>6 DEF Touches
  <2>2. /\ fbs[ramless_fb_id] # 0
        /\ \A g \in Frames, p \in Planes : ramless_fb_id \notin Ids(<<"plane", g, p>>)
    BY <1>6, <2>1 DEF RamInv
  <2>3. clr[t].stage # "rm_ramless"
    BY <1>6 DEF Clear, ClearCursor, ClearFbId, ClearOldFbId, ClearBo, ClearOldBo, ClearPipe,
                ClearRamless, ClearRmRamless
  <2>4. ramless_fb_id \in FbIds
    BY <1>6, <2>1 DEF DataOK, PoolOK, FbIds0
  <2>5. fbs'[ramless_fb_id] = fbs[ramless_fb_id]
    BY <1>3, <2>2, <2>3, <2>4 DEF Touches
  <2> QED
    BY <2>1, <2>2, <2>5
<1>7. ASSUME pc \in {"wb", "planes", "cursor", "commit"}, ramless_value # 0
      PROVE  i > 0 /\ setup.ramless[i] = "on" /\ ramless_value = ramless_fb_id'
  <2>1. i > 0 /\ setup.ramless[i] = "on" /\ ramless_value = ramless_fb_id
    BY <1>7 DEF RamInv
  <2>2. InUse(i) /\ LastRead(i)
    BY <1>4, <1>7, <2>1 DEF RamlessFirst, LastRead
  <2>3. clr[t].stage # "rm_ramless"
    BY <1>1, <1>4, <2>2 DEF RamInv
  <2> QED
    BY <1>3, <2>1, <2>3 DEF Touches
<1>8. ASSUME clr'["dump"].stage = "rm_ramless", NEW g \in Frames, LastRead(g) PROVE ~InUse(g)
  <2>1. 1 <= g
    BY <1>4, <1>8 DEF LastRead, Frames
  <2>2. ~fb_inuse
    <3>1. clr \in [Threads -> [stage : Stages, frame : Frames, y : Planes \cup {0}]]
      BY DEF ClearOK
    <3>2. ASSUME NEW s, NEW y, Stage(t, s, y) PROVE s = "rm_ramless"
      BY <1>1, <1>8, <3>1, <3>2 DEF Stage
    <3>3. ~ClearReturns(t)
      BY <1>1, <1>8, <3>1 DEF ClearReturns, Idle
    <3>4. ClearRamless(t)
      BY <3>2, <3>3 DEF Clear, ClearCursor, ClearFbId, ClearOldFbId, ClearBo, ClearOldBo, ClearPipe,
                           ClearRmRamless
    <3> QED
      BY <3>3, <3>4 DEF ClearRamless
  <2> QED
    BY <1>8, <2>1, <2>2 DEF RamInv
<1>9. \A g : InUse(g)' = InUse(g) /\ LastRead(g)' = LastRead(g)
  BY <1>0 DEF InUse, LastRead
<1> QED
  BY <1>0, <1>4, <1>5, <1>6, <1>7, <1>8, <1>9 DEF RamInv

\* A step that leaves the framebuffers and what main knows of the ramless one alone.
LEMMA RamKeeps ==
  ASSUME RamInv, RamlessFirst, pc' \in Working => pc \in Working,
         UNCHANGED <<setup, plane, pipe, fbs, fb_inuse, ramless_value, ramless_fb_id>>,
         pc' \in Working => \A f \in Frames : LastRead(f)' => LastRead(f),
         pc' \in {"wb", "planes", "cursor", "commit"} =>
           i' = i /\ pc \in {"wb", "planes", "cursor", "commit"},
         pc' \in {"props", "wb"} /\ i' = 0 => pc = pc' /\ i = 0,
         pc' \in Working => (clr'["dump"].stage = "rm_ramless" => clr["dump"].stage = "rm_ramless")
  PROVE  RamInv'
<1>1. \A f \in Frames, p \in Planes : Ids(<<"plane", f, p>>)' = Ids(<<"plane", f, p>>)
  BY IdsAre, IdsAreNext
<1>2. \A f : InUse(f)' = InUse(f)
  BY DEF InUse
<1>3. pc' \in {"props", "wb", "planes", "cursor", "commit"} => pc' \in Working
  BY DEF Working
<1> QED
  BY <1>1, <1>2, <1>3 DEF RamInv

LEMMA RamInvStep ==
  ASSUME MainOK, ClearOK, DataOK, OnceInv, RamInv, [Next]_vars PROVE RamInv'
<1> SUFFICES ASSUME RamlessFirst PROVE RamInv'
  BY SetupStays DEF RamInv, RamlessFirst, InUse
<1>0. setup' = setup /\ clr \in [Threads -> [stage : Stages, frame : Frames, y : Planes \cup {0}]]
  BY SetupStays DEF ClearOK
<1>1. CASE SetProps
  BY <1>1, RamSetProps
<1>2. CASE SetWb
  BY <1>2, RamSetWb
<1>3. CASE SetPlanes
  BY <1>3, RamSetPlanes
<1>11. CASE SwapBos
  <2>1. UNCHANGED <<setup, pc, i, clr, fb_inuse, ramless_value, ramless_fb_id, fbs>>
    BY <1>11 DEF SwapBos, mainVars, devVars, poolVars
  <2>2. \A f \in Frames, p \in Planes : Ids(<<"plane", f, p>>)' = Ids(<<"plane", f, p>>)
    BY <1>11, SwapIds, AreSlots
  <2>3. \A f : InUse(f)' = InUse(f) /\ LastRead(f)' = LastRead(f)
    BY <2>1 DEF InUse, LastRead
  <2> QED
    BY <2>1, <2>2, <2>3 DEF RamInv
<1>4. CASE SetCursor
  BY <1>0, <1>4, RamKeeps DEF SetCursor, Working, LastRead, devVars
<1>5. CASE Commit
  <2>1. /\ pc = "commit" /\ i' = i + 1 /\ pc' \in {"props", "join"} /\ i \in Nat
        /\ UNCHANGED <<plane, pipe, fbs, fb_inuse, ramless_value, ramless_fb_id, clr>>
    BY <1>5, Where DEF Commit, fieldVars, devVars, poolVars
  <2>2. \A f \in Frames : f + 1 = i' => f = i
    BY <2>1 DEF Frames
  <2> QED
    BY <1>0, <2>1, <2>2, RamKeeps DEF Working, LastRead
<1>6. CASE CreateWb \/ CreatePlane \/ CreateFails
  BY <1>6 DEF CreateWb, CreatePlane, CreateFails, MainOK, MainIndex, RamlessFirst
<1>7. CASE SetPropsFails \/ SetBuffersFails \/ SetCursorFails \/ CommitFails \/ Cancel \/ Join \/ Final
  <2>1. pc' \in {"cancel", "join", "final", "end"}
    <3>1. CASE Join
      BY <3>1 DEF Join, MainOK, RamlessFirst
    <3>2. CASE SetPropsFails \/ SetBuffersFails \/ SetCursorFails \/ CommitFails \/ Cancel \/ Final
      BY <3>2 DEF SetPropsFails, SetBuffersFails, SetCursorFails, CommitFails, Cancel, Final,
                  SetFrameFails, Fails
    <3> QED
      BY <1>7, <3>1, <3>2
  <2> QED
    BY <2>1 DEF RamInv, Working
<1>8. CASE DumpThread
  <2>1. UNCHANGED <<mainVars, plane, pipe, fbs, fb_inuse, ramless_value, ramless_fb_id>>
    BY <1>8 DEF DumpThread, DumpTakes, Dump, DumpFails, DumpNext, DumpEnds, DumpDies, fieldVars, devVars,
                poolVars
  <2>2. clr'["dump"].stage = "rm_ramless" => clr["dump"].stage = "rm_ramless"
    BY <1>0, <1>8 DEF DumpThread, DumpTakes, Dump, DumpFails, DumpNext, DumpEnds, DumpDies, ClearFrame, Threads
  <2> QED
    BY <1>0, <2>1, <2>2, RamKeeps DEF mainVars, LastRead
<1>9. ASSUME NEW t \in Threads, Clear(t) PROVE RamInv'
  BY <1>9, RamClear
<1>10. CASE UNCHANGED vars
  BY <1>10, RamKeeps DEF vars, mainVars, fieldVars, poolVars, devVars, LastRead
<1> QED
  BY <1>1, <1>2, <1>3, <1>4, <1>5, <1>6, <1>7, <1>8, <1>9, <1>10, <1>11 DEF Next, Main

\* The runs the next theorem is about.  Either the run has no ramless pipe, or it is one of VCMD
\* mode, where no pipe is made ramless, or the frames use it as RamlessFirst says.
RamlessRuns == \A s \in Setups :
  \/ s.use_vcmd
  \/ \A f \in Frames : s.wb[f] # "ramless"
  \/ /\ s.recycle = 1
     /\ \A f \in Frames : s.wb[f] = "ramless" => f = 0
     /\ \A f \in Frames : f > 0 /\ s.ramless[f] = "on" =>
          s.ramless[1] = "on" /\ \A h \in Frames : 1 <= h /\ h <= f => s.ramless[h] # "off"

\* If a ramless pipe is in frame 0 only and the frames that use its framebuffer follow it without
\* a frame that gives it up, a frame is never committed with a ramless framebuffer that a thread
\* has removed: not by main's failures, and not by the dump thread between the test of fb_inuse
\* and the removal.
THEOREM RamlessStays == ASSUME RamlessRuns PROVE Spec => []RamlessLives
<1>1. Init => RamZeroInv /\ RamInv
  <2> SUFFICES ASSUME Init PROVE RamZeroInv /\ RamInv
    OBVIOUS
  <2>1. \A f \in Frames, p \in Planes : Ids(<<"plane", f, p>>) = {}
    BY IdsAre DEF Init, NoPlane
  <2>2. i = 0 /\ ramless_fb_id = 0 /\ ramless_value = 0 /\ clr["dump"].stage = "idle"
        /\ pc \in {"create_wb", "props"}
    BY DEF Init, Idle, Threads
  <2>3. \A f \in Frames : ~(LastRead(f) /\ 1 <= f)
    BY <2>2 DEF LastRead, Frames
  <2> QED
    BY <2>1, <2>2, <2>3 DEF RamZeroInv, RamInv
<1>2. TypeInv /\ OnceInv /\ RamZeroInv /\ RamInv /\ [Next]_vars => (RamZeroInv /\ RamInv)'
  BY Types, RamZeroInvStep, RamInvStep
<1>3. TypeInv /\ RamZeroInv /\ RamInv => RamlessLives
  <2> SUFFICES ASSUME TypeInv, RamZeroInv, RamInv, pc = "commit", ramless_value # 0
               PROVE  fbs[ramless_value] # 0
    BY DEF RamlessLives
  <2>1. setup \in Setups
    BY Types DEF MainOK
  <2>2. ~NoRamless
    BY DEF RamZeroInv
  <2>3. RamlessFirst
    BY <2>1, <2>2 DEF RamlessRuns, RamlessFirst, NoRamless, InUse
  <2> QED
    BY <2>3 DEF RamInv, Working
<1>4. Spec => []TypeInv
  BY TypeInvInit, TypeInvStep, PTL DEF Spec
<1> QED
  BY <1>1, <1>2, <1>3, <1>4, OnceInvHolds, PTL DEF Spec
=============================================================================
