-------------------------- MODULE FrameReleaseProofs --------------------------
(***************************************************************************)
(* Proofs about the releases of FrameBuffers: that nothing is left behind, *)
(* and that every buffer has one owner and is destroyed once.              *)
(***************************************************************************)
EXTENDS FrameIdProofs

-----------------------------------------------------------------------------
(* What is left when nothing failed.                                       *)

\* Nothing failed so far.
Good == status /\ ~gave_up

\* Where main and the dump thread are then.
GoodInv == Good =>
  /\ ~cancelled /\ pc \in Working \cup {"join", "final", "end"}
  /\ Creating <=> dpc = "none"
  /\ pc \in {"final", "end"} => dpc = "exit"
  /\ dpc = "none" => k = 0
  /\ \A f \in Frames : commit_done[f] =>
       /\ f < i /\ dpc # "none"
       /\ setup.is_stream => k <= f /\ dpc \notin {"last", "exit"}
  /\ dpc = "wait" => k <= i
  /\ dpc \in {"dump", "next"} => k < i
  /\ dpc \in {"last", "exit"} => i = setup.num /\ k + 1 = setup.num
  /\ Busy("main") => pc = "end" /\ clr["main"].frame + 1 = setup.num
  /\ Busy("dump") => \/ dpc = "next" /\ clr["dump"].frame + 1 = k
                     \/ dpc = "last" /\ setup.is_stream /\ clr["dump"].frame = k

\* A frame that holds nothing that must be released.  A striped pipe keeps the shared buffer,
\* and whatever else it got in VCMD mode.
PipeEmpty(f, q) == IF setup.wb[f] = "stripe" THEN setup.use_vcmd \/ pipe[f][q] \in {NoPipe, wb_stripe}
                   ELSE pipe[f][q].out_bo = 0
Empty(f) == /\ \A p \in Planes : plane[f][p] = NoPlane
            /\ \A q \in Pipes : PipeEmpty(f, q)
            /\ cursor[f] = 0

\* The frames the dump thread is through with in this round, and main with the last one.
Released(f) ==
  \/ f + 1 < k
  \/ f + 1 = k /\ ~Busy("dump") /\ dpc \notin {"wait", "dump"}
  \/ f + 1 = k /\ dpc \in {"last", "exit"}
  \/ f = k /\ setup.is_stream /\ (dpc = "exit" \/ (dpc = "last" /\ ~Busy("dump")))
  \/ f = k /\ pc = "end" /\ ~Busy("main")
\* The frames main has still to set.
Later(f) == pc \in Working /\ ~(setup.use_vcmd /\ ~Creating) /\ f > i

\* What a thread has cleared of its frame f: up to plane or pipe y.
Cleared(stage, f, y) ==
  /\ stage \notin {"idle", "cursor"} => cursor[f] = 0
  /\ stage \in PlaneStages => \A p \in Planes : p < y => plane[f][p] = NoPlane
  /\ stage \in {"old_fb_id", "bo", "old_bo"} => plane[f][y].fb_id = 0
  /\ stage \in {"bo", "old_bo"} => plane[f][y].old_fb_id = 0
  /\ stage = "old_bo" => plane[f][y].bo = 0
  /\ stage \in {"pipe", "ramless", "rm_ramless"} => \A p \in Planes : plane[f][p] = NoPlane
  /\ stage = "pipe" => \A q \in Pipes : q < y => PipeEmpty(f, q)
  /\ stage \in {"ramless", "rm_ramless"} => \A q \in Pipes : PipeEmpty(f, q)
ClearedInv == \A t \in Threads : Cleared(clr[t].stage, clr[t].frame, clr[t].y)

EmptyInv == \A f \in Frames : Released(f) \/ f >= setup.num \/ Later(f) => Empty(f)

\* What main has still to set of frame i; and the cursors.
UnsetInv ==
  /\ plane_bo = 0
  /\ pc \in {"create_wb", "props", "wb"} /\ (setup.use_vcmd => pc = "create_wb") =>
       /\ \A p \in Planes : plane[i][p] = NoPlane
       /\ \A q \in Pipes : q >= x => PipeEmpty(i, q)
  /\ pc \in {"create_plane", "planes"} => \A p \in Planes : p >= x => plane[i][p] = NoPlane
  /\ pc \in Working => \A f \in Frames : Creating \/ f > i \/ (f = i /\ pc # "commit") => cursor[f] = 0

StripeEmptyInv ==
  /\ \A f \in Frames, q \in Pipes : setup.wb[f] = "stripe" => PipeEmpty(f, q)
  /\ wb_stripe.out_fb_id = 0 => wb_stripe = NoPipe

\* A run of VCMD mode has no striped pipe; another one makes a ramless pipe in frame 0 only,
\* and in its only round.
LeakFree(s) ==
  IF s.use_vcmd THEN \A f \in Frames : s.wb[f] # "stripe"
                ELSE \A f \in Frames : s.wb[f] = "ramless" => f = 0 /\ s.recycle = 1

\* Every buffer and every framebuffer of such a run is in a field that is released some day.
BosHeldInv == LeakFree(setup) =>
  \A b \in bos : b = wb_stripe.out_bo \/ \E d \in Fields : Held(d) = b
PlaneHolds(id, f, p) == id \in {plane[f][p].fb_id, plane[f][p].old_fb_id}
PipeHolds(id, f, q) == pipe[f][q].out_bo # 0 /\ id = pipe[f][q].out_fb_id
FbHeld(id) == \/ id \in {wb_stripe.out_fb_id, ramless_fb_id}
              \/ \E f \in Frames, p \in Planes : PlaneHolds(id, f, p)
              \/ \E f \in Frames, q \in Pipes : PipeHolds(id, f, q)
FbsHeldInv == LeakFree(setup) => \A id \in FbIds : fbs[id] # 0 => FbHeld(id)

\* The ramless framebuffer is that of a pipe while main sets the pipes, and goes in the end.
RamHeldInv == LeakFree(setup) =>
  /\ pc \in {"props", "wb"} /\ i = 0 /\ round = 1 /\ ~setup.use_vcmd =>
       ramless_fb_id = 0 \/ \E f \in Frames, q \in Pipes : PipeHolds(ramless_fb_id, f, q)
  /\ pc = "end" /\ ~Busy("main") => fb_inuse \/ ramless_fb_id = 0

LostInv == Good => ClearedInv /\ EmptyInv /\ UnsetInv /\ StripeEmptyInv
                   /\ BosHeldInv /\ FbsHeldInv /\ RamHeldInv

LEMMA GoodInvStep ==
  ASSUME MainOK, ClearOK, DataOK, GoodInv, [Next]_vars PROVE GoodInv'
<1> SUFFICES ASSUME Good' PROVE GoodInv'
  BY DEF GoodInv
<1> USE Where DEF GoodInv, Good, Busy, Creating, mainVars, dumpVars, histVars
<1>0. /\ commit_done \in [Frames -> BOOLEAN] /\ i <= setup.num /\ k < setup.num /\ k \in Nat
      /\ clr \in [Threads -> [stage : Stages, frame : Frames, y : Planes \cup {0}]]
      /\ \A f \in Frames : f \in Nat
      /\ "main" \in Threads /\ "dump" \in Threads /\ setup' = setup
  BY SetupStays DEF DataOK, ClearOK, MainOK, MainIndex, Frames, Threads
<1>1. CASE CreateWb
  BY <1>0, <1>1 DEF CreateWb, Working
<1>2. CASE CreatePlane
  <2>1. /\ pc = "create_plane" /\ UNCHANGED <<setup, status, cancelled, k, gave_up, clr, commit_done>>
        /\ i < setup.num
    BY <1>2 DEF CreatePlane, MainOK, MainIndex, Working
  <2>2. \/ pc' = pc /\ UNCHANGED <<i, dpc>>
        \/ pc' = "create_wb" /\ i' = i + 1 /\ i + 1 < setup.num /\ UNCHANGED dpc
        \/ pc' = "props" /\ i' = 0 /\ dpc' = "wait"
    BY <1>2 DEF CreatePlane
  <2>3. \A f \in Frames : ~commit_done[f]
    BY <2>1
  <2> QED
    BY <1>0, <2>1, <2>2, <2>3 DEF Working
<1>3. CASE CreateFails \/ SetPropsFails \/ SetBuffersFails \/ SetCursorFails \/ CommitFails \/ DumpFails
  BY <1>3 DEF CreateFails, SetPropsFails, SetBuffersFails, SetCursorFails, CommitFails, DumpFails,
              SetFrameFails, Fails
<1>16. CASE SwapBos
  <2>1. UNCHANGED <<setup, pc, status, cancelled, i, k, dpc, gave_up, clr, commit_done>>
    BY <1>16 DEF SwapBos
  <2> QED
    BY <1>0, <2>1
<1>4. CASE SetProps \/ SetWb \/ SetPlanes \/ SetCursor
  <2>1. /\ UNCHANGED <<setup, status, cancelled, i, k, dpc, gave_up, clr, commit_done>>
        /\ pc \in Working /\ ~Creating /\ pc' \in Working /\ ~Creating'
    BY <1>4 DEF SetProps, SetWb, SetPlanes, SetCursor, Working
  <2> QED
    BY <1>0, <2>1 DEF Working
<1>5. CASE Commit
  <2>1. /\ pc = "commit" /\ commit_done' = [commit_done EXCEPT ![i] = TRUE] /\ i' = i + 1
        /\ pc' \in {"props", "join"} /\ i < setup.num /\ i \in Frames
        /\ UNCHANGED <<setup, status, cancelled, k, dpc, gave_up, clr>>
    BY <1>5 DEF Commit, MainOK, MainIndex, Working
  <2>2. dpc # "none" /\ dpc \notin {"last", "exit"} /\ k <= i
    BY <1>0, <2>1 DEF MainOK
  <2>3. ASSUME NEW f \in Frames, commit_done'[f]
        PROVE  f < i' /\ dpc' # "none" /\ (setup.is_stream => k <= f /\ dpc' \notin {"last", "exit"})
    BY <1>0, <2>1, <2>2, <2>3
  <2> QED
    BY <1>0, <2>1, <2>2, <2>3 DEF Working
<1>6. CASE Cancel
  BY <1>6 DEF Cancel, Working
<1>7. CASE Join
  <2>1. /\ pc = "join" /\ dpc = "exit"
        /\ UNCHANGED <<setup, status, cancelled, gave_up, clr, commit_done>>
    BY <1>7 DEF Join
  <2>2. CASE pc' = "final" /\ UNCHANGED <<round, i, k, dpc>>
    BY <1>0, <2>1, <2>2
  <2>3. CASE setup.is_stream /\ i' = 0 /\ k' = 0 /\ pc' = "props" /\ dpc' = "wait"
    <3>1. \A f \in Frames : ~commit_done[f]
      BY <2>1, <2>3
    <3> QED
      BY <1>0, <2>1, <2>3, <3>1 DEF Working
  <2> QED
    BY <1>7, <2>2, <2>3 DEF Join
<1>8. CASE Final
  <2>1. /\ pc = "final" /\ pc' = "end" /\ status
        /\ UNCHANGED <<setup, status, i, cancelled, k, dpc, gave_up, commit_done>>
        /\ clr' = [clr EXCEPT !["main"] = [stage |-> "cursor", frame |-> i - 1, y |-> 0]]
        /\ i = setup.num
    BY <1>8 DEF Final, ClearFrame, MainOK, MainIndex
  <2>2. clr'["main"].frame = i - 1 /\ clr'["dump"] = clr["dump"]
    BY <1>0, <2>1
  <2> QED
    BY <1>0, <2>1, <2>2
<1>9. CASE DumpTakes
  <2>1. /\ dpc = "wait" /\ dpc' = "dump" /\ commit_done[k] /\ k \in Frames
        /\ UNCHANGED <<setup, mainVars, k, gave_up, clr, commit_done>>
    BY <1>9 DEF DumpTakes, MainOK
  <2> QED
    BY <1>0, <2>1
<1>10. CASE Dump
  <2>1. dpc = "dump" /\ dpc' = "next" /\ UNCHANGED <<setup, mainVars, k, gave_up, commit_done>>
    BY <1>10 DEF Dump
  <2>2. clr'["main"] = clr["main"] /\ (clr'["dump"] = clr["dump"] \/ clr'["dump"].frame = k - 1)
    BY <1>0, <1>10 DEF Dump, ClearFrame
  <2> QED
    BY <1>0, <2>1, <2>2
<1>11. CASE DumpNext
  <2>1. dpc = "next" /\ clr["dump"] = Idle /\ UNCHANGED <<setup, mainVars, gave_up>> /\ k \in Frames
    BY <1>11 DEF DumpNext, MainOK
  <2>2. \A f \in Frames : commit_done'[f] => commit_done[f] /\ (setup.is_stream => f # k)
    BY <1>0, <1>11, <2>1 DEF DumpNext
  <2>3. CASE k + 1 < setup.num /\ k' = k + 1 /\ dpc' = "wait" /\ UNCHANGED clr
    BY <1>0, <2>1, <2>2, <2>3 DEF Idle
  <2>4. CASE ~(k + 1 < setup.num) /\ k' = k /\ dpc' = "last"
             /\ IF setup.is_stream THEN ClearFrame("dump", k) ELSE UNCHANGED clr
    <3>1. k + 1 = setup.num /\ i = setup.num
      BY <1>0, <2>1, <2>4
    <3>2. \A f \in Frames : commit_done'[f] => ~setup.is_stream /\ f < i
      BY <1>0, <2>1, <2>2, <3>1
    <3>3. clr'["main"] = clr["main"] /\ (Busy("dump")' => setup.is_stream /\ clr'["dump"].frame = k)
      BY <1>0, <2>1, <2>4 DEF ClearFrame, Idle
    <3> QED
      BY <1>0, <2>1, <2>4, <3>1, <3>2, <3>3
  <2> QED
    BY <1>11, <2>3, <2>4 DEF DumpNext
<1>12. CASE DumpEnds
  BY <1>0, <1>12 DEF DumpEnds, Idle
<1>13. CASE DumpDies
  BY <1>13 DEF DumpDies
<1>14. ASSUME NEW t \in Threads, Clear(t) PROVE GoodInv'
  <2>1. UNCHANGED <<setup, mainVars, dpc, k, gave_up, commit_done>>
    BY <1>14, ClearMoves
  <2>2. \A t2 \in Threads : Busy(t2)' => Busy(t2) /\ clr'[t2].frame = clr[t2].frame
    BY <1>14, ClearMoves
  <2> QED
    BY <1>0, <2>1, <2>2
<1>15. CASE UNCHANGED vars
  BY <1>0, <1>15 DEF vars
<1> QED
  BY <1>1, <1>2, <1>3, <1>4, <1>5, <1>6, <1>7, <1>8, <1>9, <1>10, <1>11, <1>12, <1>13, <1>14, <1>15,
     <1>16
     DEF Next, Main, DumpThread

\* A step leaves frame f alone.
SameFrame(f) == plane'[f] = plane[f] /\ pipe'[f] = pipe[f] /\ cursor'[f] = cursor[f]
\* A step leaves dev.wb_stripe alone, or fills it.
StripeFilled == UNCHANGED wb_stripe \/ wb_stripe.out_fb_id = 0

LEMMA EmptyStays ==
  ASSUME StripeEmptyInv, UNCHANGED setup, StripeFilled, NEW f \in Frames, SameFrame(f)
  PROVE  /\ \A q \in Pipes : PipeEmpty(f, q) => PipeEmpty(f, q)'
         /\ Empty(f) => Empty(f)'
<1>1. wb_stripe' = wb_stripe \/ wb_stripe = NoPipe
  BY DEF StripeFilled, StripeEmptyInv
<1>2. ASSUME NEW q \in Pipes, PipeEmpty(f, q) PROVE PipeEmpty(f, q)'
  <2>1. pipe'[f][q] = pipe[f][q]
    BY DEF SameFrame
  <2> QED
    BY <1>1, <1>2, <2>1 DEF PipeEmpty
<1> QED
  BY <1>2 DEF Empty, SameFrame

\* Frame i is neither being cleared nor released while main sets it.
LEMMA NotTouched ==
  ASSUME MainOK, ClearOK, Good, GoodInv, pc \in Working
  PROVE  /\ i \in Frames /\ i \in Nat /\ i < setup.num
         /\ \A t \in Threads : Busy(t) => clr[t].frame \in Frames /\ clr[t].frame < i
         /\ \A f \in Frames : Released(f) => f < i
<1>1. i \in Frames /\ i \in Nat /\ i < setup.num /\ k \in Nat /\ \A f \in Frames : f \in Nat
  BY Where DEF MainOK, MainIndex, Frames
<1>2. ASSUME NEW t \in Threads, Busy(t) PROVE clr[t].frame \in Frames /\ clr[t].frame < i
  <2>1. clr[t].frame \in Frames /\ clr[t].frame \in Nat
    BY <1>1 DEF ClearOK
  <2>2. t = "dump"
    BY <1>2 DEF GoodInv, Threads, Working
  <2> QED
    BY <1>1, <1>2, <2>1, <2>2, Where DEF GoodInv
<1>3. ASSUME NEW f \in Frames, Released(f) PROVE f < i
  <2>1. dpc \in {"none", "wait", "dump", "next"} /\ pc # "end"
    BY <1>1, Where DEF GoodInv, MainOK, Working
  <2>2. k <= i
    BY <1>1, <2>1 DEF GoodInv
  <2>3. f < k
    BY <1>1, <1>3, <2>1 DEF Released
  <2> QED
    BY <1>1, <2>2, <2>3
<1> QED
  BY <1>1, <1>2, <1>3

\* main sets frame i and leaves the others alone.
LEMMA MainSets ==
  ASSUME MainOK, ClearOK, Good, GoodInv, ClearedInv, EmptyInv, StripeEmptyInv,
         pc \in Working, UNCHANGED <<setup, clr>>, StripeFilled,
         \A f \in Frames : f # i => SameFrame(f),
         \A f \in Frames : Released(f)' => Released(f),
         \A f \in Frames : Later(f)' => Later(f)
  PROVE  ClearedInv' /\ EmptyInv'
<1>1. ASSUME NEW f \in Frames, Released(f)' \/ f >= setup.num \/ Later(f)' PROVE Empty(f)'
  <2>1. Empty(f)
    BY <1>1 DEF EmptyInv
  <2>2. f # i
    BY <1>1, NotTouched, Where DEF Later
  <2> QED
    BY <2>1, <2>2, EmptyStays
<1>2. ASSUME NEW t \in Threads, Busy(t), NEW f, f = clr[t].frame
      PROVE  SameFrame(f) /\ f \in Frames /\ \A q \in Pipes : PipeEmpty(f, q) => PipeEmpty(f, q)'
  <2>1. SameFrame(f) /\ f \in Frames
    BY <1>2, NotTouched
  <2> QED
    BY <2>1, EmptyStays
<1>3. ClearedInv'
  BY <1>2 DEF ClearedInv, Cleared, Busy, SameFrame, PlaneStages
<1> QED
  BY <1>1, <1>3 DEF EmptyInv

\* A plane that held nothing gets a new buffer and a new framebuffer.
LEMMA PlaneMade ==
  ASSUME DataOK, BosHeldInv, FbsHeldInv, UNCHANGED setup, BoFbCreate, NEW f \in Frames, NEW p \in Planes, NEW r,
         plane' = [plane EXCEPT ![f][p] = r], r.bo = NewBo, r.fb_id = NewFb, plane[f][p] = NoPlane,
         UNCHANGED <<pipe, cursor, wb_stripe, ramless_fb_id>>
  PROVE  BosHeldInv' /\ FbsHeldInv'
<1> SUFFICES ASSUME LeakFree(setup) PROVE BosHeldInv' /\ FbsHeldInv'
  BY DEF BosHeldInv, FbsHeldInv
<1>1. /\ NewFb \in FbIds /\ bos' = bos \cup {NewBo} /\ bos \subseteq 1 .. made
      /\ \A id \in FbIds : id # NewFb => fbs'[id] = fbs[id]
  BY NewFramebuffer DEF DataOK, PoolOK
<1>2. plane'[f][p] = r /\ \A g \in Frames, q \in Planes : ~(g = f /\ q = p) => plane'[g][q] = plane[g][q]
  BY DEF DataOK, FieldsOK
<1>3. plane[f][p].bo = 0 /\ plane[f][p].old_bo = 0 /\ plane[f][p].fb_id = 0 /\ plane[f][p].old_fb_id = 0
  BY DEF NoPlane
<1>4. /\ Held(<<"bo", f, p>>)' = r.bo /\ <<"bo", f, p>> \in Fields
      /\ \A d \in Fields \ {<<"bo", f, p>>, <<"old_bo", f, p>>} : Held(d)' = Held(d)
      /\ Held(<<"bo", f, p>>) = 0 /\ Held(<<"old_bo", f, p>>) = 0
  <2>1. /\ Held(<<"bo", f, p>>)' = r.bo
        /\ \A d \in Fields \ {<<"bo", f, p>>, <<"old_bo", f, p>>} : Held(d)' = Held(d)
    BY PlaneHeld
  <2>2. Held(<<"bo", f, p>>) = 0 /\ Held(<<"old_bo", f, p>>) = 0
    BY <1>3, HeldIs
  <2> QED
    BY <2>1, <2>2, AreFields
<1>5. ASSUME NEW b \in bos', b # wb_stripe'.out_bo PROVE \E d \in Fields : Held(d)' = b
  <2>1. CASE b = NewBo
    BY <1>4, <2>1
  <2>2. CASE b \in bos
    <3>1. PICK d \in Fields : Held(d) = b
      BY <1>5, <2>2 DEF BosHeldInv
    <3>2. b # 0
      BY <1>1, <2>2
    <3> QED
      BY <1>4, <3>1, <3>2
  <2> QED
    BY <1>1, <1>5, <2>1, <2>2
<1>6. ASSUME NEW id \in FbIds, fbs'[id] # 0 PROVE FbHeld(id)'
  <2>1. CASE id = NewFb
    <3>1. PlaneHolds(id, f, p)'
      BY <1>2, <2>1 DEF PlaneHolds
    <3> QED
      BY <3>1 DEF FbHeld
  <2>2. CASE id # NewFb
    <3>1. FbHeld(id) /\ id # 0
      BY <1>1, <1>6, <2>2, SizeAssumption DEF FbsHeldInv, FbIds
    <3>2. \A g \in Frames, q \in Planes : PlaneHolds(id, g, q) => PlaneHolds(id, g, q)'
      BY <1>2, <1>3, <3>1 DEF PlaneHolds
    <3>3. \A g, q : PipeHolds(id, g, q)' = PipeHolds(id, g, q)
      BY DEF PipeHolds
    <3> QED
      BY <3>1, <3>2, <3>3 DEF FbHeld
  <2> QED
    BY <2>1, <2>2
<1> QED
  BY <1>5, <1>6 DEF BosHeldInv, FbsHeldInv

\* A pipe that held nothing gets a new buffer and a new framebuffer; it may be the new one of
\* dev.wb_stripe, if that was empty, or the new ramless one, if the old one is in another pipe.
LEMMA PipeMade ==
  ASSUME DataOK, BosHeldInv, FbsHeldInv, UNCHANGED setup, BoFbCreate, NEW f \in Frames, NEW q \in Pipes, NEW r,
         pipe' = [pipe EXCEPT ![f][q] = r], r.out_bo = NewBo, r.out_fb_id = NewFb,
         pipe[f][q].out_bo = 0, UNCHANGED <<plane, cursor>>,
         UNCHANGED wb_stripe \/ wb_stripe = NoPipe,
         \/ UNCHANGED ramless_fb_id \/ ramless_fb_id = 0
         \/ \E g \in Frames, p \in Pipes : PipeHolds(ramless_fb_id, g, p)
  PROVE  BosHeldInv' /\ FbsHeldInv'
<1> SUFFICES ASSUME LeakFree(setup) PROVE BosHeldInv' /\ FbsHeldInv'
  BY DEF BosHeldInv, FbsHeldInv
<1>1. /\ NewFb \in FbIds /\ NewBo # 0 /\ bos' = bos \cup {NewBo} /\ bos \subseteq 1 .. made
      /\ \A id \in FbIds : id # NewFb => fbs'[id] = fbs[id]
  BY NewFramebuffer DEF DataOK, PoolOK
<1>2. pipe'[f][q] = r /\ \A g \in Frames, p \in Pipes : ~(g = f /\ p = q) => pipe'[g][p] = pipe[g][p]
  BY DEF DataOK, FieldsOK
<1>4. /\ Held(<<"out_bo", f, q>>)' = r.out_bo /\ <<"out_bo", f, q>> \in Fields
      /\ \A d \in Fields \ {<<"out_bo", f, q>>} : Held(d)' = Held(d)
      /\ Held(<<"out_bo", f, q>>) = 0
  <2>1. <<"out_bo", f, q>> \in Fields /\ Held(<<"out_bo", f, q>>) = 0
    BY AreFields, HeldIs
  <2>2. /\ Held(<<"out_bo", f, q>>)' = r.out_bo
        /\ \A d \in Fields \ {<<"out_bo", f, q>>} : Held(d)' = Held(d)
    BY PipeHeld
  <2> QED
    BY <2>1, <2>2
<1>5. ASSUME NEW b \in bos', b # wb_stripe'.out_bo PROVE \E d \in Fields : Held(d)' = b
  <2>1. CASE b = NewBo
    BY <1>4, <2>1
  <2>2. CASE b \in bos
    <3>1. b # 0
      BY <1>1, <2>2
    <3>2. b # wb_stripe.out_bo
      BY <1>5, <3>1 DEF NoPipe
    <3>3. PICK d \in Fields : Held(d) = b
      BY <2>2, <3>2 DEF BosHeldInv
    <3> QED
      BY <1>4, <3>1, <3>3
  <2> QED
    BY <1>1, <1>5, <2>1, <2>2
<1>6. ASSUME NEW id \in FbIds, fbs'[id] # 0 PROVE FbHeld(id)'
  <2>1. CASE id = NewFb
    <3>1. PipeHolds(id, f, q)'
      BY <1>1, <1>2, <2>1 DEF PipeHolds
    <3> QED
      BY <3>1 DEF FbHeld
  <2>2. CASE id # NewFb
    <3>1. FbHeld(id) /\ id # 0
      BY <1>1, <1>6, <2>2, SizeAssumption DEF FbsHeldInv, FbIds
    <3>2. \A g, p : PlaneHolds(id, g, p)' = PlaneHolds(id, g, p)
      BY DEF PlaneHolds
    <3>3. \A g \in Frames, p \in Pipes : PipeHolds(id, g, p) => PipeHolds(id, g, p)'
      BY <1>2, <3>1 DEF PipeHolds
    <3>4. id = wb_stripe.out_fb_id => id = wb_stripe'.out_fb_id
      BY <3>1 DEF NoPipe
    <3>5. id = ramless_fb_id =>
            id = ramless_fb_id' \/ \E g \in Frames, p \in Pipes : PipeHolds(id, g, p)
      BY <3>1
    <3> QED
      BY <3>1, <3>2, <3>3, <3>4, <3>5 DEF FbHeld
  <2> QED
    BY <2>1, <2>2
<1> QED
  BY <1>5, <1>6 DEF BosHeldInv, FbsHeldInv

LEMMA LostCreateWb ==
  ASSUME MainOK, ClearOK, DataOK, Good, GoodInv, LostInv, CreateWb PROVE LostInv'
<1>0. ClearedInv /\ EmptyInv /\ UnsetInv /\ StripeEmptyInv /\ BosHeldInv /\ FbsHeldInv /\ RamHeldInv
  BY DEF LostInv
<1>1. /\ pc = "create_wb" /\ BoFbCreate /\ Creating /\ i \in Frames /\ i \in Nat /\ x \in Pipes
      /\ x \in Nat /\ setup.use_vcmd /\ pc \in Working
      /\ UNCHANGED <<setup, i, dpc, k, clr, plane, cursor, wb_stripe, ramless_fb_id, plane_bo>>
  BY Where DEF CreateWb, Creating, Working, MainOK, MainIndex, devVars, dumpVars, swapVars
<1>2. (x' = x + 1 /\ pc' = "create_wb") \/ pc' = "create_plane"
  BY <1>1 DEF CreateWb
<1>3. PICK r : r = [out_bo |-> NewBo, out_fb_id |-> NewFb]
  OBVIOUS
<1>4. pipe' = [pipe EXCEPT ![i][x] = r] /\ r.out_bo = NewBo /\ r.out_fb_id = NewFb
  BY <1>3 DEF CreateWb
<1>5. /\ \A g \in Frames, p \in Pipes : ~(g = i /\ p = x) => pipe'[g][p] = pipe[g][p]
      /\ \A g \in Frames : g # i => pipe'[g] = pipe[g]
  BY <1>1, <1>4 DEF DataOK, FieldsOK
<1>6. ClearedInv' /\ EmptyInv'
  <2>1. \A g \in Frames : g # i => SameFrame(g)
    BY <1>1, <1>5 DEF SameFrame
  <2>2. \A g \in Frames : Released(g)' => Released(g)
    BY <1>1, <1>2 DEF Released, Busy
  <2>3. \A g \in Frames : Later(g)' => Later(g)
    BY <1>1 DEF Later
  <2> QED
    BY <1>0, <1>1, <2>1, <2>2, <2>3, MainSets DEF StripeFilled
<1>7. BosHeldInv' /\ FbsHeldInv'
  <2> SUFFICES ASSUME LeakFree(setup) PROVE BosHeldInv' /\ FbsHeldInv'
    BY <1>1 DEF BosHeldInv, FbsHeldInv
  <2>0. setup.wb[i] # "stripe"
    BY <1>1 DEF LeakFree
  <2>1. pipe[i][x].out_bo = 0
    BY <1>0, <1>1, <2>0 DEF UnsetInv, PipeEmpty
  <2> QED
    BY <1>0, <1>1, <1>4, <2>1, PipeMade
<1>8. UnsetInv'
  <2>0. plane_bo' = 0
    BY <1>0, <1>1 DEF UnsetInv
  <2>1. \A g \in Frames : cursor'[g] = 0
    BY <1>0, <1>1 DEF UnsetInv
  <2>2. \A p \in Planes : plane'[i][p] = NoPlane
    BY <1>0, <1>1 DEF UnsetInv
  <2>3. ASSUME NEW q \in Pipes, q >= x + 1 PROVE PipeEmpty(i, q)'
    <3>1. q # x /\ q >= x
      BY <1>1, <2>3 DEF Pipes
    <3> QED
      BY <1>0, <1>1, <1>5, <3>1 DEF UnsetInv, PipeEmpty
  <2> QED
    BY <1>1, <1>2, <2>0, <2>1, <2>2, <2>3 DEF UnsetInv
<1>9. StripeEmptyInv'
  BY <1>0, <1>1 DEF StripeEmptyInv, PipeEmpty
<1>10. RamHeldInv'
  BY <1>2 DEF RamHeldInv
<1> QED
  BY <1>6, <1>7, <1>8, <1>9, <1>10 DEF LostInv

\* In VCMD mode before the loop over the frames, and in APB mode in it.
LEMMA LostSetPlane ==
  ASSUME MainOK, ClearOK, DataOK, Good, GoodInv, LostInv, CreatePlane \/ SetPlanes
  PROVE  LostInv'
<1>0. ClearedInv /\ EmptyInv /\ UnsetInv /\ StripeEmptyInv /\ BosHeldInv /\ FbsHeldInv /\ RamHeldInv
  BY DEF LostInv
<1>1. /\ pc \in {"create_plane", "planes"} /\ pc \in Working /\ SetPlane
      /\ i \in Frames /\ i \in Nat /\ x \in Planes /\ x \in Nat /\ i < setup.num
      /\ UNCHANGED <<setup, k, clr, pipe, cursor, wb_stripe, ramless_fb_id>>
  BY Where, Sizes DEF CreatePlane, SetPlanes, Working, MainOK, MainIndex, devVars, dumpVars
<1>2. \/ pc' = pc /\ x' = x + 1 /\ UNCHANGED <<i, dpc>>
      \/ pc = "create_plane" /\ pc' = "create_wb" /\ i' = i + 1 /\ i + 1 < setup.num /\ UNCHANGED dpc
      \/ pc = "create_plane" /\ pc' = "props" /\ i' = 0 /\ dpc' = "wait"
      \/ pc = "planes" /\ pc' = "cursor" /\ UNCHANGED <<i, dpc>>
  BY <1>1 DEF CreatePlane, SetPlanes, dumpVars
<1>3. plane[i][x] = NoPlane /\ plane_bo = 0 /\ plane_bo' = 0
  BY <1>0, <1>1, SetsLeave DEF UnsetInv
<1>4. BoFbCreate /\ plane' = [plane EXCEPT ![i][x] = PlaneSet(plane[i][x], NewBo, NewFb)]
  BY <1>1, <1>3 DEF SetPlane
<1>5. PICK r : /\ r.bo = NewBo /\ r.fb_id = NewFb
               /\ plane' = [plane EXCEPT ![i][x] = r]
  <2> DEFINE new == PlaneSet(plane[i][x], NewBo, NewFb)
  <2>1. new.bo = NewBo /\ new.fb_id = NewFb
    BY <1>3 DEF PlaneSet, NoPlane
  <2>2. plane' = [plane EXCEPT ![i][x] = new]
    BY <1>4
  <2> HIDE DEF new
  <2> QED
    BY <2>1, <2>2
<1>6. /\ \A g \in Frames, p \in Planes : ~(g = i /\ p = x) => plane'[g][p] = plane[g][p]
      /\ \A g \in Frames : g # i => plane'[g] = plane[g]
  BY <1>1, <1>5 DEF DataOK, FieldsOK
<1>7. setup.use_vcmd <=> pc = "create_plane"
  BY <1>1 DEF MainOK, MainIndex
<1>8. ClearedInv' /\ EmptyInv'
  <2>1. \A g \in Frames : g # i => SameFrame(g)
    BY <1>1, <1>6 DEF SameFrame
  <2>2. ASSUME NEW g \in Frames, Released(g)' PROVE Released(g)
    <3>1. CASE dpc' = dpc
      BY <1>1, <1>2, <2>2, <3>1 DEF Released, Busy
    <3>2. CASE dpc' = "wait" /\ pc' = "props" /\ pc = "create_plane"
      <4>1. k = 0 /\ g \in Nat
        BY <3>2 DEF GoodInv, Creating, Frames
      <4> QED
        BY <1>1, <2>2, <3>2, <4>1 DEF Released
    <3> QED
      BY <1>2, <3>1, <3>2
  <2>3. ASSUME NEW g \in Frames, Later(g)' PROVE Later(g)
    <3>1. g \in Nat
      BY DEF Frames
    <3> QED
      BY <1>1, <1>2, <1>7, <2>3, <3>1 DEF Later, Creating
  <2> QED
    BY <1>0, <1>1, <2>1, <2>2, <2>3, MainSets DEF StripeFilled
<1>9. BosHeldInv' /\ FbsHeldInv'
  BY <1>0, <1>1, <1>3, <1>4, <1>5, PlaneMade
<1>10. UnsetInv'
  <2>1. \A g \in Frames : (pc = "create_plane" \/ g >= i) => cursor'[g] = 0
    BY <1>0, <1>1 DEF UnsetInv, Creating, Frames
  <2>2. CASE pc' = pc /\ x' = x + 1 /\ UNCHANGED <<i, dpc>>
    <3>1. ASSUME NEW p \in Planes, p >= x + 1 PROVE plane'[i][p] = NoPlane
      <4>1. p # x /\ p >= x
        BY <1>1, <3>1 DEF Planes
      <4> QED
        BY <1>0, <1>1, <1>6, <4>1 DEF UnsetInv
    <3>2. \A g \in Frames : g > i => g >= i
      BY <1>1 DEF Frames
    <3> QED
      BY <1>1, <1>3, <2>1, <2>2, <3>1, <3>2 DEF UnsetInv, Creating
  <2>3. CASE pc = "create_plane" /\ pc' = "create_wb" /\ i' = i + 1 /\ i + 1 < setup.num
    <3>1. PICK j \in Frames : i' = j /\ j > i
      <4>1. i + 1 \in Frames
        BY <1>1, <2>3, Where, Sizes DEF Frames
      <4> QED
        BY <1>1, <2>3, <4>1
    <3>2. Empty(j) /\ j # i
      <4>1. Later(j)
        BY <1>1, <2>3, <3>1 DEF Later, Creating
      <4> QED
        BY <1>0, <1>1, <3>1, <4>1 DEF EmptyInv, Frames
    <3>3. SameFrame(j)
      BY <1>1, <1>6, <3>2 DEF SameFrame
    <3>4. Empty(j)'
      BY <1>0, <1>1, <3>2, <3>3, EmptyStays DEF StripeFilled
    <3>5. /\ \A p \in Planes : plane'[i'][p] = NoPlane
          /\ \A q \in Pipes : PipeEmpty(i, q)'
      BY <3>1, <3>4 DEF Empty, PipeEmpty
    <3> QED
      BY <1>1, <1>3, <2>1, <2>3, <3>5 DEF UnsetInv
  <2>4. CASE pc = "create_plane" /\ pc' = "props"
    BY <1>1, <1>3, <1>7, <2>1, <2>4 DEF UnsetInv
  <2>5. CASE pc = "planes" /\ pc' = "cursor" /\ UNCHANGED <<i, dpc>>
    <3>1. \A g \in Frames : g > i => g >= i
      BY <1>1 DEF Frames
    <3> QED
      BY <1>1, <1>3, <2>1, <2>5, <3>1 DEF UnsetInv, Creating
  <2> QED
    BY <1>2, <2>2, <2>3, <2>4, <2>5
<1>11. StripeEmptyInv'
  BY <1>0, <1>1 DEF StripeEmptyInv, PipeEmpty
<1>12. RamHeldInv'
  BY <1>1, <1>2, <1>7 DEF RamHeldInv
<1> QED
  BY <1>8, <1>9, <1>10, <1>11, <1>12 DEF LostInv

\* What the three ways of writeback_config have in common.
LEMMA WbEmpty ==
  ASSUME MainOK, ClearOK, DataOK, Good, GoodInv, LostInv, SetWb,
         NEW r, pipe' = [pipe EXCEPT ![i][x] = r], StripeFilled,
         setup.wb[i] = "stripe" => r = wb_stripe', wb_stripe'.out_fb_id = 0 => wb_stripe' = NoPipe
  PROVE  ClearedInv' /\ EmptyInv' /\ UnsetInv' /\ StripeEmptyInv'
<1>0. ClearedInv /\ EmptyInv /\ UnsetInv /\ StripeEmptyInv
  BY DEF LostInv
<1>1. /\ pc = "wb" /\ pc \in Working /\ i \in Frames /\ i \in Nat /\ x \in Pipes /\ x \in Nat
      /\ ~setup.use_vcmd
      /\ UNCHANGED <<setup, i, dpc, k, clr, plane, cursor, plane_bo>> /\ plane_bo = 0
  BY <1>0, Where DEF SetWb, Working, MainOK, MainIndex, dumpVars, swapVars, UnsetInv
<1>2. (x' = x + 1 /\ pc' = "wb") \/ pc' = "planes"
  BY <1>1 DEF SetWb
<1>3. /\ pipe'[i][x] = r
      /\ \A g \in Frames, p \in Pipes : ~(g = i /\ p = x) => pipe'[g][p] = pipe[g][p]
      /\ \A g \in Frames : g # i => pipe'[g] = pipe[g]
  BY <1>1 DEF DataOK, FieldsOK
<1>4. ClearedInv' /\ EmptyInv'
  <2>1. \A g \in Frames : g # i => SameFrame(g)
    BY <1>1, <1>3 DEF SameFrame
  <2>2. \A g \in Frames : Released(g)' => Released(g)
    BY <1>1, <1>2 DEF Released, Busy
  <2>3. \A g \in Frames : Later(g)' => Later(g)
    BY <1>1 DEF Later, Creating
  <2> QED
    BY <1>0, <1>1, <2>1, <2>2, <2>3, MainSets
<1>5. ASSUME NEW g \in Frames, NEW p \in Pipes, ~(g = i /\ p = x), PipeEmpty(g, p) PROVE PipeEmpty(g, p)'
  <2>1. wb_stripe' = wb_stripe \/ wb_stripe = NoPipe
    BY <1>0 DEF StripeFilled, StripeEmptyInv
  <2> QED
    BY <1>1, <1>3, <1>5, <2>1 DEF PipeEmpty
<1>6. UnsetInv'
  <2>1. \A g \in Frames : g >= i => cursor'[g] = 0
    BY <1>0, <1>1 DEF UnsetInv, Creating, Frames
  <2>2. \A p \in Planes : plane'[i][p] = NoPlane
    BY <1>0, <1>1 DEF UnsetInv
  <2>3. ASSUME NEW q \in Pipes, q >= x + 1 PROVE PipeEmpty(i, q)'
    <3>1. q # x /\ q >= x
      BY <1>1, <2>3 DEF Pipes
    <3> QED
      BY <1>0, <1>1, <1>5, <3>1 DEF UnsetInv
  <2>4. \A g \in Frames : g > i => g >= i
    BY <1>1 DEF Frames
  <2> QED
    BY <1>1, <1>2, <2>1, <2>2, <2>3, <2>4 DEF UnsetInv, Creating
<1>7. StripeEmptyInv'
  <2>1. ASSUME NEW g \in Frames, NEW p \in Pipes, setup.wb[g] = "stripe" PROVE PipeEmpty(g, p)'
    <3>1. CASE g = i /\ p = x
      BY <1>1, <1>3, <2>1, <3>1 DEF PipeEmpty
    <3>2. CASE ~(g = i /\ p = x)
      BY <1>0, <1>5, <2>1, <3>2 DEF StripeEmptyInv
    <3> QED
      BY <3>1, <3>2
  <2> QED
    BY <1>1, <2>1 DEF StripeEmptyInv
<1> QED
  BY <1>4, <1>6, <1>7

LEMMA LostSetWb ==
  ASSUME MainOK, ClearOK, DataOK, Good, GoodInv, LostInv, SetWb PROVE LostInv'
<1>0. ClearedInv /\ EmptyInv /\ UnsetInv /\ StripeEmptyInv /\ BosHeldInv /\ FbsHeldInv /\ RamHeldInv
  BY DEF LostInv
<1>1. /\ pc = "wb" /\ i \in Frames /\ i \in Nat /\ x \in Pipes /\ x \in Nat /\ ~setup.use_vcmd
      /\ pc' \in {"wb", "planes"} /\ UNCHANGED <<setup, round, i, plane, cursor>>
      /\ round \in 1 .. setup.recycle
  BY Where DEF SetWb, Working, MainOK, MainIndex
<1>2. PipeEmpty(i, x)
  BY <1>0, <1>1 DEF UnsetInv
<1>3. fbs \in [FbIds -> 0 .. made] /\ 0 \notin FbIds
  BY SizeAssumption DEF DataOK, PoolOK, FbIds
<1>4. PICK n : n = [out_bo |-> NewBo, out_fb_id |-> NewFb]
  OBVIOUS
<1>5. n.out_bo = NewBo /\ n.out_fb_id = NewFb
  BY <1>4
<1>6. ASSUME BoFbCreate, pipe' = [pipe EXCEPT ![i][x] = n], pipe[i][x].out_bo = 0,
             \/ UNCHANGED wb_stripe /\ setup.wb[i] # "stripe"
             \/ wb_stripe' = n /\ wb_stripe.out_fb_id = 0,
             LeakFree(setup) => \/ UNCHANGED ramless_fb_id
                                \/ i = 0 /\ round = 1 /\ ramless_fb_id' = NewFb
      PROVE  LostInv'
  <2>1. ClearedInv' /\ EmptyInv' /\ UnsetInv' /\ StripeEmptyInv'
    <3>1. StripeFilled /\ (setup.wb[i] = "stripe" => n = wb_stripe')
      BY <1>6 DEF StripeFilled
    <3>2. wb_stripe'.out_fb_id = 0 => wb_stripe' = NoPipe
      BY <1>0, <1>5, <1>6, NewFramebuffer DEF StripeEmptyInv
    <3> QED
      BY <1>6, <3>1, <3>2, WbEmpty
  <2>2. UNCHANGED wb_stripe \/ wb_stripe = NoPipe
    BY <1>0, <1>6 DEF StripeEmptyInv
  <2>3. ASSUME LeakFree(setup)
        PROVE  \/ UNCHANGED ramless_fb_id \/ ramless_fb_id = 0
               \/ \E g \in Frames, p \in Pipes : PipeHolds(ramless_fb_id, g, p)
    BY <1>0, <1>1, <1>6, <2>3 DEF RamHeldInv
  <2>4. BosHeldInv' /\ FbsHeldInv'
    <3> SUFFICES ASSUME LeakFree(setup) PROVE BosHeldInv' /\ FbsHeldInv'
      BY <1>1 DEF BosHeldInv, FbsHeldInv
    <3> QED
      BY <1>0, <1>1, <1>5, <1>6, <2>2, <2>3, PipeMade
  <2>5. /\ pipe'[i][x] = n
        /\ \A g \in Frames, p \in Pipes : ~(g = i /\ p = x) => pipe'[g][p] = pipe[g][p]
    BY <1>1, <1>6 DEF DataOK, FieldsOK
  <2>6. RamHeldInv'
    <3> SUFFICES ASSUME LeakFree(setup), i = 0, round = 1, ramless_fb_id' # 0
                 PROVE  \E g \in Frames, p \in Pipes : PipeHolds(ramless_fb_id, g, p)'
      BY <1>1 DEF RamHeldInv
    <3>1. CASE UNCHANGED ramless_fb_id
      <4>1. PICK g \in Frames, p \in Pipes : PipeHolds(ramless_fb_id, g, p)
        BY <1>0, <1>1, <3>1 DEF RamHeldInv
      <4>2. ~(g = i /\ p = x)
        BY <1>6, <4>1 DEF PipeHolds
      <4> QED
        BY <2>5, <3>1, <4>1, <4>2 DEF PipeHolds
    <3>2. CASE ramless_fb_id' = NewFb
      <4>1. pipe'[i][x].out_bo # 0 /\ ramless_fb_id' = pipe'[i][x].out_fb_id
        BY <1>1, <1>5, <1>6, <2>5, <3>2, NewFramebuffer
      <4> QED
        BY <1>1, <4>1 DEF PipeHolds
    <3> QED
      BY <1>6, <3>1, <3>2
  <2> QED
    BY <2>1, <2>4, <2>6 DEF LostInv
<1>7. CASE PipeWb
  <2>1. /\ setup.wb[i] # "stripe" /\ BoFbCreate /\ pipe' = [pipe EXCEPT ![i][x] = n]
        /\ ramless_fb_id' = IF setup.wb[i] = "ramless" THEN NewFb ELSE ramless_fb_id
        /\ UNCHANGED wb_stripe
    BY <1>4, <1>7 DEF PipeWb
  <2>2. LeakFree(setup) /\ setup.wb[i] = "ramless" => i = 0 /\ round = 1
    BY <1>1 DEF LeakFree
  <2>3. pipe[i][x].out_bo = 0
    BY <1>2, <2>1 DEF PipeEmpty
  <2> QED
    BY <1>6, <2>1, <2>2, <2>3
<1>8. CASE StripeWb /\ wb_stripe.out_fb_id = 0
  <2>1. /\ setup.wb[i] = "stripe" /\ BoFbCreate /\ pipe' = [pipe EXCEPT ![i][x] = n]
        /\ wb_stripe' = n /\ UNCHANGED ramless_fb_id
    BY <1>4, <1>8 DEF StripeWb
  <2>2. pipe[i][x].out_bo = 0
    BY <1>0, <1>1, <1>2, <1>8, <2>1 DEF PipeEmpty, StripeEmptyInv, NoPipe
  <2> QED
    BY <1>6, <1>8, <2>1, <2>2
<1>9. CASE StripeWb /\ wb_stripe.out_fb_id # 0
  <2>1. PICK r : r = wb_stripe
    OBVIOUS
  <2>2. /\ setup.wb[i] = "stripe" /\ pipe' = [pipe EXCEPT ![i][x] = r]
        /\ UNCHANGED <<bos, fbs, wb_stripe, ramless_fb_id>>
    BY <1>9, <2>1 DEF StripeWb, poolVars
  <2>3. ClearedInv' /\ EmptyInv' /\ UnsetInv' /\ StripeEmptyInv'
    <3>1. StripeFilled /\ (setup.wb[i] = "stripe" => r = wb_stripe')
      BY <2>1, <2>2 DEF StripeFilled
    <3>2. wb_stripe'.out_fb_id = 0 => wb_stripe' = NoPipe
      BY <1>9, <2>2
    <3> QED
      BY <2>2, <3>1, <3>2, WbEmpty
  <2>4. /\ pipe'[i][x] = r
        /\ \A g \in Frames, p \in Pipes : ~(g = i /\ p = x) => pipe'[g][p] = pipe[g][p]
    BY <1>1, <2>2 DEF DataOK, FieldsOK
  <2>5. pipe[i][x].out_bo = 0 \/ pipe[i][x] = wb_stripe
    BY <1>1, <1>2, <2>2 DEF PipeEmpty, NoPipe
  <2>6. \A g \in Frames, p \in Pipes : pipe[g][p].out_bo # 0 => pipe'[g][p] = pipe[g][p]
    BY <2>1, <2>4, <2>5
  <2>7. \A id : \A g \in Frames, p \in Pipes : PipeHolds(id, g, p) => PipeHolds(id, g, p)'
    BY <2>6 DEF PipeHolds
  <2>8. \A id : FbHeld(id) => FbHeld(id)'
    BY <1>1, <2>2, <2>7 DEF FbHeld, PlaneHolds
  <2>9. FbsHeldInv'
    BY <1>0, <1>1, <2>2, <2>8 DEF FbsHeldInv
  <2>10. RamHeldInv'
    BY <1>0, <1>1, <2>2, <2>7 DEF RamHeldInv
  <2>11. BosHeldInv'
    <3>1. ASSUME LeakFree(setup), NEW b \in bos, b # wb_stripe.out_bo PROVE \E d \in Fields : Held(d)' = b
      <4>1. PICK d \in Fields : Held(d) = b
        BY <1>0, <3>1 DEF BosHeldInv
      <4>2. d # <<"out_bo", i, x>>
        <5>1. b # 0
          BY DEF DataOK, PoolOK
        <5> QED
          BY <2>5, <3>1, <4>1, <5>1, HeldIs
      <4>3. Held(d)' = Held(d)
        BY <1>1, <2>2, <4>2, PipeHeld
      <4> QED
        BY <4>1, <4>3
    <3> QED
      BY <1>1, <2>2, <3>1 DEF BosHeldInv
  <2> QED
    BY <2>3, <2>9, <2>10, <2>11 DEF LostInv
<1> QED
  BY <1>7, <1>8, <1>9 DEF SetWb

LEMMA LostSetCursor ==
  ASSUME MainOK, ClearOK, DataOK, Good, GoodInv, LostInv, SetCursor PROVE LostInv'
<1>0. ClearedInv /\ EmptyInv /\ UnsetInv /\ StripeEmptyInv /\ BosHeldInv /\ FbsHeldInv /\ RamHeldInv
  BY DEF LostInv
<1>1. /\ pc = "cursor" /\ pc' = "commit" /\ pc \in Working /\ i \in Frames /\ i \in Nat
      /\ UNCHANGED <<setup, i, dpc, k, clr, plane, pipe, wb_stripe, ramless_fb_id, fbs>>
      /\ plane_bo' = 0
  BY <1>0, Where DEF SetCursor, Working, devVars, dumpVars, swapVars, UnsetInv
<1>2. PICK b : \/ MakeBo /\ b = NewBo /\ cursor' = [cursor EXCEPT ![i] = b]
               \/ UNCHANGED <<bos, cursor>>
  BY DEF SetCursor
<1>3. \A g \in Frames : g # i => cursor'[g] = cursor[g]
  BY <1>1, <1>2 DEF DataOK, FieldsOK
<1>4. ClearedInv' /\ EmptyInv'
  <2>1. \A g \in Frames : g # i => SameFrame(g)
    BY <1>1, <1>3 DEF SameFrame
  <2>2. \A g \in Frames : Released(g)' => Released(g)
    BY <1>1 DEF Released, Busy
  <2>3. \A g \in Frames : Later(g)' => Later(g)
    BY <1>1 DEF Later, Creating
  <2> QED
    BY <1>0, <1>1, <2>1, <2>2, <2>3, MainSets DEF StripeFilled
<1>5. UnsetInv'
  <2>1. \A g \in Frames : g > i => cursor'[g] = 0
    BY <1>0, <1>1, <1>3 DEF UnsetInv, Frames
  <2> QED
    BY <1>1, <2>1 DEF UnsetInv, Creating
<1>6. StripeEmptyInv' /\ FbsHeldInv' /\ RamHeldInv'
  BY <1>0, <1>1 DEF StripeEmptyInv, PipeEmpty, FbsHeldInv, FbHeld, PlaneHolds, PipeHolds, RamHeldInv
<1>7. BosHeldInv'
  <2>1. CASE MakeBo /\ b = NewBo /\ cursor' = [cursor EXCEPT ![i] = b]
    <3>0. <<"cursor", i, 0>> \in Fields /\ Held(<<"cursor", i, 0>>) = 0
      BY <1>0, <1>1, AreFields, HeldIs DEF UnsetInv
    <3>1. cursor' = [cursor EXCEPT ![i] = b] /\ UNCHANGED <<plane, pipe>>
      BY <1>1, <2>1
    <3>5. PICK f \in Frames : f = i
      BY <1>1
    <3>6. cursor' = [cursor EXCEPT ![f] = b]
      BY <3>1, <3>5
    <3>2. /\ Held(<<"cursor", f, 0>>)' = b
          /\ \A d \in Fields \ {<<"cursor", f, 0>>} : Held(d)' = Held(d)
      BY <3>1, <3>6, CursorHeld
    <3>7. <<"cursor", f, 0>> \in Fields /\ Held(<<"cursor", f, 0>>) = 0
      BY <3>0, <3>5
    <3>3. bos' = bos \cup {b} /\ 0 \notin bos
      BY <2>1 DEF MakeBo, DataOK, PoolOK
    <3> QED
      BY <1>0, <1>1, <3>2, <3>3, <3>7 DEF BosHeldInv
  <2>2. CASE UNCHANGED <<bos, cursor>>
    <3>1. \A d \in Fields : Held(d)' = Held(d)
      BY <1>1, <2>2, FieldsHeld DEF fieldVars
    <3> QED
      BY <1>0, <1>1, <2>2, <3>1 DEF BosHeldInv
  <2> QED
    BY <1>2, <2>1, <2>2
<1> QED
  BY <1>4, <1>5, <1>6, <1>7 DEF LostInv

\* A step that changes no field, no buffer and no framebuffer.
LEMMA LostStays ==
  ASSUME LostInv, Good, UNCHANGED <<setup, fieldVars, wb_stripe, ramless_fb_id, poolVars>>,
         ClearedInv', UnsetInv', RamHeldInv',
         \A f \in Frames : Released(f)' \/ Later(f)' => Empty(f)
  PROVE  LostInv'
<1>1. UNCHANGED <<setup, plane, pipe, cursor, wb_stripe, ramless_fb_id, bos, fbs>>
  BY DEF fieldVars, poolVars
<1>2. \A f : Empty(f)' = Empty(f) /\ \A q : PipeEmpty(f, q)' = PipeEmpty(f, q)
  BY <1>1 DEF Empty, PipeEmpty
<1>3. EmptyInv' /\ StripeEmptyInv'
  BY <1>1, <1>2 DEF EmptyInv, StripeEmptyInv, LostInv
<1>4. FbsHeldInv'
  BY <1>1 DEF FbsHeldInv, FbHeld, PlaneHolds, PipeHolds, LostInv
<1>5. BosHeldInv'
  BY <1>1, FieldsHeld DEF BosHeldInv, LostInv
<1> QED
  BY <1>3, <1>4, <1>5 DEF LostInv

\* The plane main sets has no buffer: the swap changes nothing.
LEMMA LostSwapBos ==
  ASSUME MainOK, DataOK, Good, LostInv, SwapBos PROVE LostInv'
<1>0. ClearedInv /\ EmptyInv /\ UnsetInv /\ StripeEmptyInv /\ RamHeldInv
  BY DEF LostInv
<1>1. /\ pc \in {"create_plane", "planes"} /\ i \in Frames /\ x \in Planes /\ x >= x
      /\ UNCHANGED <<setup, pc, round, i, x, dpc, k, clr, pipe, cursor, wb_stripe, ramless_fb_id,
                     fb_inuse, poolVars>>
  BY Where DEF SwapBos, Working, mainVars, dumpVars, devVars, Planes
<1>2. plane[i][x] = NoPlane
  BY <1>0, <1>1 DEF UnsetInv
<1>3. plane' = plane /\ plane_bo' = 0
  <2>1. NoPlane.bo = 0 /\ NoPlane.old_bo = 0 /\ [NoPlane EXCEPT !.old_bo = 0] = NoPlane
    BY DEF NoPlane
  <2>2. PICK r : r = [plane[i][x] EXCEPT !.old_bo = plane[i][x].bo]
    OBVIOUS
  <2>3. r = plane[i][x]
    BY <1>2, <2>1, <2>2
  <2>4. plane' = [plane EXCEPT ![i][x] = r]
    BY <2>2 DEF SwapBos
  <2>5. plane' = plane
    BY <1>1, <2>3, <2>4 DEF DataOK, FieldsOK
  <2> QED
    BY <1>2, <2>1, <2>5 DEF SwapBos
<1>4. ClearedInv' /\ UnsetInv' /\ RamHeldInv'
  BY <1>0, <1>1, <1>3 DEF ClearedInv, Cleared, UnsetInv, PipeEmpty, Creating, RamHeldInv, PlaneStages
<1>5. ASSUME NEW f \in Frames, Released(f)' \/ Later(f)' PROVE Empty(f)
  BY <1>0, <1>1, <1>5 DEF EmptyInv, Released, Later, Busy, Creating
<1> QED
  BY <1>1, <1>3, <1>4, <1>5, LostStays DEF fieldVars

\* main goes on, and no field changes: Commit and the other steps.
LEMMA LostCommit ==
  ASSUME MainOK, ClearOK, DataOK, Good, GoodInv, LostInv, Commit PROVE LostInv'
<1>0. ClearedInv /\ EmptyInv /\ UnsetInv /\ StripeEmptyInv
  BY DEF LostInv
<1>1. /\ pc = "commit" /\ pc \in Working /\ i \in Nat /\ i \in Frames /\ i < setup.num
      /\ i' = i + 1 /\ x' = x /\ ~Creating /\ setup.num \in Nat
      /\ (pc' = "props" /\ i + 1 < setup.num) \/ pc' = "join"
      /\ UNCHANGED <<setup, dpc, k, clr, fieldVars, wb_stripe, ramless_fb_id, poolVars>>
      /\ plane_bo' = 0
  BY <1>0, Where DEF Commit, Working, MainOK, MainIndex, dumpVars, devVars, Creating, swapVars, UnsetInv
<1>2. UNCHANGED <<plane, pipe, cursor>>
  BY <1>1 DEF fieldVars
<1>3. ASSUME NEW f \in Frames, Released(f)' \/ Later(f)' PROVE Empty(f)
  <2>1. Released(f) \/ Later(f)
    <3>1. f \in Nat
      BY DEF Frames
    <3> QED
      BY <1>1, <1>3, <3>1 DEF Released, Later, Busy, Creating
  <2> QED
    BY <1>0, <2>1 DEF EmptyInv
<1>4. ClearedInv'
  BY <1>0, <1>1, <1>2 DEF ClearedInv, Cleared, PipeEmpty, PlaneStages
<1>5. UnsetInv'
  <2>1. CASE pc' = "join"
    BY <1>1, <2>1 DEF UnsetInv, Working
  <2>2. CASE pc' = "props" /\ i + 1 < setup.num
    <3>1. PICK j \in Frames : i' = j /\ j > i
      <4>1. i + 1 \in Frames
        BY <1>1, <2>2, Where, Sizes DEF Frames
      <4> QED
        BY <1>1, <2>2, <4>1
    <3>2. ~setup.use_vcmd => Empty(j)
      BY <1>0, <1>1, <3>1 DEF EmptyInv, Later
    <3>3. ASSUME ~setup.use_vcmd
          PROVE  (\A p \in Planes : plane'[i'][p] = NoPlane) /\ \A q \in Pipes : PipeEmpty(i, q)'
      BY <1>1, <1>2, <3>1, <3>2, <3>3 DEF Empty, PipeEmpty
    <3>4. ASSUME NEW f \in Frames, f > i' \/ f = i' PROVE cursor'[f] = 0
      <4>1. f > i
        BY <1>1, <3>1, <3>4 DEF Frames
      <4> QED
        BY <1>0, <1>1, <1>2, <4>1 DEF UnsetInv
    <3> QED
      BY <1>1, <2>2, <3>3, <3>4 DEF UnsetInv, Creating
  <2> QED
    BY <1>1, <2>1, <2>2
<1>6. RamHeldInv'
  BY <1>1 DEF RamHeldInv
<1> QED
  BY <1>1, <1>3, <1>4, <1>5, <1>6, LostStays

LEMMA LostSetProps ==
  ASSUME MainOK, Good, GoodInv, LostInv, SetProps PROVE LostInv'
<1>0. ClearedInv /\ EmptyInv /\ UnsetInv /\ RamHeldInv
  BY DEF LostInv
<1>1. /\ pc = "props" /\ pc \in Working /\ pc' \in Working /\ ~Creating /\ ~Creating' /\ i \in Nat
      /\ pc' = IF setup.use_vcmd THEN "cursor" ELSE "wb"
      /\ UNCHANGED <<setup, round, i, x, dpc, k, clr, fieldVars, wb_stripe, ramless_fb_id, poolVars,
                     plane_bo>>
  BY Where DEF SetProps, Working, Creating, mainVars, dumpVars, swapVars
<1>2. UNCHANGED <<plane, pipe, cursor>>
  BY <1>1 DEF fieldVars
<1>3. ASSUME NEW f \in Frames, Released(f)' \/ Later(f)' PROVE Empty(f)
  BY <1>0, <1>1, <1>3 DEF EmptyInv, Released, Later, Busy
<1>4. ClearedInv'
  BY <1>0, <1>1, <1>2 DEF ClearedInv, Cleared, PipeEmpty, PlaneStages
<1>5. UnsetInv'
  BY <1>0, <1>1, <1>2 DEF UnsetInv, PipeEmpty
<1>6. RamHeldInv'
  <2>1. \A id, f, q : PipeHolds(id, f, q)' = PipeHolds(id, f, q)
    BY <1>2 DEF PipeHolds
  <2> QED
    BY <1>0, <1>1, <2>1 DEF RamHeldInv
<1> QED
  BY <1>1, <1>3, <1>4, <1>5, <1>6, LostStays

\* When the last dump thread of a round has ended, every frame is empty in stream mode.
LEMMA LostJoin ==
  ASSUME MainOK, Good, GoodInv, LostInv, Join PROVE LostInv'
<1>0. ClearedInv /\ EmptyInv /\ plane_bo' = 0
  BY DEF LostInv, UnsetInv, Join, swapVars
<1>1. /\ pc = "join" /\ dpc = "exit" /\ k \in Nat /\ k + 1 = setup.num /\ setup.num \in Nat
      /\ round \in Nat \ {0} /\ 0 \in Frames
      /\ UNCHANGED <<setup, x, clr, fieldVars, wb_stripe, ramless_fb_id, poolVars>>
  BY Where, Run, Sizes DEF Join, GoodInv, MainOK, devVars
<1>2. UNCHANGED <<plane, pipe, cursor>>
  BY <1>1 DEF fieldVars
<1>3. ClearedInv'
  BY <1>0, <1>1, <1>2 DEF ClearedInv, Cleared, PipeEmpty, PlaneStages
<1>4. CASE pc' = "final" /\ UNCHANGED <<round, i, k, dpc>>
  <2>1. ASSUME NEW f \in Frames, Released(f)' \/ Later(f)' PROVE Empty(f)
    BY <1>0, <1>1, <1>4, <2>1 DEF EmptyInv, Released, Later, Busy, Working
  <2>2. UnsetInv' /\ RamHeldInv'
    BY <1>0, <1>4 DEF UnsetInv, RamHeldInv, Working
  <2> QED
    BY <1>1, <1>3, <2>1, <2>2, LostStays
<1>5. CASE /\ setup.is_stream /\ round' = round + 1 /\ i' = 0 /\ k' = 0 /\ pc' = "props" /\ dpc' = "wait"
  <2>1. \A f \in Frames : Empty(f)
    <3>1. ASSUME NEW f \in Frames PROVE Released(f) \/ f >= setup.num
      BY <1>1, <1>5 DEF Released, Frames
    <3> QED
      BY <1>0, <3>1 DEF EmptyInv
  <2>2. UnsetInv'
    <3>1. \A p \in Planes : plane'[0][p] = NoPlane
      BY <1>1, <1>2, <2>1 DEF Empty
    <3>2. \A q \in Pipes : PipeEmpty(i, q)'
      BY <1>1, <1>2, <1>5, <2>1 DEF Empty, PipeEmpty
    <3>3. \A f \in Frames : cursor'[f] = 0
      BY <1>2, <2>1 DEF Empty
    <3> QED
      BY <1>0, <1>5, <3>1, <3>2, <3>3 DEF UnsetInv
  <2>3. RamHeldInv'
    BY <1>1, <1>5 DEF RamHeldInv
  <2> QED
    BY <1>1, <1>3, <2>1, <2>2, <2>3, LostStays
<1> QED
  BY <1>4, <1>5 DEF Join

LEMMA LostFinal ==
  ASSUME MainOK, ClearOK, Good, GoodInv, LostInv, Final PROVE LostInv'
<1>0. ClearedInv /\ EmptyInv /\ plane_bo' = 0
  BY DEF LostInv, UnsetInv, Final, swapVars
<1>1. /\ pc = "final" /\ pc' = "end"
      /\ UNCHANGED <<setup, dpc, k, fieldVars, wb_stripe, ramless_fb_id, poolVars>>
  BY DEF Final, dumpVars, devVars
<1>2. UNCHANGED <<plane, pipe, cursor>>
  BY <1>1 DEF fieldVars
<1>3. clr'["main"].stage = "cursor" /\ clr'["dump"] = clr["dump"]
  BY DEF Final, ClearFrame, ClearOK, Threads
<1>4. ASSUME NEW f \in Frames, Released(f)' \/ Later(f)' PROVE Empty(f)
  BY <1>0, <1>1, <1>3, <1>4 DEF EmptyInv, Released, Later, Busy, Working
<1>5. ClearedInv'
  <2>1. \A t \in Threads : clr'[t].stage = "cursor" \/ clr'[t] = clr[t]
    BY <1>3 DEF Threads
  <2>2. \A f, y : Cleared("cursor", f, y)'
    BY DEF Cleared, PlaneStages
  <2>3. \A stage, f, y : Cleared(stage, f, y)' = Cleared(stage, f, y)
    BY <1>1, <1>2 DEF Cleared, PipeEmpty
  <2> QED
    BY <1>0, <2>1, <2>2, <2>3 DEF ClearedInv
<1>6. UnsetInv' /\ RamHeldInv'
  BY <1>0, <1>1, <1>3 DEF UnsetInv, RamHeldInv, Working, Busy
<1> QED
  BY <1>1, <1>4, <1>5, <1>6, LostStays

\* The dump thread goes on to the release of a frame, or is through with one.
LEMMA LostDump ==
  ASSUME MainOK, ClearOK, Good, GoodInv, LostInv, DumpTakes \/ Dump \/ DumpNext \/ DumpEnds
  PROVE  LostInv'
<1>0. ClearedInv /\ EmptyInv /\ UnsetInv /\ RamHeldInv
  BY DEF LostInv
<1>1. UNCHANGED <<setup, mainVars, swapVars, fieldVars, devVars, poolVars>>
  BY DEF DumpTakes, Dump, DumpNext, DumpEnds
<1>2. UNCHANGED <<setup, pc, i, x, round, plane, pipe, cursor, wb_stripe, ramless_fb_id, fb_inuse,
                  plane_bo>>
  BY <1>1 DEF mainVars, swapVars, fieldVars, devVars
<1>3. /\ clr'["main"] = clr["main"] /\ k \in Nat
      /\ clr'["dump"] = clr["dump"] \/ clr'["dump"].stage = "cursor"
  BY Where DEF DumpTakes, Dump, DumpNext, DumpEnds, ClearFrame, ClearOK, Threads
<1>4. ASSUME NEW f \in Frames, Released(f)' PROVE Released(f)
  <2>0. f \in Nat
    BY DEF Frames
  <2>1. CASE DumpTakes
    BY <1>2, <1>3, <1>4, <2>0, <2>1 DEF DumpTakes, Released, Busy
  <2>2. CASE Dump
    <3>1. dpc = "dump" /\ dpc' = "next" /\ k' = k
      BY <2>2 DEF Dump
    <3>2. k > 0 => Busy("dump")'
      BY <2>2 DEF Dump, ClearFrame, ClearOK, Threads, Busy
    <3> QED
      BY <1>2, <1>3, <1>4, <2>0, <3>1, <3>2 DEF Released, Busy
  <2>3. CASE DumpNext
    <3>1. dpc = "next" /\ ~Busy("dump")
      BY <2>3 DEF DumpNext, Busy, Idle
    <3>2. CASE k' = k + 1 /\ dpc' = "wait"
      BY <1>2, <1>3, <1>4, <2>0, <3>1, <3>2 DEF Released, Busy, GoodInv
    <3>3. CASE k' = k /\ dpc' = "last"
      <4>1. setup.is_stream => Busy("dump")'
        BY <2>3, <3>1, <3>3 DEF DumpNext, ClearFrame, ClearOK, Threads, Busy
      <4> QED
        BY <1>2, <1>3, <1>4, <2>0, <3>1, <3>3, <4>1 DEF Released, Busy
    <3> QED
      BY <2>3, <3>2, <3>3 DEF DumpNext
  <2>4. CASE DumpEnds
    BY <1>2, <1>3, <1>4, <2>0, <2>4 DEF DumpEnds, Released, Busy, Idle
  <2> QED
    BY <2>1, <2>2, <2>3, <2>4
<1>5. ASSUME NEW f \in Frames, Released(f)' \/ Later(f)' PROVE Empty(f)
  BY <1>0, <1>2, <1>4, <1>5 DEF EmptyInv, Later, Creating
<1>6. ClearedInv'
  <2>1. \A t \in Threads : clr'[t].stage = "cursor" \/ clr'[t] = clr[t]
    BY <1>3 DEF Threads
  <2>2. \A f, y : Cleared("cursor", f, y)'
    BY DEF Cleared, PlaneStages
  <2>3. \A stage, f, y : Cleared(stage, f, y)' = Cleared(stage, f, y)
    BY <1>2 DEF Cleared, PipeEmpty
  <2> QED
    BY <1>0, <2>1, <2>2, <2>3 DEF ClearedInv
<1>7. UnsetInv'
  BY <1>0, <1>2 DEF UnsetInv, PipeEmpty, Creating
<1>8. RamHeldInv'
  <2>1. \A id, f, q : PipeHolds(id, f, q)' = PipeHolds(id, f, q)
    BY <1>2 DEF PipeHolds
  <2> QED
    BY <1>0, <1>2, <1>3, <2>1 DEF RamHeldInv, Busy
<1> QED
  BY <1>1, <1>5, <1>6, <1>7, <1>8, LostStays DEF devVars

\* A thread that clears a frame only empties fields.
Empties ==
  /\ \A g \in Frames, p \in Planes : plane[g][p] = NoPlane => plane'[g][p] = NoPlane
  /\ \A g \in Frames, p \in Planes : plane[g][p].fb_id = 0 => plane'[g][p].fb_id = 0
  /\ \A g \in Frames, p \in Planes : plane[g][p].old_fb_id = 0 => plane'[g][p].old_fb_id = 0
  /\ \A g \in Frames, p \in Planes : plane[g][p].bo = 0 => plane'[g][p].bo = 0
  /\ \A g \in Frames, q \in Pipes : PipeEmpty(g, q) => PipeEmpty(g, q)'
  /\ \A g \in Frames : cursor[g] = 0 => cursor'[g] = 0

\* What thread t leaves in the plane it clears.
PlaneClearedAs(t, f, y, r) ==
  /\ f = clr[t].frame /\ y = clr[t].y /\ clr[t].stage \in PlaneStages
  /\ plane' = [plane EXCEPT ![f][y] = r] /\ UNCHANGED <<cursor, pipe, made, ramless_fb_id>>
  /\ r.fb_id = Or0(t, "fb_id", plane[f][y].fb_id)
  /\ r.old_fb_id = Or0(t, "old_fb_id", plane[f][y].old_fb_id)
  /\ r.bo = Or0(t, "bo", plane[f][y].bo)
  /\ r.old_bo = Or0(t, "old_bo", plane[f][y].old_bo)

LEMMA PlaneClearedBy ==
  ASSUME DataOK, ClearOK, NEW t \in Threads, ClearPlane(t)
  PROVE  \E f \in Frames, y \in Planes, r \in PlaneRec(made) : PlaneClearedAs(t, f, y, r)
<1>1. FieldsOK /\ made \in Nat
  BY DEF DataOK, PoolOK
<1> QED
  BY <1>1, PlaneCleared DEF PlaneClearedAs

\* What each step of thread t does to frame f of which it clears plane or pipe y.
LEMMA ClearEmpties ==
  ASSUME DataOK, ClearOK, NEW t \in Threads, Clear(t) PROVE Empties
<1>0. PICK f \in Frames, y \in Planes \cup {0} : f = clr[t].frame /\ y = clr[t].y
  BY DEF ClearOK
<1>1. /\ plane \in [Frames -> [Planes -> PlaneRec(made)]] /\ pipe \in [Frames -> [Pipes -> PipeRec(made)]]
      /\ cursor \in [Frames -> 0 .. made]
  BY DEF DataOK, FieldsOK
<1>2. UNCHANGED <<setup, wb_stripe>>
  BY ClearMoves
<1>3. CASE ClearCursor(t)
  BY <1>0, <1>1, <1>2, <1>3 DEF ClearCursor, Empties, PipeEmpty
<1>4. CASE ClearPlane(t)
  <2>1. PICK g \in Frames, p \in Planes, r \in PlaneRec(made) : PlaneClearedAs(t, g, p, r)
    BY <1>4, PlaneClearedBy
  <2>2. \A h \in Frames, q \in Planes :
          plane'[h][q] = IF h = g /\ q = p THEN r ELSE plane[h][q]
    BY <1>1, <2>1 DEF PlaneClearedAs
  <2>3. /\ plane[g][p].fb_id = 0 => r.fb_id = 0
        /\ plane[g][p].old_fb_id = 0 => r.old_fb_id = 0
        /\ plane[g][p].bo = 0 => r.bo = 0
        /\ plane[g][p].old_bo = 0 => r.old_bo = 0
    BY <2>1 DEF PlaneClearedAs, Or0
  <2>4. plane[g][p] = NoPlane => r = NoPlane
    BY <2>3 DEF NoPlane, PlaneRec
  <2>5. UNCHANGED <<pipe, cursor>>
    BY <2>1 DEF PlaneClearedAs
  <2> QED
    BY <1>2, <2>2, <2>3, <2>4, <2>5 DEF Empties, PipeEmpty
<1>6. CASE ClearPipe(t)
  <2>1. y \in Pipes /\ UNCHANGED <<plane, cursor>>
    BY <1>0, <1>6 DEF ClearPipe, ClearOK, ClearIndex
  <2>2. CASE setup.wb[f] = "stripe"
    BY <1>0, <1>2, <1>6, <2>1, <2>2 DEF ClearPipe, Empties, PipeEmpty
  <2>3. CASE setup.wb[f] # "stripe"
    <3>1. PICK r : r.out_bo = 0 /\ pipe' = [pipe EXCEPT ![f][y] = r]
      <4> DEFINE r == [NoPipe EXCEPT !.out_fb_id = IF pipe[f][y].out_fb_id = ramless_fb_id
                                                   THEN ramless_fb_id ELSE 0]
      <4>1. pipe' = [pipe EXCEPT ![f][y] = r]
        BY <1>0, <1>6, <2>3 DEF ClearPipe
      <4>2. r.out_bo = 0
        BY DEF NoPipe
      <4> QED
        BY <4>1, <4>2
    <3>2. \A g \in Frames, q \in Pipes : pipe'[g][q] = IF g = f /\ q = y THEN r ELSE pipe[g][q]
      BY <1>1, <2>1, <3>1
    <3> QED
      BY <1>2, <2>1, <2>3, <3>1, <3>2 DEF Empties, PipeEmpty
  <2> QED
    BY <2>2, <2>3
<1>7. CASE ClearRamless(t) \/ ClearRmRamless(t)
  BY <1>2, <1>7 DEF ClearRamless, ClearRmRamless, fieldVars, Empties, PipeEmpty
<1> QED
  BY <1>3, <1>4, <1>6, <1>7 DEF Clear, ClearPlane

LEMMA ClearCleared ==
  ASSUME DataOK, ClearOK, ClearedInv, StripeEmptyInv, NEW t \in Threads, Clear(t) PROVE ClearedInv'
<1>0. PICK f \in Frames, y \in Planes \cup {0} : f = clr[t].frame /\ y = clr[t].y
  BY DEF ClearOK
<1>1. /\ plane \in [Frames -> [Planes -> PlaneRec(made)]] /\ pipe \in [Frames -> [Pipes -> PipeRec(made)]]
      /\ cursor \in [Frames -> 0 .. made]
      /\ clr \in [Threads -> [stage : Stages, frame : Frames, y : Planes \cup {0}]]
  BY DEF DataOK, FieldsOK, ClearOK
<1>2. UNCHANGED <<setup, wb_stripe>> /\ Empties /\ \A t2 \in Threads : t2 # t => clr'[t2] = clr[t2]
  BY ClearMoves, ClearEmpties
<1>3. \A s \in Stages, g \in Frames, z \in Planes \cup {0} :
        (s \in PlaneStages => z \in Planes) /\ Cleared(s, g, z) => Cleared(s, g, z)'
  BY <1>2 DEF Cleared, Empties, PlaneStages
\* It is enough to look at thread t.
<1>4. ASSUME NEW s \in Stages, NEW z, clr'[t].stage = s, clr'[t].y = z, clr'[t].frame = f \/ s = "idle",
             Cleared(s, f, z)'
      PROVE  ClearedInv'
  <2>1. ASSUME NEW t2 \in Threads PROVE Cleared(clr[t2].stage, clr[t2].frame, clr[t2].y)'
    <3>1. CASE t2 = t
      <4>1. PICK g : clr'[t].frame = g
        OBVIOUS
      <4>2. Cleared(s, g, z)'
        BY <1>4, <4>1 DEF Cleared, PlaneStages
      <4> QED
        BY <1>4, <3>1, <4>1, <4>2 DEF Cleared, PlaneStages
    <3>2. CASE t2 # t
      <4>1. PICK s2 \in Stages, g \in Frames, z2 \in Planes \cup {0} :
              clr[t2].stage = s2 /\ clr[t2].frame = g /\ clr[t2].y = z2
        BY <1>1
      <4>2. s2 \in PlaneStages => z2 \in Planes
        BY <4>1 DEF ClearOK, ClearIndex
      <4>3. Cleared(s2, g, z2)
        BY <4>1 DEF ClearedInv
      <4>4. Cleared(s2, g, z2)'
        BY <1>3, <4>2, <4>3
      <4>5. clr'[t2] = clr[t2]
        BY <1>2, <3>2
      <4> QED
        BY <4>1, <4>4, <4>5 DEF Cleared, PlaneStages
    <3> QED
      BY <3>1, <3>2
  <2> QED
    BY <2>1 DEF ClearedInv
\* Where a thread is after its step.
<1>5. ASSUME NEW s \in Stages, NEW z, Stage(t, s, z)
      PROVE  clr'[t].stage = s /\ clr'[t].y = z /\ clr'[t].frame = f
  BY <1>0, <1>1, <1>5 DEF Stage
<1>6. ASSUME ClearReturns(t) PROVE ClearedInv'
  <2>1. clr'[t].stage = "idle" /\ clr'[t].y = 0 /\ "idle" \in Stages
    BY <1>1, <1>6 DEF ClearReturns, Idle, Stages
  <2>2. Cleared("idle", f, 0)'
    BY DEF Cleared, PlaneStages
  <2> QED
    BY <1>4, <2>1, <2>2
<1>7. PICK s \in Stages : s = clr[t].stage
  BY <1>1
<1>8. Cleared(s, f, y) /\ (s \in PlaneStages => y \in Planes) /\ (s = "pipe" => y \in Pipes)
  BY <1>0, <1>7 DEF ClearedInv, ClearOK, ClearIndex
<1>9. CASE ClearCursor(t)
  <2>1. Stage(t, "fb_id", 0) /\ cursor'[f] = 0
    BY <1>0, <1>1, <1>9 DEF ClearCursor
  <2>2. Cleared("fb_id", f, 0)'
    BY <2>1 DEF Cleared, Planes, PlaneStages
  <2> QED
    BY <1>4, <1>5, <2>1, <2>2 DEF Stages, PlaneStages
<1>10. CASE ClearPlane(t)
  <2>1. PICK g \in Frames, p \in Planes, r \in PlaneRec(made) : PlaneClearedAs(t, g, p, r)
    BY <1>10, PlaneClearedBy
  <2>2. g = f /\ p = y /\ y \in Planes /\ y \in Nat /\ s \in PlaneStages
    BY <1>0, <1>7, <2>1 DEF PlaneClearedAs, Planes
  <2>3. plane'[f][y] = r
    BY <1>1, <2>1, <2>2 DEF PlaneClearedAs
  <2>4. /\ r.fb_id = IF s = "fb_id" THEN 0 ELSE plane[f][y].fb_id
        /\ r.old_fb_id = IF s = "old_fb_id" THEN 0 ELSE plane[f][y].old_fb_id
        /\ r.bo = IF s = "bo" THEN 0 ELSE plane[f][y].bo
        /\ r.old_bo = IF s = "old_bo" THEN 0 ELSE plane[f][y].old_bo
    BY <1>7, <2>1, <2>2 DEF PlaneClearedAs, Or0
  <2>5. cursor'[f] = 0 /\ \A q \in Planes : q < y => plane'[f][q] = NoPlane
    BY <1>2, <1>8, <2>2 DEF Cleared, Empties, PlaneStages
  <2>6. CASE ClearFbId(t)
    <3>1. s = "fb_id" /\ Stage(t, "old_fb_id", y)
      BY <1>0, <1>7, <2>6 DEF ClearFbId
    <3>2. Cleared("old_fb_id", f, y)'
      BY <2>3, <2>4, <2>5, <3>1 DEF Cleared, PlaneStages
    <3> QED
      BY <1>4, <1>5, <3>1, <3>2 DEF Stages, PlaneStages
  <2>7. CASE ClearOldFbId(t)
    <3>1. s = "old_fb_id" /\ Stage(t, "bo", y)
      BY <1>0, <1>7, <2>7 DEF ClearOldFbId
    <3>2. Cleared("bo", f, y)'
      BY <1>8, <2>3, <2>4, <2>5, <3>1 DEF Cleared, PlaneStages
    <3> QED
      BY <1>4, <1>5, <3>1, <3>2 DEF Stages, PlaneStages
  <2>8. CASE ClearBo(t)
    <3>1. s = "bo" /\ Stage(t, "old_bo", y)
      BY <1>0, <1>7, <2>8 DEF ClearBo
    <3>2. Cleared("old_bo", f, y)'
      BY <1>8, <2>3, <2>4, <2>5, <3>1 DEF Cleared, PlaneStages
    <3> QED
      BY <1>4, <1>5, <3>1, <3>2 DEF Stages, PlaneStages
  <2>9. CASE ClearOldBo(t)
    <3>1. s = "old_bo" /\ IF y + 1 < NumPlanes THEN Stage(t, "fb_id", y + 1) ELSE Stage(t, "pipe", 0)
      BY <1>0, <1>7, <2>9 DEF ClearOldBo
    <3>2. plane'[f][y] = NoPlane
      <4>1. r.fb_id = 0 /\ r.old_fb_id = 0 /\ r.bo = 0 /\ r.old_bo = 0
        BY <1>8, <2>4, <3>1 DEF Cleared, PlaneStages
      <4> QED
        BY <2>3, <4>1 DEF NoPlane, PlaneRec
    <3>3. \A q \in Planes : q < y + 1 => plane'[f][q] = NoPlane
      BY <2>2, <2>5, <3>2 DEF Planes
    <3>4. CASE y + 1 < NumPlanes /\ Stage(t, "fb_id", y + 1)
      <4>1. Cleared("fb_id", f, y + 1)'
        BY <2>5, <3>3 DEF Cleared, PlaneStages
      <4> QED
        BY <1>4, <1>5, <3>4, <4>1 DEF Stages, PlaneStages
    <3>5. CASE ~(y + 1 < NumPlanes) /\ Stage(t, "pipe", 0)
      <4>1. \A q \in Planes : plane'[f][q] = NoPlane
        BY <2>2, <3>3, <3>5, Sizes DEF Planes
      <4>2. Cleared("pipe", f, 0)'
        BY <2>5, <4>1 DEF Cleared, Pipes, PlaneStages
      <4> QED
        BY <1>4, <1>5, <3>5, <4>2 DEF Stages
    <3> QED
      BY <3>1, <3>4, <3>5
  <2> QED
    BY <1>10, <2>6, <2>7, <2>8, <2>9 DEF ClearPlane
<1>12. CASE ClearPipe(t)
  <2>1. /\ s = "pipe" /\ y \in Pipes /\ y \in Nat
        /\ IF y + 1 < NumPipes THEN Stage(t, "pipe", y + 1) ELSE Stage(t, "ramless", 0)
    BY <1>0, <1>7, <1>8, <1>12 DEF ClearPipe, Pipes
  <2>2. PipeEmpty(f, y)'
    <3>1. CASE setup.wb[f] = "stripe"
      <4>1. PipeEmpty(f, y)
        BY <2>1, <3>1 DEF StripeEmptyInv
      <4> QED
        BY <1>2, <2>1, <4>1 DEF Empties
    <3>2. CASE setup.wb[f] # "stripe"
      <4>1. PICK r : r.out_bo = 0 /\ pipe' = [pipe EXCEPT ![f][y] = r]
        <5> DEFINE r == [NoPipe EXCEPT !.out_fb_id = IF pipe[f][y].out_fb_id = ramless_fb_id
                                                     THEN ramless_fb_id ELSE 0]
        <5>1. pipe' = [pipe EXCEPT ![f][y] = r]
          BY <1>0, <1>12, <3>2 DEF ClearPipe
        <5>2. r.out_bo = 0
          BY DEF NoPipe
        <5> QED
          BY <5>1, <5>2
      <4>2. pipe'[f][y] = r
        BY <1>1, <2>1, <4>1
      <4> QED
        BY <1>2, <3>2, <4>1, <4>2 DEF PipeEmpty
    <3> QED
      BY <3>1, <3>2
  <2>3. /\ cursor'[f] = 0 /\ \A p \in Planes : plane'[f][p] = NoPlane
        /\ \A q \in Pipes : q < y + 1 => PipeEmpty(f, q)'
    BY <1>2, <1>8, <2>1, <2>2 DEF Cleared, Empties, Pipes, PlaneStages
  <2>4. CASE y + 1 < NumPipes /\ Stage(t, "pipe", y + 1)
    <3>1. Cleared("pipe", f, y + 1)'
      BY <2>3 DEF Cleared, PlaneStages
    <3> QED
      BY <1>4, <1>5, <2>4, <3>1 DEF Stages
  <2>5. CASE ~(y + 1 < NumPipes) /\ Stage(t, "ramless", 0)
    <3>1. \A q \in Pipes : PipeEmpty(f, q)'
      BY <2>1, <2>3, <2>5, Sizes DEF Pipes
    <3>2. Cleared("ramless", f, 0)'
      BY <2>3, <3>1 DEF Cleared, PlaneStages
    <3> QED
      BY <1>4, <1>5, <2>5, <3>2 DEF Stages
  <2> QED
    BY <2>1, <2>4, <2>5
<1>13. CASE ClearRamless(t)
  <2>1. s = "ramless" /\ (Stage(t, "rm_ramless", 0) \/ ClearReturns(t))
    BY <1>7, <1>13 DEF ClearRamless
  <2>2. Cleared("rm_ramless", f, 0)'
    BY <1>2, <1>8, <2>1 DEF Cleared, Empties, PlaneStages
  <2> QED
    BY <1>4, <1>5, <1>6, <2>1, <2>2 DEF Stages
<1>14. CASE ClearRmRamless(t)
  BY <1>6, <1>14 DEF ClearRmRamless
<1> QED
  BY <1>9, <1>10, <1>12, <1>13, <1>14 DEF Clear, ClearPlane

\* What a thread that clears a frame takes out of the fields it destroys: buffers,
LEMMA ClearBos ==
  ASSUME DataOK, ClearOK, BosHeldInv, NEW t \in Threads, Clear(t) PROVE BosHeldInv'
<1>0. PICK f \in Frames, y \in Planes \cup {0} : f = clr[t].frame /\ y = clr[t].y
  BY DEF ClearOK
<1>1. UNCHANGED <<setup, wb_stripe>>
  BY ClearMoves
<1>2. ASSUME bos' \subseteq bos, \A d \in Fields : Held(d)' = Held(d) \/ Held(d) \notin bos'
      PROVE  BosHeldInv'
  BY <1>1, <1>2 DEF BosHeldInv
<1>3. CASE ClearCursor(t)
  <2>1. cursor' = [cursor EXCEPT ![f] = 0] /\ UNCHANGED <<plane, pipe>> /\ bos' = bos \ {cursor[f]}
    BY <1>0, <1>3 DEF ClearCursor
  <2>2. \A d \in Fields \ {<<"cursor", f, 0>>} : Held(d)' = Held(d)
    BY <1>0, <2>1, CursorHeld
  <2>3. \A d \in {<<"cursor", f, 0>>} : Held(d) \notin bos'
    BY <2>1, HeldIs
  <2>4. bos' \subseteq bos
    BY <2>1
  <2> QED
    BY <1>2, <2>2, <2>3, <2>4
<1>4. CASE ClearPlane(t)
  <2>1. PICK g \in Frames, p \in Planes, r \in PlaneRec(made) : PlaneClearedAs(t, g, p, r)
    BY <1>4, PlaneClearedBy
  <2> DEFINE d1 == <<"bo", g, p>>
             d2 == <<"old_bo", g, p>>
  <2>2. plane' = [plane EXCEPT ![g][p] = r] /\ UNCHANGED <<cursor, pipe>>
        /\ g = clr[t].frame /\ p = clr[t].y
    BY <2>1 DEF PlaneClearedAs
  <2>3. Held(d1)' = r.bo /\ Held(d2)' = r.old_bo /\ \A d \in Fields \ {d1, d2} : Held(d)' = Held(d)
    BY <2>2, PlaneHeld
  <2>4. Held(d1) = plane[g][p].bo /\ Held(d2) = plane[g][p].old_bo
    BY HeldIs
  <2>5. clr[t].stage # "bo" => r.bo = plane[g][p].bo
    BY <2>1 DEF PlaneClearedAs, Or0
  <2>6. clr[t].stage # "old_bo" => r.old_bo = plane[g][p].old_bo
    BY <2>1 DEF PlaneClearedAs, Or0
  <2>7. \/ clr[t].stage \notin {"bo", "old_bo"} /\ bos' = bos
        \/ clr[t].stage = "bo" /\ bos' = bos \ {plane[g][p].bo}
        \/ clr[t].stage = "old_bo" /\ bos' = bos \ {plane[g][p].old_bo}
    <3>1. ClearFbId(t) => clr[t].stage \notin {"bo", "old_bo"} /\ bos' = bos
      BY DEF ClearFbId
    <3>2. ClearOldFbId(t) => clr[t].stage \notin {"bo", "old_bo"} /\ bos' = bos
      BY DEF ClearOldFbId
    <3>3. ClearBo(t) => clr[t].stage = "bo" /\ bos' = bos \ {plane[g][p].bo}
      BY <2>2 DEF ClearBo
    <3>4. ClearOldBo(t) => clr[t].stage = "old_bo" /\ bos' = bos \ {plane[g][p].old_bo}
      BY <2>2 DEF ClearOldBo
    <3> QED
      BY <1>4, <3>1, <3>2, <3>3, <3>4 DEF ClearPlane
  <2>8. bos' \subseteq bos
    BY <2>7
  <2> HIDE DEF d1, d2
  <2>9. \A d \in Fields : Held(d)' = Held(d) \/ Held(d) \notin bos'
    BY <2>3, <2>4, <2>5, <2>6, <2>7
  <2> QED
    BY <1>2, <2>8, <2>9
<1>6. CASE ClearPipe(t)
  <2>1. y \in Pipes /\ UNCHANGED <<plane, cursor>>
    BY <1>0, <1>6 DEF ClearPipe, ClearOK, ClearIndex
  <2>2. CASE UNCHANGED <<pipe, bos>>
    BY <1>1, <2>1, <2>2, FieldsHeld DEF fieldVars, BosHeldInv
  <2>3. CASE setup.wb[f] # "stripe"
    <3>1. PICK r : pipe' = [pipe EXCEPT ![f][y] = r] /\ bos' = bos \ {pipe[f][y].out_bo}
      BY <1>0, <1>6, <2>3 DEF ClearPipe
    <3>2. \A d \in Fields \ {<<"out_bo", f, y>>} : Held(d)' = Held(d)
      BY <2>1, <3>1, PipeHeld
    <3>3. \A d \in {<<"out_bo", f, y>>} : Held(d) \notin bos'
      BY <3>1, HeldIs
    <3>4. bos' \subseteq bos
      BY <3>1
    <3> QED
      BY <1>2, <3>2, <3>3, <3>4
  <2> QED
    BY <1>0, <1>6, <2>2, <2>3 DEF ClearPipe
<1>7. CASE ClearRamless(t) \/ ClearRmRamless(t)
  BY <1>1, <1>7, FieldsHeld DEF ClearRamless, ClearRmRamless, poolVars, BosHeldInv
<1> QED
  BY <1>3, <1>4, <1>6, <1>7 DEF Clear, ClearPlane

\* and framebuffers, but for the ramless one, which goes last.
LEMMA ClearFbs ==
  ASSUME DataOK, ClearOK, FbsHeldInv, NEW t \in Threads, Clear(t) PROVE FbsHeldInv'
<1>0. PICK f \in Frames, y \in Planes \cup {0} : f = clr[t].frame /\ y = clr[t].y
  BY DEF ClearOK
<1>1. UNCHANGED <<setup, wb_stripe>>
  BY ClearMoves
<1> SUFFICES ASSUME LeakFree(setup) PROVE FbsHeldInv'
  BY <1>1 DEF FbsHeldInv
<1>2. /\ plane \in [Frames -> [Planes -> PlaneRec(made)]] /\ pipe \in [Frames -> [Pipes -> PipeRec(made)]]
      /\ fbs \in [FbIds -> 0 .. made] /\ 0 \notin FbIds
  BY SizeAssumption DEF DataOK, FieldsOK, PoolOK, FbIds
\* Plane y of frame f lets go of id0 only.
<1>3. ASSUME y \in Planes, NEW id0, RmFB(id0) \/ UNCHANGED fbs, UNCHANGED <<pipe, ramless_fb_id>>,
             NEW r, plane' = [plane EXCEPT ![f][y] = r],
             RmFB(id0) => {plane[f][y].fb_id, plane[f][y].old_fb_id} \subseteq {id0, 0, r.fb_id, r.old_fb_id},
             ~RmFB(id0) => plane[f][y].fb_id = r.fb_id /\ plane[f][y].old_fb_id = r.old_fb_id
      PROVE  FbsHeldInv'
  <2>1. plane'[f][y] = r /\ \A g \in Frames, p \in Planes : ~(g = f /\ p = y) => plane'[g][p] = plane[g][p]
    BY <1>2, <1>3
  <2>2. ASSUME NEW id \in FbIds, fbs'[id] # 0 PROVE FbHeld(id)'
    <3>1. id # 0 /\ fbs[id] # 0 /\ (RmFB(id0) => id # id0)
      BY <1>2, <1>3, <2>2 DEF RmFB
    <3>2. FbHeld(id)
      BY <3>1 DEF FbsHeldInv
    <3>3. ASSUME NEW g \in Frames, NEW p \in Planes, PlaneHolds(id, g, p) PROVE PlaneHolds(id, g, p)'
      BY <1>3, <2>1, <3>1, <3>3 DEF PlaneHolds
    <3>4. \A g, q : PipeHolds(id, g, q)' = PipeHolds(id, g, q)
      BY <1>3 DEF PipeHolds
    <3> QED
      BY <1>1, <1>3, <3>2, <3>3, <3>4 DEF FbHeld
  <2> QED
    BY <2>2 DEF FbsHeldInv
<1>4. CASE ClearPlane(t)
  <2>1. PICK g \in Frames, p \in Planes, r \in PlaneRec(made) : PlaneClearedAs(t, g, p, r)
    BY <1>4, PlaneClearedBy
  <2>2. /\ g = f /\ p = y /\ y \in Planes /\ plane' = [plane EXCEPT ![f][y] = r]
        /\ UNCHANGED <<pipe, ramless_fb_id>>
    BY <1>0, <2>1 DEF PlaneClearedAs
  <2>3. /\ clr[t].stage # "fb_id" => r.fb_id = plane[f][y].fb_id
        /\ clr[t].stage # "old_fb_id" => r.old_fb_id = plane[f][y].old_fb_id
    BY <2>1, <2>2 DEF PlaneClearedAs, Or0
  <2>4. CASE ClearFbId(t)
    <3>1. clr[t].stage = "fb_id" /\ RmFB(plane[f][y].fb_id)
      BY <1>0, <2>4 DEF ClearFbId
    <3> QED
      BY <1>3, <2>2, <2>3, <3>1
  <2>5. CASE ClearOldFbId(t)
    <3>1. clr[t].stage = "old_fb_id" /\ RmFB(plane[f][y].old_fb_id)
      BY <1>0, <2>5 DEF ClearOldFbId
    <3> QED
      BY <1>3, <2>2, <2>3, <3>1
  <2>6. CASE ClearBo(t) \/ ClearOldBo(t)
    <3>1. ClearBo(t) => clr[t].stage = "bo" /\ fbs' = fbs
      BY DEF ClearBo
    <3>2. ClearOldBo(t) => clr[t].stage = "old_bo" /\ fbs' = fbs
      BY DEF ClearOldBo
    <3>3. r.fb_id = plane[f][y].fb_id /\ r.old_fb_id = plane[f][y].old_fb_id /\ fbs' = fbs
      BY <2>3, <2>6, <3>1, <3>2
    <3> QED
      BY <1>3, <2>2, <3>3
  <2> QED
    BY <1>4, <2>4, <2>5, <2>6 DEF ClearPlane
<1>6. CASE ClearPipe(t) /\ setup.wb[f] # "stripe"
  <2>1. y \in Pipes /\ UNCHANGED <<plane, ramless_fb_id>>
    BY <1>0, <1>6 DEF ClearPipe, ClearOK, ClearIndex, devVars
  <2>2. PICK r : pipe' = [pipe EXCEPT ![f][y] = r]
    BY <1>0, <1>6 DEF ClearPipe
  <2>3. \A g \in Frames, q \in Pipes : ~(g = f /\ q = y) => pipe'[g][q] = pipe[g][q]
    BY <1>2, <2>1, <2>2
  <2>4. \A id \in FbIds : fbs'[id] # 0 =>
          fbs[id] # 0 /\ (id = pipe[f][y].out_fb_id => id = ramless_fb_id)
    BY <1>0, <1>2, <1>6 DEF ClearPipe, RmFB
  <2>5. ASSUME NEW id \in FbIds, fbs'[id] # 0 PROVE FbHeld(id)'
    <3>1. FbHeld(id)
      BY <2>4, <2>5 DEF FbsHeldInv
    <3>2. \A g, p : PlaneHolds(id, g, p)' = PlaneHolds(id, g, p)
      BY <2>1 DEF PlaneHolds
    <3>3. ASSUME NEW g \in Frames, NEW q \in Pipes, PipeHolds(id, g, q), id # ramless_fb_id
          PROVE  PipeHolds(id, g, q)'
      BY <2>3, <2>4, <2>5, <3>3 DEF PipeHolds
    <3> QED
      BY <1>1, <2>1, <3>1, <3>2, <3>3 DEF FbHeld
  <2> QED
    BY <2>5 DEF FbsHeldInv
<1>7. CASE ClearCursor(t) \/ (ClearPipe(t) /\ setup.wb[f] = "stripe") \/ ClearRamless(t)
  <2>1. UNCHANGED <<plane, pipe, fbs, ramless_fb_id>>
    BY <1>0, <1>7 DEF ClearCursor, ClearPipe, ClearRamless, fieldVars, poolVars, devVars
  <2> QED
    BY <1>1, <2>1 DEF FbsHeldInv, FbHeld, PlaneHolds, PipeHolds
<1>8. CASE ClearRmRamless(t)
  <2>1. RmFB(ramless_fb_id) /\ UNCHANGED <<plane, pipe>>
    BY <1>8 DEF ClearRmRamless, fieldVars
  <2>2. ASSUME NEW id \in FbIds, fbs'[id] # 0 PROVE FbHeld(id)'
    <3>1. id # ramless_fb_id /\ fbs[id] # 0
      BY <1>2, <2>1, <2>2 DEF RmFB
    <3>2. FbHeld(id)
      BY <3>1 DEF FbsHeldInv
    <3>3. (\A g, p : PlaneHolds(id, g, p)' = PlaneHolds(id, g, p))
          /\ \A g, q : PipeHolds(id, g, q)' = PipeHolds(id, g, q)
      BY <2>1 DEF PlaneHolds, PipeHolds
    <3> QED
      BY <1>1, <3>1, <3>2, <3>3 DEF FbHeld
  <2> QED
    BY <2>2 DEF FbsHeldInv
<1> QED
  BY <1>4, <1>6, <1>7, <1>8 DEF Clear, ClearPlane

LEMMA LostClear ==
  ASSUME MainOK, ClearOK, DataOK, Good, GoodInv, LostInv, NEW t \in Threads, Clear(t) PROVE LostInv'
<1>0. ClearedInv /\ EmptyInv /\ UnsetInv /\ StripeEmptyInv /\ BosHeldInv /\ FbsHeldInv /\ RamHeldInv
  BY DEF LostInv
<1>1. /\ UNCHANGED <<setup, pc, round, i, x, dpc, k, wb_stripe, fb_inuse, plane_bo>> /\ Busy(t)
      /\ \A t2 \in Threads : t2 # t => clr'[t2] = clr[t2]
      /\ Busy(t)' => clr'[t].frame = clr[t].frame
  BY ClearMoves DEF mainVars, dumpVars, swapVars
<1>2. Empties /\ \A f \in Frames : Empty(f) => Empty(f)'
  BY ClearEmpties DEF Empties, Empty
<1>3. StripeEmptyInv' /\ UnsetInv'
  <2>1. StripeEmptyInv'
    BY <1>0, <1>1, <1>2 DEF StripeEmptyInv, Empties
  <2>2. pc \in Working => i \in Frames
    BY Where
  <2>3. (\A p \in Planes : plane[i][p] = NoPlane) /\ pc \in Working =>
          \A p \in Planes : plane'[i][p] = NoPlane
    BY <1>2, <2>2 DEF Empties
  <2> QED
    BY <1>0, <1>1, <1>2, <2>1, <2>2 DEF UnsetInv, Empties, Working, Creating
\* The frame a thread returns from is empty.
<1>4. ASSUME NEW f \in Frames, Released(f)', ~Released(f) PROVE Empty(f)'
  <2>1. f \in Nat /\ k \in Nat /\ i \in Nat /\ clr[t].frame \in Nat
    BY Where DEF Frames, ClearOK
  <2>2. Busy(t) /\ ~Busy(t)' /\ f = clr[t].frame
    BY <1>1, <1>4, <2>1 DEF Released, GoodInv, Busy, Threads
  <2>3. clr[t].stage \in {"ramless", "rm_ramless"}
    <3>1. \A s, z : Stage(t, s, z) => clr'[t].stage = s
      BY DEF Stage, ClearOK
    <3>2. ~ClearCursor(t) /\ ~ClearFbId(t) /\ ~ClearOldFbId(t) /\ ~ClearBo(t) /\ ~ClearOldBo(t)
          /\ ~ClearPipe(t)
      BY <2>2, <3>1 DEF Busy, ClearCursor, ClearFbId, ClearOldFbId, ClearBo, ClearOldBo, ClearPipe
    <3> QED
      BY <3>2 DEF Clear, ClearRamless, ClearRmRamless
  <2>4. Empty(f)
    BY <1>0, <2>2, <2>3 DEF ClearedInv, Cleared, Empty, PlaneStages
  <2> QED
    BY <1>2, <2>4
<1>5. EmptyInv'
  BY <1>0, <1>1, <1>2, <1>4 DEF EmptyInv, Later, Creating
<1>6. RamHeldInv'
  <2>1. ~(pc \in {"props", "wb"} /\ i = 0)
    <3> SUFFICES ASSUME pc \in {"props", "wb"}, i = 0 PROVE FALSE
      OBVIOUS
    <3>1. clr[t].frame \in Frames /\ clr[t].frame < i
      BY <1>1, NotTouched DEF Working
    <3> QED
      BY <3>1 DEF Frames
  <2>2. ASSUME LeakFree(setup), pc = "end", ~Busy("main")' PROVE fb_inuse \/ ramless_fb_id' = 0
    <3>1. CASE t # "main"
      <4>1. ~Busy("main")
        BY <1>1, <2>2, <3>1 DEF Busy, Threads
      <4>2. ramless_fb_id' \in {ramless_fb_id, 0}
        BY ClearTouches DEF Touches
      <4> QED
        BY <1>0, <2>2, <4>1, <4>2 DEF RamHeldInv
    <3>2. CASE t = "main"
      <4>1. \A s, z : Stage(t, s, z) => clr'[t].stage = s
        BY DEF Stage, ClearOK
      <4>2. ~ClearCursor(t) /\ ~ClearFbId(t) /\ ~ClearOldFbId(t) /\ ~ClearBo(t) /\ ~ClearOldBo(t)
            /\ ~ClearPipe(t)
        BY <2>2, <3>2, <4>1
           DEF Busy, ClearCursor, ClearFbId, ClearOldFbId, ClearBo, ClearOldBo, ClearPipe
      <4>3. CASE ClearRamless(t)
        BY <2>2, <3>2, <4>1, <4>3 DEF Busy, ClearRamless, devVars
      <4> QED
        BY <4>2, <4>3 DEF Clear, ClearRmRamless
    <3> QED
      BY <3>1, <3>2
  <2> QED
    BY <1>1, <2>1, <2>2 DEF RamHeldInv
<1> QED
  BY <1>0, <1>3, <1>5, <1>6, ClearBos, ClearFbs, ClearCleared DEF LostInv

LEMMA LostInvStep ==
  ASSUME MainOK, ClearOK, DataOK, GoodInv, LostInv, [Next]_vars PROVE LostInv'
<1> SUFFICES ASSUME Good' PROVE LostInv'
  BY DEF LostInv
<1>1. /\ ~CreateFails /\ ~SetPropsFails /\ ~SetBuffersFails /\ ~SetCursorFails
      /\ ~CommitFails /\ ~DumpFails
  BY DEF Good, CreateFails, SetPropsFails, SetBuffersFails, SetCursorFails, CommitFails, DumpFails,
         SetFrameFails, Fails
<1>2. CASE UNCHANGED vars
  <2>1. UNCHANGED <<setup, pc, round, i, x, status, gave_up, dpc, k, clr, plane, pipe, cursor,
                    wb_stripe, ramless_fb_id, fb_inuse, bos, fbs, plane_bo, fieldVars>>
    BY <1>2 DEF vars, mainVars, swapVars, dumpVars, histVars, fieldVars, devVars, poolVars
  <2>2. /\ Good /\ ClearedInv /\ EmptyInv /\ UnsetInv /\ StripeEmptyInv
        /\ BosHeldInv /\ FbsHeldInv /\ RamHeldInv
    BY <2>1 DEF LostInv, Good
  <2>3. ClearedInv' /\ EmptyInv'
    <3>1. \A stage, f, y : Cleared(stage, f, y)' = Cleared(stage, f, y)
      BY <2>1 DEF Cleared, PipeEmpty
    <3>2. \A f : Empty(f)' = Empty(f) /\ Released(f)' = Released(f) /\ Later(f)' = Later(f)
      BY <2>1 DEF Empty, PipeEmpty, Released, Later, Busy, Creating
    <3> QED
      BY <2>1, <2>2, <3>1, <3>2 DEF ClearedInv, EmptyInv
  <2>4. UnsetInv' /\ StripeEmptyInv'
    BY <2>1, <2>2 DEF UnsetInv, StripeEmptyInv, PipeEmpty, Creating
  <2>5. BosHeldInv'
    BY <2>1, <2>2, FieldsHeld DEF BosHeldInv
  <2>6. FbsHeldInv' /\ RamHeldInv'
    BY <2>1, <2>2 DEF FbsHeldInv, FbHeld, PlaneHolds, PipeHolds, RamHeldInv, Busy
  <2> QED
    BY <2>3, <2>4, <2>5, <2>6 DEF LostInv
<1>3. ASSUME NEW t \in Threads, Clear(t) PROVE Good
  BY <1>3, ClearMoves DEF Good, mainVars, dumpVars, histVars
<1>4. ~(~UNCHANGED vars /\ ~\E t \in Threads : Clear(t)) \/ Good
  BY <1>1 DEF Next, Main, DumpThread, Good, mainVars, dumpVars, histVars, CreateWb, SwapBos,
              CreatePlane, SetProps, SetWb, SetPlanes, SetCursor, Commit, Cancel, Join, Final, DumpTakes, Dump, DumpNext, DumpEnds,
              DumpDies
<1>5. ~Cancel /\ ~DumpDies
  BY <1>3, <1>4 DEF Cancel, DumpDies, GoodInv, Good, mainVars, dumpVars, histVars, Working
<1>6. ASSUME NEW t \in Threads, Clear(t) PROVE LostInv'
  BY <1>3, <1>6, LostClear
<1>7. ASSUME ~UNCHANGED vars, ~\E t \in Threads : Clear(t) PROVE LostInv'
  <2>1. Good
    BY <1>4, <1>7
  <2>2. CASE CreateWb \/ SwapBos \/ CreatePlane \/ SetPlanes
    BY <2>1, <2>2, LostCreateWb, LostSwapBos, LostSetPlane
  <2>3. CASE SetProps \/ SetWb \/ SetCursor \/ Commit
    BY <2>1, <2>3, LostSetProps, LostSetWb, LostSetCursor, LostCommit
  <2>4. CASE Join \/ Final
    BY <2>1, <2>4, LostJoin, LostFinal
  <2>5. CASE DumpTakes \/ Dump \/ DumpNext \/ DumpEnds
    BY <2>1, <2>5, LostDump
  <2> QED
    BY <1>1, <1>5, <1>7, <2>2, <2>3, <2>4, <2>5 DEF Next, Main, DumpThread
<1> QED
  BY <1>2, <1>6, <1>7

LEMMA GoodInit == Init => GoodInv /\ LostInv
<1> SUFFICES ASSUME Init PROVE GoodInv /\ LostInv
  OBVIOUS
<1>1. /\ pc \in {"create_wb", "props"} /\ dpc \in {"none", "wait"} /\ (Creating <=> dpc = "none")
      /\ i = 0 /\ k = 0 /\ cancelled = FALSE /\ \A t \in Threads : clr[t].stage = "idle"
      /\ \A f \in Frames : ~commit_done[f]
  BY DEF Init, Idle, Creating
<1>2. GoodInv
  BY <1>1, Sizes DEF GoodInv, Busy, Threads, Working
<1>3. /\ \A f \in Frames, p \in Planes : plane[f][p] = NoPlane
      /\ \A f \in Frames, q \in Pipes : PipeEmpty(f, q)
      /\ \A f \in Frames : cursor[f] = 0
  BY DEF Init, PipeEmpty, NoPipe
<1>4. ClearedInv
  BY <1>1 DEF ClearedInv, Cleared, PlaneStages
<1>5. EmptyInv
  BY <1>3 DEF EmptyInv, Empty
<1>6. UnsetInv /\ RamHeldInv
  BY <1>1, <1>3, Sizes DEF UnsetInv, RamHeldInv, Init
<1>7. StripeEmptyInv /\ BosHeldInv /\ FbsHeldInv
  BY <1>3 DEF StripeEmptyInv, BosHeldInv, FbsHeldInv, Init
<1> QED
  BY <1>2, <1>4, <1>5, <1>6, <1>7 DEF LostInv

LEMMA LostInvHolds == Spec => [](GoodInv /\ LostInv)
<1>1. TypeInv /\ GoodInv /\ LostInv /\ [Next]_vars => (GoodInv /\ LostInv)'
  <2> SUFFICES ASSUME TypeInv, GoodInv, LostInv, [Next]_vars PROVE (GoodInv /\ LostInv)'
    OBVIOUS
  <2>1. MainOK /\ ClearOK /\ DataOK
    BY Types
  <2> QED
    BY <2>1, GoodInvStep, LostInvStep
<1>2. Spec => []TypeInv
  BY TypeInvInit, TypeInvStep, PTL DEF Spec
<1> QED
  BY <1>1, <1>2, GoodInit, PTL DEF Spec

\* A run in which nothing failed leaves no buffer and no framebuffer behind, whatever the
\* interleaving of main and the dump thread was: the shared buffer of striped pipes is the only
\* one left, and a ramless framebuffer only while it is in use.
THEOREM LosesNothing ==
  ASSUME \A s \in Setups : LeakFree(s) PROVE Spec => []NothingLost
<1>1. TypeInv /\ GoodInv /\ LostInv => NothingLost
  <2> SUFFICES ASSUME TypeInv, GoodInv, LostInv, Finished, status, ~gave_up PROVE NothingLost
    BY DEF NothingLost
  <2>1. MainOK /\ ClearOK /\ DataOK /\ Good
    BY Types DEF Good
  <2>2. /\ pc = "end" /\ ~Busy("main") /\ dpc = "exit" /\ i = setup.num /\ k + 1 = setup.num
        /\ k \in Nat /\ 0 \notin FbIds /\ 0 \notin bos
        /\ EmptyInv /\ BosHeldInv /\ FbsHeldInv /\ RamHeldInv /\ LeakFree(setup)
    BY <2>1, Where, SizeAssumption
       DEF Finished, Busy, Idle, GoodInv, LostInv, MainOK, DataOK, PoolOK, FbIds
  <2>3. ASSUME NEW f \in Frames PROVE Empty(f)
    <3>1. f \in Nat
      BY DEF Frames
    <3>2. Released(f) \/ f >= setup.num
      BY <2>2, <3>1 DEF Released
    <3> QED
      BY <2>2, <3>2 DEF EmptyInv
  <2>4. ASSUME NEW f \in Frames, NEW q \in Pipes, pipe[f][q].out_bo # 0 PROVE pipe[f][q] = wb_stripe
    BY <2>2, <2>3, <2>4 DEF Empty, PipeEmpty, NoPipe, LeakFree
  <2>5. ASSUME NEW b \in bos PROVE b = wb_stripe.out_bo
    <3> SUFFICES ASSUME NEW d \in Fields, Held(d) = b PROVE b = wb_stripe.out_bo
      BY <2>2 DEF BosHeldInv
    <3>1. b # 0
      BY <2>2
    <3>2. ASSUME NEW f \in Frames, NEW p \in Planes, d = <<"bo", f, p>> \/ d = <<"old_bo", f, p>>
          PROVE  FALSE
      BY <2>3, <3>1, <3>2, HeldIs DEF Empty, NoPlane
    <3>3. ASSUME NEW f \in Frames, NEW q \in Pipes, d = <<"out_bo", f, q>> PROVE b = wb_stripe.out_bo
      BY <2>4, <3>1, <3>3, HeldIs
    <3>4. ASSUME NEW f \in Frames, d = <<"cursor", f, 0>> PROVE FALSE
      BY <2>3, <3>1, <3>4, HeldIs DEF Empty
    <3> QED
      BY <3>2, <3>3, <3>4, FieldIs
  <2>6. ASSUME NEW id \in FbIds, fbs[id] # 0
        PROVE  id = wb_stripe.out_fb_id \/ (id = ramless_fb_id /\ fb_inuse)
    <3>1. FbHeld(id) /\ id # 0
      BY <2>2, <2>6 DEF FbsHeldInv
    <3>2. \A f \in Frames, p \in Planes : ~PlaneHolds(id, f, p)
      BY <2>3, <3>1 DEF Empty, PlaneHolds, NoPlane
    <3>3. \A f \in Frames, q \in Pipes : PipeHolds(id, f, q) => id = wb_stripe.out_fb_id
      BY <2>4 DEF PipeHolds
    <3>4. fb_inuse \/ ramless_fb_id = 0
      BY <2>2 DEF RamHeldInv
    <3> QED
      BY <3>1, <3>2, <3>3, <3>4 DEF FbHeld
  <2> QED
    BY <2>5, <2>6 DEF NothingLost
<1>2. Spec => []TypeInv
  BY TypeInvInit, TypeInvStep, PTL DEF Spec
<1> QED
  BY <1>1, <1>2, LostInvHolds, PTL
-----------------------------------------------------------------------------
(* Who owns a buffer.                                                      *)

\* Without a failed dump commit_done is that of frames behind main, and false in the end.
BehindInv == ~gave_up => /\ ~ahead
                         /\ \A f \in Frames : commit_done[f] => f < i /\ ~Creating

LEMMA AheadInvStep ==
  ASSUME MainOK, ClearOK, DataOK, AheadInv, [Next]_vars PROVE AheadInv'
<1> USE Where DEF AheadInv, Busy, Creating, mainVars, dumpVars, histVars
<1>0. /\ i <= setup.num /\ k \in Frames /\ \A f \in Frames : f \in Nat
      /\ clr \in [Threads -> [stage : Stages, frame : Frames, y : Planes \cup {0}]]
      /\ "main" \in Threads /\ "dump" \in Threads /\ setup' = setup
      /\ clr["dump"].frame \in Nat
  BY SetupStays DEF ClearOK, MainOK, MainIndex, Frames, Threads
<1>1. CASE CreateWb \/ SwapBos \/ SetProps \/ SetWb \/ SetPlanes \/ SetCursor
  <2>1. UNCHANGED <<i, dpc, k, clr, ahead>> /\ pc \in Working /\ (Creating' => Creating)
    BY <1>1 DEF CreateWb, SwapBos, SetProps, SetWb, SetPlanes, SetCursor, Working
  <2>2. ~Busy("main")
    BY <2>1 DEF Working
  <2> QED
    BY <1>0, <2>1, <2>2
<1>2. CASE CreatePlane
  <2>1. pc = "create_plane" /\ UNCHANGED <<k, clr, ahead>> /\ dpc = "none"
    BY <1>2 DEF CreatePlane
  <2>2. \/ UNCHANGED dpc
        \/ dpc' = "wait" /\ pc' = "props"
    BY <1>2 DEF CreatePlane
  <2> QED
    BY <1>0, <2>1, <2>2
<1>3. CASE CreateFails
  <2>1. UNCHANGED <<i, dpc, k, clr, ahead>> /\ Creating /\ pc' = "final"
    BY <1>3 DEF CreateFails, Fails
  <2> QED
    BY <1>0, <2>1
<1>4. CASE SetPropsFails \/ SetBuffersFails \/ SetCursorFails \/ CommitFails
  <2>1. SetFrameFails /\ UNCHANGED <<i, dpc, k, ahead>>
    BY <1>4 DEF SetPropsFails, SetBuffersFails, SetCursorFails, CommitFails
  <2>2. pc' = "cancel" /\ clr'["dump"] = clr["dump"]
    BY <1>0, <2>1 DEF SetFrameFails, Fails, ClearFrame
  <2> QED
    BY <1>0, <2>1, <2>2
<1>5. CASE Commit
  <2>1. /\ pc = "commit" /\ i' = i + 1 /\ pc' \in {"props", "join"} /\ i < setup.num
        /\ UNCHANGED <<dpc, k, clr, ahead>>
    BY <1>5 DEF Commit, MainOK, MainIndex, Working
  <2> QED
    BY <1>0, <2>1
<1>6. CASE Cancel
  <2>1. UNCHANGED <<i, dpc, k, clr, ahead>> /\ pc' \in {"final", "join"} /\ clr["main"] = Idle
    BY <1>6 DEF Cancel
  <2> QED
    BY <1>0, <2>1 DEF Idle
<1>7. CASE Join
  <2>1. pc = "join" /\ dpc = "exit" /\ UNCHANGED <<clr, ahead>> /\ pc' \in {"props", "final"}
        /\ dpc' \in {"wait", "exit"}
    BY <1>7 DEF Join
  <2>2. ~Busy("dump") \/ ahead
    BY <2>1
  <2> QED
    BY <1>0, <2>1, <2>2
<1>8. CASE Final
  <2>1. UNCHANGED <<i, dpc, k, ahead>> /\ pc' = "end" /\ clr'["dump"] = clr["dump"]
    BY <1>0, <1>8 DEF Final, ClearFrame
  <2> QED
    BY <1>0, <2>1
<1>9. CASE DumpTakes
  <2>1. /\ dpc = "wait" /\ dpc' = "dump" /\ UNCHANGED <<pc, i, k, clr>>
        /\ ahead' = (ahead \/ k >= i)
    BY <1>9 DEF DumpTakes
  <2>2. ~ahead' => ~ahead /\ ~(k >= i)
    BY <2>1, Zenon
  <2>3. ~(k >= i) => k < i
    BY <1>0, Where
  <2> QED
    BY <1>0, <2>1, <2>2, <2>3
<1>10. CASE Dump
  <2>1. dpc = "dump" /\ dpc' = "next" /\ UNCHANGED <<pc, i, k, ahead>>
    BY <1>10 DEF Dump
  <2>2. clr'["main"] = clr["main"] /\ (clr'["dump"] = clr["dump"] \/ clr'["dump"].frame = k - 1)
    BY <1>0, <1>10 DEF Dump, ClearFrame
  <2>3. ~ahead => k < i /\ ~Busy("dump")
    BY <2>1
  <2> QED
    BY <1>0, <2>1, <2>2, <2>3
<1>11. CASE DumpNext
  <2>1. dpc = "next" /\ clr["dump"] = Idle /\ UNCHANGED <<pc, i, ahead>> /\ dpc' \in {"wait", "last"}
    BY <1>11 DEF DumpNext
  <2>2. CASE k + 1 < setup.num
    <3>1. dpc' = "wait" /\ UNCHANGED clr
      BY <1>11, <2>2 DEF DumpNext
    <3> QED
      BY <1>0, <2>1, <3>1 DEF Idle
  <2>3. CASE ~(k + 1 < setup.num)
    <3>1. dpc' = "last" /\ k' = k /\ (~ahead => k < i /\ i = setup.num)
      BY <1>0, <1>11, <2>1, <2>3 DEF DumpNext
    <3>2. clr'["main"] = clr["main"] /\ (clr'["dump"] = clr["dump"] \/ clr'["dump"].frame = k)
      BY <1>0, <1>11, <2>1, <2>3 DEF DumpNext, ClearFrame
    <3> QED
      BY <1>0, <2>1, <3>1, <3>2 DEF Idle
  <2> QED
    BY <2>2, <2>3
<1>12. CASE DumpEnds \/ DumpFails \/ DumpDies
  <2>1. UNCHANGED <<pc, i, k, clr, ahead>> /\ dpc' = "exit" /\ dpc \in {"wait", "dump", "last"}
        /\ (dpc = "last" => clr["dump"] = Idle)
    BY <1>12 DEF DumpEnds, DumpFails, DumpDies
  <2> QED
    BY <1>0, <2>1 DEF Idle
<1>13. ASSUME NEW t \in Threads, Clear(t) PROVE AheadInv'
  <2>1. UNCHANGED <<pc, i, dpc, k, ahead>>
    BY <1>13, ClearMoves
  <2>2. \A t2 \in Threads : Busy(t2)' => Busy(t2) /\ clr'[t2].frame = clr[t2].frame
    BY <1>13, ClearMoves
  <2> QED
    BY <1>0, <2>1, <2>2
<1>14. CASE UNCHANGED vars
  <2>1. UNCHANGED <<pc, i, dpc, k, clr, ahead>>
    BY <1>14 DEF vars
  <2> QED
    BY <1>0, <2>1
<1> QED
  BY <1>1, <1>2, <1>3, <1>4, <1>5, <1>6, <1>7, <1>8, <1>9, <1>10, <1>11, <1>12, <1>13, <1>14
     DEF Next, Main, DumpThread

LEMMA BehindInvStep ==
  ASSUME MainOK, ClearOK, DataOK, GoodInv, BehindInv, [Next]_vars PROVE BehindInv'
<1> USE Where DEF BehindInv, Creating, mainVars, dumpVars, histVars
<1>0. commit_done \in [Frames -> BOOLEAN] /\ k \in Frames /\ \A f \in Frames : f \in Nat
  BY DEF DataOK, MainOK, Frames
<1>1. ASSUME UNCHANGED <<i, commit_done, ahead, gave_up>>, Creating' => Creating PROVE BehindInv'
  BY <1>1
<1>2. CASE CreateWb \/ SwapBos \/ CreateFails \/ SetProps \/ SetWb \/ SetPlanes \/ SetCursor
  <2>1. UNCHANGED <<i, commit_done, ahead, gave_up>> /\ (Creating' => Creating)
    BY <1>2 DEF CreateWb, SwapBos, CreateFails, Fails, SetProps, SetWb, SetPlanes, SetCursor
  <2> QED
    BY <1>1, <2>1
<1>3. CASE SetPropsFails \/ SetBuffersFails \/ SetCursorFails \/ CommitFails \/ Cancel \/ Final
  <2>1. UNCHANGED <<i, commit_done, ahead, gave_up>> /\ ~Creating'
    BY <1>3 DEF SetPropsFails, SetBuffersFails, SetCursorFails, CommitFails, Cancel, Final,
                SetFrameFails, Fails
  <2> QED
    BY <1>1, <2>1
<1>4. CASE CreatePlane
  <2>1. Creating /\ UNCHANGED <<commit_done, ahead, gave_up>>
    BY <1>4 DEF CreatePlane
  <2> QED
    BY <2>1
<1>5. CASE Commit
  <2>1. /\ commit_done' = [commit_done EXCEPT ![i] = TRUE] /\ i' = i + 1 /\ ~Creating'
        /\ UNCHANGED <<ahead, gave_up>>
    BY <1>5 DEF Commit
  <2>2. \A f \in Frames : commit_done'[f] => f = i \/ commit_done[f]
    BY <1>0, <2>1
  <2> QED
    BY <1>0, <2>1, <2>2
<1>6. CASE Join
  <2>1. pc = "join" /\ dpc = "exit" /\ ~Creating' /\ UNCHANGED <<commit_done, ahead, gave_up>>
        /\ (i' = i \/ setup.is_stream)
    BY <1>6 DEF Join
  <2>2. ASSUME setup.is_stream, ~gave_up PROVE \A f \in Frames : ~commit_done[f]
    BY <2>1, <2>2 DEF MainOK, MainIndex, GoodInv, Good
  <2> QED
    BY <2>1, <2>2
<1>7. CASE DumpTakes
  <2>1. /\ commit_done[k] /\ UNCHANGED <<pc, i, commit_done, gave_up>>
        /\ ahead' = (ahead \/ k >= i)
    BY <1>7 DEF DumpTakes
  <2>2. ~gave_up => k < i
    BY <1>0, <2>1
  <2>3. k < i => ~(k >= i)
    BY <1>0, Where
  <2>4. ~gave_up => ~ahead'
    BY <2>1, <2>2, <2>3, Zenon
  <2> QED
    BY <2>1, <2>4
<1>8. CASE DumpFails
  <2>1. gave_up'
    BY <1>8 DEF DumpFails
  <2> QED
    BY <2>1
<1>9. CASE DumpNext
  <2>1. UNCHANGED <<pc, i, ahead, gave_up>>
    BY <1>9 DEF DumpNext
  <2>2. \A f \in Frames : commit_done'[f] => commit_done[f]
    BY <1>0, <1>9 DEF DumpNext
  <2> QED
    BY <2>1, <2>2
<1>10. CASE Dump \/ DumpEnds \/ DumpDies
  BY <1>1, <1>10 DEF Dump, DumpEnds, DumpDies
<1>11. ASSUME NEW t \in Threads, Clear(t) PROVE BehindInv'
  BY <1>1, <1>11, ClearMoves
<1>12. CASE UNCHANGED vars
  BY <1>1, <1>12 DEF vars
<1> QED
  BY <1>2, <1>3, <1>4, <1>5, <1>6, <1>7, <1>8, <1>9, <1>10, <1>11, <1>12 DEF Next, Main, DumpThread

\* Without a failure main finds nothing in the plane it sets.
LEMMA FirstSetHolds == ASSUME MainOK, LostInv PROVE FirstSet
<1> SUFFICES ASSUME swapped, status, ~gave_up PROVE plane_bo = 0 /\ plane[i][x].bo = 0
  BY DEF FirstSet
<1>1. UnsetInv /\ pc \in {"create_plane", "planes"} /\ x \in Planes /\ x >= x
  BY Where DEF LostInv, Good, MainOK, MainIndex, Working, Planes
<1> QED
  BY <1>1 DEF UnsetInv, NoPlane

LEMMA OwnersInvs == Spec => [](TypeInv /\ Owners /\ BehindInv)
<1>1. Init => AheadInv /\ BehindInv /\ Owners
  <2> SUFFICES ASSUME Init PROVE AheadInv /\ BehindInv
    BY OwnersInit
  <2>1. /\ \A f \in Frames : ~commit_done[f]
        /\ \A t \in Threads : clr[t].stage = "idle"
        /\ dpc \in {"none", "wait"} /\ (Creating => dpc = "none") /\ ~ahead
    BY DEF Init, Idle, Creating
  <2> QED
    BY <2>1 DEF AheadInv, BehindInv, Busy, Threads
<1>2. TypeInv /\ GoodInv /\ LostInv /\ AheadInv /\ BehindInv /\ Owners /\ [Next]_vars
        => (AheadInv /\ BehindInv /\ Owners)'
  <2> SUFFICES ASSUME TypeInv, GoodInv, LostInv, AheadInv, BehindInv, Owners, [Next]_vars
               PROVE  (AheadInv /\ BehindInv /\ Owners)'
    OBVIOUS
  <2>1. MainOK /\ ClearOK /\ DataOK
    BY Types
  <2>2. FirstSet
    BY <2>1, FirstSetHolds
  <2> QED
    BY <2>1, <2>2, AheadInvStep, BehindInvStep, OwnersStep
<1>3. Spec => []TypeInv
  BY TypeInvInit, TypeInvStep, PTL DEF Spec
<1> QED
  BY <1>1, <1>2, <1>3, LostInvHolds, PTL DEF Spec

\* The dump thread takes a frame that main has not yet set in this round only after a dump
\* has failed: its end left commit_done of later frames set.
THEOREM AheadAfterFailure == Spec => [](ahead => gave_up)
<1>1. TypeInv /\ Owners /\ BehindInv => (ahead => gave_up)
  BY DEF BehindInv
<1> QED
  BY <1>1, OwnersInvs, PTL

\* In an orderly run no field and no local of main is left with a destroyed buffer, but for the
\* one bo_dump destroys, whichever calls fail: so none is destroyed twice.
THEOREM HoldsWhatExists == Spec => []HeldBuffersExist
<1>1. TypeInv /\ Owners /\ BehindInv => HeldBuffersExist
  BY Types, OwnersHold
<1> QED
  BY <1>1, OwnersInvs, PTL

\* In an orderly run no buffer has two owners, in all the exchanges of bo and old_bo, but for
\* the moment in which main sets a plane, when no other thread clears that frame.
THEOREM OwnsAlone == Spec => []OneOwner
<1>1. TypeInv /\ Owners /\ BehindInv => OneOwner
  BY Types, OwnersHold
<1> QED
  BY <1>1, OwnersInvs, PTL
=============================================================================
