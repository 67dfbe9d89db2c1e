-------------------------- MODULE StreamRunProofs --------------------------
(***************************************************************************)
(* Proofs about StreamRun, for every number of streams, frames and rounds  *)
(* and every size, under the mode and the faults each theorem names.       *)
(***************************************************************************)
EXTENDS StreamRun, TLAPS

Loop == {"poll", "set", "undo", "signal", "lock", "publish"}
Ending == {"exit", "final", "free", "end"}

\* Main and the thread are at a frame of a stream, and the thread of a stream is there from
\* its creation to its join; only a failure leaves one behind.
IndexInv ==
  /\ mpc \in Loop \cup Ending \cup {"create", "join", "check"} /\ status \in {"SUCCESS", "FAILURE"}
  /\ round \in 1 .. Recycle /\ s \in 0 .. NumStreams /\ f \in 0 .. NumFrames
  /\ tpc \in {"none", "open", "lock", "test", "wait", "query", "dump", "clear", "reset",
              "last", "done"}
  /\ k \in 0 .. NumFrames /\ l \in 0 .. NumFrames
  /\ lpc \in {"test", "asleep", "update", "done"} /\ cancelled \in BOOLEAN
  /\ mpc \in Loop \cup {"create", "join"} => s < NumStreams
  /\ mpc \in Loop => f < NumFrames
  /\ mpc = "poll" => UseVcmd
  /\ mpc = "undo" => f > 0 /\ status = "FAILURE"
  /\ mpc = "check" => s = NumStreams
  /\ mpc \in {"create", "check"} => tpc = "none"
  /\ mpc \in Loop \cup {"join"} => tpc # "none"
  /\ status = "FAILURE" => mpc \in Ending \cup {"undo"} /\ s < NumStreams /\ f < NumFrames
  /\ status = "SUCCESS" /\ mpc \in Ending => s = NumStreams /\ tpc = "none"
  /\ cancelled => status = "FAILURE"
  /\ tpc # "none" => s < NumStreams
  /\ tpc \notin {"none", "last", "done"} => k < NumFrames
  /\ tpc = "last" => k = NumFrames
  /\ tpc = "clear" => k > 0
  /\ lpc # "done" => l < NumFrames - 1

DataOK ==
  /\ lock \in {"none", "main", "dump"} /\ asleep \in BOOLEAN
  /\ query_num \in [main : 0 .. MaxPoll + 1, dump : 0 .. MaxQuery + 1]
  /\ commit_done \in [Streams -> [Frames -> BOOLEAN]]
  /\ fb \in [Streams -> [Frames -> {"none", "live", "freed"}]]
  /\ published \in [Streams -> [Frames -> 0 .. Recycle]]
  /\ result \in [Streams -> [match : BOOLEAN, round : 0 .. Recycle]]

CommitsOK ==
  /\ commits \in Nat /\ executed \in 0 .. commits
  /\ seq \in [Streams -> [Frames -> 0 .. commits]]

TypeInv == IndexInv /\ DataOK /\ CommitsOK

\* A frame published in this round is behind main.
RoundInv ==
  \A x \in Streams, g \in Frames :
    /\ published[x][g] <= round
    /\ published[x][g] = round => x < s \/ (x = s /\ g < f /\ mpc # "create")

\* The thread serves every frame, unless it dies or a wait times out.
NoSkip == {"open", "dump", "slow"} \cap Faults = {}

\* What is left committed is ahead of the thread, and what it has served is of this round.
CommitsAhead == \A x \in Streams, g \in Frames : commit_done[x][g] => x = s /\ k <= g
EndsLast == tpc = "done" /\ ~cancelled => k = NumFrames
ServedNow == tpc # "none" => \A g \in Frames : g < k => published[s][g] = round
SkipInv == NoSkip => CommitsAhead /\ EndsLast /\ ServedNow

\* No commit_done is left of an earlier round, so that the frame the thread works on is of
\* this one.
TakenInv ==
  Recycle = 1 \/ NoSkip =>
    /\ \A x \in Streams, g \in Frames : commit_done[x][g] => published[x][g] = round
    /\ tpc \in {"query", "dump", "clear", "reset"} => published[s][k] = round

\* A thread that came to its end has left a result.
ResultInv ==
  {"open", "dump"} \cap Faults = {} =>
    /\ \A x \in Streams : x < s => result[x].round = round
    /\ tpc = "done" /\ ~cancelled => result[s].round = round

\* A frame has its buffers before it is published.
HeldInv ==
  /\ UseVcmd => \A x \in Streams, g \in Frames : fb[x][g] # "none"
  /\ \A x \in Streams, g \in Frames : published[x][g] # 0 => fb[x][g] # "none"
  /\ mpc \in {"signal", "lock", "publish"} => fb[s][f] # "none"

\* The frames behind the thread are released, the one just behind it when it has moved on.
StreamsReleased == \A x \in Streams, g \in Frames : x < s => fb[x][g] = "freed"
ServedReleased ==
  tpc # "none" /\ ~cancelled =>
    \A g \in Frames : g < k /\ (g + 1 < k \/ tpc \in {"reset", "done"}) => fb[s][g] = "freed"
ReleasedInv == NoSkip => StreamsReleased /\ ServedReleased

\* A frame that is set or published in this round.
InUse(x, g) == published[x][g] = round \/ (x = s /\ g = f /\ mpc \in {"signal", "lock", "publish"})

\* Who released it: the thread, which is past it, or main on a failure.
ReleasedBy(x, g) ==
  \/ x < s
  \/ x = s /\ g < k /\ mpc # "create"
  \/ x = s /\ status = "FAILURE" /\ g \in {f - 1, f}
FreedInv ==
  Recycle = 1 \/ ~UseVcmd =>
    \A x \in Streams, g \in Frames :
      fb[x][g] = "freed" /\ (Recycle = 1 \/ InUse(x, g)) => ReleasedBy(x, g)

\* In the only round, a thread that is not through has not released a frame main is still to set.
AheadInv ==
  Recycle = 1 /\ mpc # "create" /\ status = "SUCCESS" /\ s < NumStreams =>
    \A g \in Frames : fb[s][g] = "freed" => g + 1 < f \/ k = NumFrames

\* What is published has been waited for.
ExecInv ==
  ~UseVcmd /\ "wait" \notin Faults =>
    /\ \A x \in Streams, g \in Frames : published[x][g] = round => seq[x][g] <= executed
    /\ mpc \in {"lock", "publish"} => seq[s][f] <= executed

IInv == /\ TypeInv /\ RoundInv /\ SkipInv /\ TakenInv /\ ResultInv /\ HeldInv /\ ReleasedInv
        /\ FreedInv /\ AheadInv /\ ExecInv
-----------------------------------------------------------------------------
LEMMA Sizes ==
  /\ NumStreams \in Nat /\ NumStreams > 0 /\ NumFrames \in Nat /\ NumFrames > 0
  /\ Recycle \in Nat /\ Recycle > 0 /\ CmdBufs \in Nat /\ MaxPoll \in Nat /\ MaxQuery \in Nat
  BY SizeAssumption, BoundAssumption

LEMMA IndexInvStep == IndexInv /\ [Next]_vars => IndexInv'
<1> SUFFICES ASSUME IndexInv, [Next]_vars PROVE IndexInv'
  OBVIOUS
<1> USE Sizes, ModeAssumption
    DEF IndexInv, Loop, Ending, mainVars, threadVars, ltmVars, frameVars, driverVars
<1>1. CASE MainCreate
  BY <1>1 DEF MainCreate, MainTop
<1>2. CASE MainPoll
  BY <1>2 DEF MainPoll
<1>3. CASE MainSetFrame
  BY <1>3 DEF MainSetFrame
<1>4. CASE MainSetFrameFails
  BY <1>4 DEF MainSetFrameFails
<1>5. CASE MainUndo
  BY <1>5 DEF MainUndo
<1>6. CASE MainWaitSignal
  BY <1>6 DEF MainWaitSignal
<1>7. CASE MainLock
  BY <1>7 DEF MainLock
<1>8. CASE MainPublish
  BY <1>8 DEF MainPublish, MainTop
<1>9. CASE MainJoin
  BY <1>9 DEF MainJoin
<1>10. CASE MainCheck
  BY <1>10 DEF MainCheck
<1>11. CASE MainExit
  BY <1>11 DEF MainExit
<1>12. CASE MainFinal
  BY <1>12 DEF MainFinal
<1>13. CASE MainFree
  BY <1>13 DEF MainFree
<1>14. CASE DumpOpen
  BY <1>14 DEF DumpOpen
<1>15. CASE DumpLock
  BY <1>15 DEF DumpLock
<1>16. CASE DumpTest
  BY <1>16 DEF DumpTest, AfterWait
<1>17. CASE DumpTimeOut
  BY <1>17 DEF DumpTimeOut, LoopTop
<1>18. CASE DumpQuery
  BY <1>18 DEF DumpQuery
<1>19. CASE DumpFrame
  BY <1>19 DEF DumpFrame
<1>20. CASE DumpFails
  BY <1>20 DEF DumpFails
<1>21. CASE DumpClear
  BY <1>21 DEF DumpClear
<1>22. CASE DumpReset
  BY <1>22 DEF DumpReset, LoopTop
<1>23. CASE DumpLast
  BY <1>23 DEF DumpLast
<1>24. CASE Die
  BY <1>24 DEF Die
<1>25. CASE LtmTest
  BY <1>25 DEF LtmTest
<1>26. CASE LtmUpdate
  BY <1>26 DEF LtmUpdate
<1>27. CASE SpuriousWake
  BY <1>27 DEF SpuriousWake
<1>28. CASE LtmSpuriousWake
  BY <1>28 DEF LtmSpuriousWake
<1>29. CASE HwExecute
  BY <1>29 DEF HwExecute
<1>30. CASE UNCHANGED vars
  BY <1>30 DEF vars
<1> QED
  BY <1>1, <1>2, <1>3, <1>4, <1>5, <1>6, <1>7, <1>8, <1>9, <1>10, <1>11, <1>12, <1>13,
     <1>14, <1>15, <1>16, <1>17, <1>18, <1>19, <1>20, <1>21, <1>22, <1>23, <1>24, <1>25,
     <1>26, <1>27, <1>28, <1>29, <1>30
  DEF Next, Main, Dump, Ltm

\* What the helpers on frames keep and give.
LEMMA SetFn ==
  ASSUME NEW V, NEW fn \in [Streams -> [Frames -> V]], NEW x, NEW g, NEW v \in V
  PROVE  /\ Set(fn, x, g, v) \in [Streams -> [Frames -> V]]
         /\ \A y \in Streams, h \in Frames :
              Set(fn, x, g, v)[y][h] = IF y = x /\ h = g THEN v ELSE fn[y][h]
  BY DEF Set

LEMMA ClearFn ==
  ASSUME fb \in [Streams -> [Frames -> {"none", "live", "freed"}]], NEW x, NEW g
  PROVE  /\ ClearFrameFB(x, g) \in [Streams -> [Frames -> {"none", "live", "freed"}]]
         /\ \A y \in Streams, h \in Frames :
              ClearFrameFB(x, g)[y][h] = IF y = x /\ h = g /\ fb[y][h] = "live" THEN "freed" ELSE fb[y][h]
  BY DEF ClearFrameFB

LEMMA DataOKStep == IndexInv /\ DataOK /\ [Next]_vars => DataOK'
<1> SUFFICES ASSUME IndexInv, DataOK, [Next]_vars PROVE DataOK'
  OBVIOUS
<1> USE Sizes DEF DataOK, mainVars, threadVars, ltmVars, frameVars, driverVars
<1>1. CASE MainCreate
  BY <1>1 DEF MainCreate
<1>2. CASE MainPoll
  BY <1>2 DEF MainPoll
<1>3. CASE MainSetFrame
  BY <1>3, SetFn DEF MainSetFrame
<1>4. CASE MainSetFrameFails
  <2>1. s \in Streams /\ f \in Frames
    BY <1>4 DEF MainSetFrameFails, IndexInv, Streams, Frames, Loop
  <2>2. PICK b \in {fb[s][f], "live"} : fb' = Set(fb, s, f, b)
    BY <1>4 DEF MainSetFrameFails
  <2>3. b \in {"none", "live", "freed"}
    BY <2>1, <2>2
  <2> QED
    BY <1>4, <2>2, <2>3, SetFn DEF MainSetFrameFails
<1>5. CASE MainUndo
  BY <1>5, ClearFn DEF MainUndo
<1>6. CASE MainLock
  BY <1>6 DEF MainLock
<1>7. CASE MainPublish
  <2>1. round \in 0 .. Recycle
    BY DEF IndexInv
  <2>2. commit_done' = Set(commit_done, s, f, TRUE) /\ published' = Set(published, s, f, round)
    BY <1>7 DEF MainPublish
  <2>3. commit_done' \in [Streams -> [Frames -> BOOLEAN]]
    BY <2>2, SetFn
  <2>4. published' \in [Streams -> [Frames -> 0 .. Recycle]]
    BY <2>1, <2>2, SetFn
  <2> QED
    BY <1>7, <2>3, <2>4 DEF MainPublish
<1>8. CASE MainFinal
  BY <1>8, ClearFn DEF MainFinal
<1>9. CASE DumpLock
  BY <1>9 DEF DumpLock
<1>10. CASE DumpTest
  BY <1>10 DEF DumpTest
<1>11. CASE DumpQuery
  BY <1>11 DEF DumpQuery
<1>12. CASE DumpFrame
  BY <1>12 DEF DumpFrame
<1>13. CASE DumpClear
  BY <1>13, ClearFn DEF DumpClear
<1>14. CASE DumpReset
  BY <1>14, SetFn DEF DumpReset
<1>15. CASE DumpLast
  <2>1. round \in 0 .. Recycle
    BY DEF IndexInv
  <2>2. PICK m \in BOOLEAN : result' = [result EXCEPT ![s] = [match |-> m, round |-> round]]
    BY <1>15 DEF DumpLast
  <2>3. result' \in [Streams -> [match : BOOLEAN, round : 0 .. Recycle]]
    BY <2>1, <2>2
  <2>4. fb' \in [Streams -> [Frames -> {"none", "live", "freed"}]]
    BY <1>15, ClearFn DEF DumpLast
  <2> QED
    BY <1>15, <2>3, <2>4 DEF DumpLast
<1>16. CASE Die
  BY <1>16 DEF Die
<1>17. CASE SpuriousWake
  BY <1>17 DEF SpuriousWake
<1>18. CASE MainWaitSignal \/ MainJoin \/ MainCheck \/ MainExit \/ MainFree \/ DumpOpen \/ DumpTimeOut
            \/ DumpFails \/ LtmTest \/ LtmUpdate \/ LtmSpuriousWake \/ HwExecute \/ UNCHANGED vars
  BY <1>18 DEF MainWaitSignal, MainJoin, MainCheck, MainExit, MainFree, DumpOpen, DumpTimeOut, DumpFails,
       LtmTest, LtmUpdate, LtmSpuriousWake, HwExecute, vars
<1> QED
  BY <1>1, <1>2, <1>3, <1>4, <1>5, <1>6, <1>7, <1>8, <1>9, <1>10, <1>11, <1>12, <1>13, <1>14, <1>15, <1>16,
     <1>17, <1>18
  DEF Next, Main, Dump, Ltm

LEMMA CommitsOKStep == CommitsOK /\ [Next]_vars => CommitsOK'
<1> SUFFICES ASSUME CommitsOK, [Next]_vars PROVE CommitsOK'
  OBVIOUS
<1> USE DEF CommitsOK, mainVars, threadVars, ltmVars, frameVars, driverVars
<1>1. CASE MainSetFrame
  <2>1. commits' \in Nat /\ executed' \in 0 .. commits'
    BY <1>1 DEF MainSetFrame
  <2>2. seq \in [Streams -> [Frames -> 0 .. commits']] /\ commits + 1 \in 0 .. commits'
    BY <1>1 DEF MainSetFrame
  <2>3. seq' = Set(seq, s, f, commits + 1)
    BY <1>1 DEF MainSetFrame
  <2> QED
    BY <2>1, <2>2, <2>3, SetFn
<1>2. CASE HwExecute
  BY <1>2 DEF HwExecute
<1>3. ASSUME UNCHANGED driverVars PROVE CommitsOK'
  BY <1>3
<1> QED
  BY <1>1, <1>2, <1>3
  DEF Next, Main, Dump, Ltm, MainCreate, MainPoll, MainSetFrameFails, MainUndo, MainWaitSignal, MainLock,
      MainPublish, MainJoin, MainCheck, MainExit, MainFinal, MainFree, DumpOpen, DumpLock, DumpTest,
      DumpTimeOut, DumpQuery, DumpFrame, DumpFails, DumpClear, DumpReset, DumpLast, Die, LtmTest,
      LtmUpdate, SpuriousWake, LtmSpuriousWake, vars

LEMMA TypeInvInit == Init => TypeInv
<1> SUFFICES ASSUME Init PROVE TypeInv
  OBVIOUS
<1>1. IndexInv
  <2>1. lpc \in {"test", "done"} /\ l = 0 /\ (lpc # "done" => NumFrames > 1)
    BY DEF Init
  <2>2. /\ mpc = "create" /\ round = 1 /\ s = 0 /\ f = 0 /\ status = "SUCCESS"
        /\ tpc = "none" /\ k = 0 /\ cancelled \in BOOLEAN /\ ~cancelled
    BY DEF Init
  <2> QED
    BY Sizes, <2>1, <2>2 DEF IndexInv, Loop, Ending
<1>2. DataOK
  <2>1. commit_done \in [Streams -> [Frames -> BOOLEAN]] /\ published \in [Streams -> [Frames -> 0 .. Recycle]]
    BY Sizes DEF Init, Zero
  <2>2. fb \in [Streams -> [Frames -> {"none", "live", "freed"}]]
    BY DEF Init
  <2>3. result \in [Streams -> [match : BOOLEAN, round : 0 .. Recycle]]
    BY Sizes DEF Init
  <2>4. query_num \in [main : 0 .. MaxPoll + 1, dump : 0 .. MaxQuery + 1]
    BY Sizes DEF Init
  <2> QED
    BY <2>1, <2>2, <2>3, <2>4 DEF Init, DataOK
<1>3. CommitsOK
  BY DEF Init, CommitsOK, Zero
<1> QED
  BY <1>1, <1>2, <1>3 DEF TypeInv

-----------------------------------------------------------------------------
(* Rounds and threads.                                                     *)

\* Where main and the thread are at a frame.
LEMMA Indices ==
  ASSUME TypeInv
  PROVE  /\ s \in Nat /\ f \in Nat /\ k \in Nat /\ round \in Nat
         /\ mpc \in Loop \cup {"create", "join"} => s \in Streams
         /\ mpc \in Loop => f \in Frames
         /\ tpc # "none" => s \in Streams
         /\ tpc \notin {"none", "last", "done"} => k \in Frames
  BY Sizes DEF TypeInv, IndexInv, Streams, Frames

LEMMA RoundInvStep == TypeInv /\ RoundInv /\ [Next]_vars => RoundInv'
<1> SUFFICES ASSUME TypeInv, RoundInv, [Next]_vars PROVE RoundInv'
  OBVIOUS
<1>0. /\ round \in Nat /\ s \in Nat /\ f \in Nat
      /\ published \in [Streams -> [Frames -> 0 .. Recycle]]
      /\ \A x \in Streams : x \in Nat /\ x < NumStreams
      /\ \A g \in Frames : g \in Nat /\ g < NumFrames
  BY Sizes DEF TypeInv, IndexInv, DataOK, Streams, Frames
<1> USE DEF RoundInv, mainVars, threadVars, ltmVars, frameVars, driverVars
<1>1. CASE MainCreate
  BY <1>0, <1>1 DEF MainCreate
<1>2. CASE MainPublish
  <2>1. mpc' # "create" /\ UNCHANGED <<round, s>> /\ f' = f + 1 /\ mpc # "create"
    BY <1>2 DEF MainPublish, MainTop
  <2>2. \A x \in Streams, g \in Frames :
          published'[x][g] = IF x = s /\ g = f THEN round ELSE published[x][g]
    <3>1. published' = Set(published, s, f, round)
      BY <1>2 DEF MainPublish
    <3> QED
      BY <1>0, <3>1 DEF Set
  <2> QED
    BY <1>0, <2>1, <2>2
<1>3. CASE MainJoin
  BY <1>0, <1>3 DEF MainJoin
<1>4. CASE MainCheck
  <2>1. s = NumStreams /\ UNCHANGED <<published, f>>
    BY <1>4 DEF MainCheck, TypeInv, IndexInv
  <2>2. CASE round < Recycle
    BY <1>0, <1>4, <2>1, <2>2 DEF MainCheck
  <2>3. CASE ~(round < Recycle)
    BY <1>0, <1>4, <2>1, <2>3 DEF MainCheck
  <2> QED
    BY <2>2, <2>3
<1>5. ASSUME UNCHANGED <<published, round, s, f>>, mpc' = "create" => mpc = "create"
      PROVE  RoundInv'
  BY <1>5
<1> QED
  BY <1>1, <1>2, <1>3, <1>4, <1>5
  DEF Next, Main, Dump, Ltm, MainPoll, MainSetFrame, MainSetFrameFails, MainUndo,
      MainWaitSignal, MainLock, MainExit, MainFinal, MainFree, DumpOpen, DumpLock,
      DumpTest, DumpTimeOut, DumpQuery, DumpFrame, DumpFails, DumpClear, DumpReset,
      DumpLast, Die, LtmTest, LtmUpdate, SpuriousWake, LtmSpuriousWake, HwExecute, MainTop,
      vars, mainVars, threadVars, ltmVars, frameVars, driverVars

\* Main is not behind a thread that skips nothing.
LEMMA Behind ==
  ASSUME TypeInv, RoundInv, SkipInv, NoSkip, mpc \in Loop
  PROVE  k <= f
<1>1. s \in Streams /\ f \in Frames /\ tpc # "none" /\ {s, f, k} \subseteq Nat
  BY Indices DEF TypeInv, IndexInv
<1>2. f < k => published[s][f] = round
  BY <1>1 DEF SkipInv, ServedNow
<1>3. published[s][f] = round => f < f
  BY <1>1 DEF RoundInv
<1> QED
  BY <1>1, <1>2, <1>3

LEMMA SkipInvStep == TypeInv /\ RoundInv /\ SkipInv /\ TakenInv /\ [Next]_vars => SkipInv'
<1> SUFFICES ASSUME TypeInv, RoundInv, SkipInv, TakenInv, [Next]_vars, NoSkip
             PROVE  CommitsAhead' /\ EndsLast' /\ ServedNow'
  BY DEF SkipInv, NoSkip
<1>0. /\ round \in 0 .. Recycle /\ s \in Nat /\ f \in Nat /\ k \in 0 .. NumFrames
      /\ published \in [Streams -> [Frames -> 0 .. Recycle]]
      /\ commit_done \in [Streams -> [Frames -> BOOLEAN]]
      /\ Streams = 0 .. NumStreams - 1 /\ Frames = 0 .. NumFrames - 1
  <2>1. round \in 0 .. Recycle /\ s \in Nat /\ f \in Nat /\ k \in 0 .. NumFrames
    BY Sizes DEF TypeInv, IndexInv
  <2>2. /\ published \in [Streams -> [Frames -> 0 .. Recycle]]
        /\ commit_done \in [Streams -> [Frames -> BOOLEAN]]
    BY DEF TypeInv, DataOK
  <2> QED
    BY <2>1, <2>2 DEF Streams, Frames
<1>a. CommitsAhead /\ EndsLast /\ ServedNow
  BY DEF SkipInv
<1> USE Sizes DEF mainVars, threadVars, ltmVars, frameVars, driverVars
<1>1. CASE MainCreate
  BY <1>0, <1>1, <1>a DEF MainCreate, CommitsAhead, EndsLast, ServedNow
<1>2. CASE MainPublish
  <2>1. /\ UNCHANGED <<round, s, tpc, k, cancelled>> /\ tpc # "none" /\ f \in Frames /\ s \in Streams
    BY <1>0, <1>2 DEF MainPublish, TypeInv, IndexInv, Loop
  <2>2. commit_done' = Set(commit_done, s, f, TRUE) /\ published' = Set(published, s, f, round)
    BY <1>2 DEF MainPublish
  <2>3. \A x \in Streams, g \in Frames :
          /\ published'[x][g] = IF x = s /\ g = f THEN round ELSE published[x][g]
          /\ commit_done'[x][g] => (x = s /\ g = f) \/ commit_done[x][g]
    BY <1>0, <2>2 DEF Set
  <2>4. k <= f
    BY <1>2, Behind DEF MainPublish, Loop
  <2>5. CommitsAhead'
    BY <1>0, <1>a, <2>1, <2>3, <2>4 DEF CommitsAhead
  <2> QED
    BY <1>0, <1>a, <2>1, <2>3, <2>5 DEF EndsLast, ServedNow
<1>3. CASE MainJoin
  <2>1. ~cancelled /\ k = NumFrames
    BY <1>3, <1>a DEF MainJoin, TypeInv, IndexInv, Ending, EndsLast
  <2> QED
    BY <1>0, <1>3, <1>a, <2>1 DEF MainJoin, CommitsAhead, EndsLast, ServedNow
<1>4. CASE MainCheck
  <2>1. s = NumStreams /\ tpc = "none"
    BY <1>4 DEF MainCheck, TypeInv, IndexInv
  <2>2. UNCHANGED <<commit_done, published, tpc, k, cancelled>>
    BY <1>4 DEF MainCheck
  <2> QED
    BY <1>0, <1>a, <2>1, <2>2 DEF CommitsAhead, EndsLast, ServedNow
<1>5. CASE DumpReset
  <2>1. s \in Streams /\ k \in Frames
    BY <1>0, <1>5 DEF DumpReset, TypeInv, IndexInv
  <2>2. \A x \in Streams, g \in Frames :
          commit_done'[x][g] => commit_done[x][g] /\ ~(x = s /\ g = k)
    BY <1>0, <1>5 DEF DumpReset, Set
  <2>3. published[s][k] = round
    BY <1>5 DEF DumpReset, TakenInv
  <2>4. k' = k + 1 /\ UNCHANGED <<s, round, published, cancelled>> /\ tpc # "none" /\ tpc' # "done"
    BY <1>5 DEF DumpReset, LoopTop
  <2>5. CommitsAhead'
    <3>1. \A g \in Frames : k <= g /\ g # k => k + 1 <= g
      BY <1>0
    <3> QED
      BY <1>a, <2>2, <2>4, <3>1 DEF CommitsAhead
  <2>6. EndsLast'
    BY <2>4 DEF EndsLast
  <2>7. ServedNow'
    <3>1. \A g \in Frames : g < k + 1 => g < k \/ g = k
      BY <1>0
    <3> QED
      BY <1>a, <2>3, <2>4, <3>1 DEF ServedNow
  <2> QED
    BY <2>5, <2>6, <2>7
<1>6. CASE DumpLast
  BY <1>0, <1>6, <1>a DEF DumpLast, TypeInv, IndexInv, CommitsAhead, EndsLast, ServedNow
<1>7. CASE DumpOpen \/ DumpTimeOut \/ DumpFails
  <2>1. UNCHANGED <<round, s, k, published, commit_done, cancelled>> /\ tpc # "none"
    BY <1>7 DEF DumpOpen, DumpTimeOut, DumpFails, NoSkip
  <2>2. tpc' # "none"
    BY <1>7 DEF DumpOpen, DumpTimeOut, DumpFails, NoSkip
  <2>3. tpc' # "done"
    BY <1>7 DEF DumpOpen, DumpTimeOut, DumpFails, NoSkip
  <2> QED
    BY <1>0, <1>a, <2>1, <2>2, <2>3 DEF CommitsAhead, EndsLast, ServedNow
<1>8. CASE MainExit
  <2>1. /\ UNCHANGED <<round, s, k, published, commit_done, tpc>>
        /\ ~cancelled' => ~cancelled
    BY <1>8 DEF MainExit, TypeInv, IndexInv
  <2> QED
    BY <1>a, <2>1 DEF CommitsAhead, EndsLast, ServedNow
<1>9. CASE Die
  <2>1. UNCHANGED <<round, s, k, published, commit_done>> /\ cancelled' /\ tpc # "none"
    BY <1>9 DEF Die
  <2> QED
    BY <1>a, <2>1 DEF CommitsAhead, EndsLast, ServedNow
<1>10. ASSUME UNCHANGED <<round, s, k, published, commit_done, cancelled>>,
              tpc' # "none" => tpc # "none", tpc' = "done" => tpc = "done"
       PROVE  CommitsAhead' /\ EndsLast' /\ ServedNow'
  BY <1>10, <1>a DEF CommitsAhead, EndsLast, ServedNow
<1> QED
  BY <1>1, <1>2, <1>3, <1>4, <1>5, <1>6, <1>7, <1>8, <1>9, <1>10
  DEF Next, Main, Dump, Ltm, MainPoll, MainSetFrame, MainSetFrameFails, MainUndo,
      MainWaitSignal, MainLock, MainFinal, MainFree, DumpLock, DumpTest, DumpQuery,
      DumpFrame, DumpClear, LtmTest, LtmUpdate, SpuriousWake, LtmSpuriousWake, HwExecute,
      AfterWait, vars, mainVars, threadVars, ltmVars, frameVars, driverVars

LEMMA TakenInvStep == TypeInv /\ SkipInv /\ TakenInv /\ [Next]_vars => TakenInv'
<1> SUFFICES ASSUME TypeInv, SkipInv, TakenInv, [Next]_vars, Recycle = 1 \/ NoSkip PROVE TakenInv'
  BY DEF TakenInv, NoSkip
<1>0. /\ round \in 1 .. Recycle /\ s \in Nat /\ f \in Nat /\ k \in 0 .. NumFrames
      /\ published \in [Streams -> [Frames -> 0 .. Recycle]]
      /\ commit_done \in [Streams -> [Frames -> BOOLEAN]]
  BY Sizes DEF TypeInv, IndexInv, DataOK
<1>a. /\ \A x \in Streams, g \in Frames : commit_done[x][g] => published[x][g] = round
      /\ tpc \in {"query", "dump", "clear", "reset"} => published[s][k] = round
  BY DEF TakenInv
<1> USE Sizes DEF mainVars, threadVars, ltmVars, frameVars, driverVars
<1>1. CASE MainPublish
  <2>1. commit_done' = Set(commit_done, s, f, TRUE) /\ published' = Set(published, s, f, round)
    BY <1>1 DEF MainPublish
  <2>2. \A x \in Streams, g \in Frames :
          /\ published'[x][g] = IF x = s /\ g = f THEN round ELSE published[x][g]
          /\ commit_done'[x][g] => (x = s /\ g = f) \/ commit_done[x][g]
    BY <1>0, <2>1 DEF Set
  <2>3. tpc \in {"query", "dump", "clear", "reset"} => s \in Streams /\ k \in Frames
    BY Indices
  <2>4. UNCHANGED <<round, s, k, tpc>>
    BY <1>1 DEF MainPublish
  <2> QED
    BY <1>a, <2>2, <2>3, <2>4 DEF TakenInv
<1>2. CASE MainCheck
  <2>1. tpc' = "none" /\ UNCHANGED <<published, commit_done>>
    BY <1>2 DEF MainCheck, TypeInv, IndexInv
  <2>2. CASE Recycle = 1
    <3>1. UNCHANGED round
      BY <1>0, <1>2, <2>2 DEF MainCheck
    <3> QED
      BY <1>a, <2>1, <3>1 DEF TakenInv
  <2>3. CASE NoSkip
    <3>1. \A x \in Streams, g \in Frames : ~commit_done[x][g]
      BY <1>2, <2>3 DEF MainCheck, TypeInv, IndexInv, SkipInv, CommitsAhead, Streams
    <3> QED
      BY <2>1, <3>1 DEF TakenInv
  <2> QED
    BY <2>2, <2>3
<1>3. CASE DumpTest
  <2>1. s \in Streams /\ k \in Frames
    BY <1>0, <1>3 DEF DumpTest, TypeInv, IndexInv, Streams, Frames
  <2>2. tpc' # "wait" => published[s][k] = round
    BY <1>3, <1>a, <2>1 DEF DumpTest
  <2> QED
    BY <1>3, <1>a, <2>2 DEF DumpTest, TakenInv
<1>4. CASE DumpReset
  <2>1. \A x \in Streams, g \in Frames : commit_done'[x][g] => commit_done[x][g]
    BY <1>0, <1>4 DEF DumpReset, Set
  <2> QED
    BY <1>4, <1>a, <2>1 DEF DumpReset, LoopTop, TakenInv
<1>5. CASE DumpTimeOut
  BY <1>5, <1>a DEF DumpTimeOut, LoopTop, TakenInv
<1>6. CASE MainCreate
  BY <1>6, <1>a DEF MainCreate, TakenInv
<1>7. CASE MainJoin
  BY <1>7, <1>a DEF MainJoin, TakenInv
<1>8. ASSUME UNCHANGED <<round, s, k, published, commit_done>>,
             tpc' \in {"query", "dump", "clear", "reset"} => tpc \in {"query", "dump", "clear", "reset"}
      PROVE  TakenInv'
  BY <1>8, <1>a DEF TakenInv
<1> QED
  BY <1>1, <1>2, <1>3, <1>4, <1>5, <1>6, <1>7, <1>8
  DEF Next, Main, Dump, Ltm, MainPoll, MainSetFrame, MainSetFrameFails, MainUndo,
      MainWaitSignal, MainLock, MainExit, MainFinal, MainFree, DumpOpen, DumpLock,
      DumpQuery, DumpFrame, DumpFails, DumpClear, DumpLast, Die, LtmTest, LtmUpdate,
      SpuriousWake, LtmSpuriousWake, HwExecute, vars, mainVars, threadVars, ltmVars,
      frameVars, driverVars

LEMMA ResultInvStep == TypeInv /\ ResultInv /\ [Next]_vars => ResultInv'
<1> SUFFICES ASSUME TypeInv, ResultInv, [Next]_vars, {"open", "dump"} \cap Faults = {} PROVE ResultInv'
  BY DEF ResultInv
<1>0. round \in Nat /\ s \in Nat /\ result \in [Streams -> [match : BOOLEAN, round : 0 .. Recycle]]
      /\ Streams = 0 .. NumStreams - 1
  BY Sizes DEF TypeInv, IndexInv, DataOK, Streams
<1>a. /\ \A x \in Streams : x < s => result[x].round = round
      /\ tpc = "done" /\ ~cancelled => result[s].round = round
  BY DEF ResultInv
<1> USE Sizes DEF mainVars, threadVars, ltmVars, frameVars, driverVars
<1>1. CASE MainJoin
  <2>1. ~cancelled /\ tpc = "done" /\ UNCHANGED <<round, result>> /\ tpc' = "none" /\ s' = s + 1
    BY <1>1 DEF MainJoin, TypeInv, IndexInv, Ending
  <2>2. \A x \in Streams : x < s + 1 => x < s \/ x = s
    BY <1>0
  <2> QED
    BY <1>a, <2>1, <2>2 DEF ResultInv
<1>2. CASE MainCheck
  <2>1. tpc' = "none" /\ UNCHANGED result
    BY <1>2 DEF MainCheck, TypeInv, IndexInv
  <2>2. CASE s' = 0
    BY <1>0, <2>1, <2>2 DEF ResultInv
  <2>3. CASE UNCHANGED <<s, round>>
    BY <1>a, <2>1, <2>3 DEF ResultInv
  <2> QED
    BY <1>2, <2>2, <2>3 DEF MainCheck
<1>3. CASE DumpLast
  <2>1. PICK m \in BOOLEAN : result' = [result EXCEPT ![s] = [match |-> m, round |-> round]]
    BY <1>3 DEF DumpLast
  <2>2. s \in Streams /\ UNCHANGED <<s, round, cancelled>>
    BY <1>0, <1>3 DEF DumpLast, TypeInv, IndexInv
  <2>3. result'[s].round = round /\ \A x \in Streams : x # s => result'[x] = result[x]
    BY <1>0, <2>1, <2>2
  <2> QED
    BY <1>a, <2>2, <2>3 DEF ResultInv
<1>4. CASE DumpOpen \/ DumpFails
  BY <1>4, <1>a DEF DumpOpen, DumpFails, ResultInv
<1>5. CASE MainExit
  <2>1. UNCHANGED <<s, round, result, tpc>> /\ (~cancelled' => ~cancelled)
    BY <1>5 DEF MainExit, TypeInv, IndexInv
  <2> QED
    BY <1>a, <2>1 DEF ResultInv
<1>6. CASE Die
  <2>1. UNCHANGED <<s, round, result>> /\ cancelled'
    BY <1>6 DEF Die
  <2> QED
    BY <1>a, <2>1 DEF ResultInv
<1>7. ASSUME UNCHANGED <<s, round, result, cancelled>>, tpc' = "done" => tpc = "done"
      PROVE  ResultInv'
  BY <1>7, <1>a DEF ResultInv
<1> QED
  BY <1>1, <1>2, <1>3, <1>4, <1>5, <1>6, <1>7
  DEF Next, Main, Dump, Ltm, MainCreate, MainPoll, MainSetFrame, MainSetFrameFails,
      MainUndo, MainWaitSignal, MainLock, MainPublish, MainFinal, MainFree, DumpLock,
      DumpTest, DumpTimeOut, DumpQuery, DumpFrame, DumpClear, DumpReset, LtmTest,
      LtmUpdate, SpuriousWake, LtmSpuriousWake, HwExecute, AfterWait, LoopTop, vars,
      mainVars, threadVars, ltmVars, frameVars, driverVars
-----------------------------------------------------------------------------
(* Buffers.                                                                *)

\* A step changes buffers only by setting or clearing one frame.
LEMMA BufferStep ==
  ASSUME TypeInv, [Next]_vars
  PROVE  \/ UNCHANGED fb
         \/ MainSetFrame \/ MainSetFrameFails \/ MainUndo \/ MainFinal \/ DumpClear \/ DumpLast
  BY
  DEF Next, Main, Dump, Ltm, MainCreate, MainPoll, MainWaitSignal, MainLock, MainPublish,
      MainJoin, MainCheck, MainExit, MainFree, DumpOpen, DumpLock, DumpTest, DumpTimeOut,
      DumpQuery, DumpFrame, DumpFails, DumpReset, Die, LtmTest, LtmUpdate, SpuriousWake,
      LtmSpuriousWake, HwExecute, vars, mainVars, threadVars, ltmVars, frameVars, driverVars

\* Setting makes buffers of one frame, if any.
LEMMA SetStep ==
  ASSUME TypeInv, MainSetFrame \/ MainSetFrameFails
  PROVE  /\ mpc = "set" /\ s \in Streams /\ f \in Frames
         /\ \A x \in Streams, g \in Frames :
              fb'[x][g] = fb[x][g] \/ (fb'[x][g] = "live" /\ ~UseVcmd /\ x = s /\ g = f)
<1>0. mpc = "set" /\ s \in Streams /\ f \in Frames
  BY Indices DEF MainSetFrame, MainSetFrameFails, Loop
<1>a. \A b : \A x \in Streams, g \in Frames :
        Set(fb, s, f, b)[x][g] = IF x = s /\ g = f THEN b ELSE fb[x][g]
  BY DEF TypeInv, DataOK, Set
<1>1. CASE MainSetFrame
  BY <1>0, <1>1, <1>a DEF MainSetFrame
<1>2. CASE MainSetFrameFails
  <2>1. PICK b \in {fb[s][f]} \cup (IF UseVcmd THEN {} ELSE {"live"}) : fb' = Set(fb, s, f, b)
    BY <1>2 DEF MainSetFrameFails
  <2> QED
    BY <1>0, <1>a, <2>1
<1> QED
  BY <1>0, <1>1, <1>2

\* Clearing releases one frame: who clears, and which.
Cleared(x, g) ==
  \A y \in Streams, h \in Frames :
    fb'[y][h] = IF y = x /\ h = g /\ fb[y][h] = "live" THEN "freed" ELSE fb[y][h]

LEMMA ClearStep ==
  ASSUME TypeInv
  PROVE  /\ MainUndo => Cleared(s, f - 1)
         /\ MainFinal /\ status = "FAILURE" => Cleared(s, f)
         /\ MainFinal /\ status # "FAILURE" => Cleared(s - 1, f - 1)
         /\ DumpClear \/ DumpLast => Cleared(s, k - 1)
  BY ClearFn DEF MainUndo, MainFinal, LastFrame, DumpClear, DumpLast, Cleared, TypeInv, DataOK

LEMMA HeldInvStep == TypeInv /\ HeldInv /\ [Next]_vars => HeldInv'
<1> SUFFICES ASSUME TypeInv, HeldInv, [Next]_vars PROVE HeldInv'
  OBVIOUS
<1>1. \A x \in Streams, g \in Frames : fb[x][g] # "none" => fb'[x][g] # "none"
  BY BufferStep, SetStep, ClearStep DEF Cleared
<1> USE DEF mainVars, threadVars, ltmVars, frameVars, driverVars
<1>2. CASE MainSetFrame
  <2>1. fb'[s][f] # "none"
    <3>1. CASE UseVcmd
      BY <1>2, <3>1, SetStep DEF MainSetFrame, HeldInv
    <3>2. CASE ~UseVcmd
      BY <1>2, <3>2, SetStep DEF MainSetFrame, Set, TypeInv, DataOK
    <3> QED
      BY <3>1, <3>2
  <2> QED
    BY <1>1, <1>2, <2>1, SetStep DEF MainSetFrame, HeldInv
<1>3. CASE MainPublish
  <2>1. s \in Streams /\ f \in Frames /\ fb[s][f] # "none" /\ UNCHANGED fb
    BY <1>3, Indices DEF MainPublish, HeldInv, Loop
  <2>2. \A x \in Streams, g \in Frames : published'[x][g] # published[x][g] => x = s /\ g = f
    BY <1>3 DEF MainPublish, Set, TypeInv, DataOK
  <2> QED
    BY <1>3, <2>1, <2>2 DEF MainPublish, MainTop, HeldInv
<1>4. CASE MainPoll
  <2>1. s \in Streams /\ f \in Frames /\ UseVcmd
    BY <1>4, Indices DEF MainPoll, TypeInv, IndexInv, Loop
  <2> QED
    BY <1>4, <2>1 DEF MainPoll, HeldInv
<1>5. ASSUME UNCHANGED <<s, f, published>>,
             mpc' \in {"signal", "lock", "publish"} => mpc \in {"signal", "lock", "publish"}
      PROVE  HeldInv'
  <2>1. mpc \in {"signal", "lock", "publish"} => s \in Streams /\ f \in Frames
    BY Indices DEF Loop
  <2> QED
    BY <1>1, <1>5, <2>1 DEF HeldInv
<1>6. CASE MainCreate \/ MainJoin \/ MainCheck
  BY <1>6 DEF MainCreate, MainJoin, MainCheck, MainTop, HeldInv
<1> QED
  BY <1>2, <1>3, <1>4, <1>5, <1>6
  DEF Next, Main, Dump, Ltm, MainSetFrameFails, MainUndo, MainWaitSignal, MainLock,
      MainExit, MainFinal, MainFree, DumpOpen, DumpLock, DumpTest, DumpTimeOut, DumpQuery,
      DumpFrame, DumpFails, DumpClear, DumpReset, DumpLast, Die, LtmTest, LtmUpdate,
      SpuriousWake, LtmSpuriousWake, HwExecute, vars, mainVars, threadVars, ltmVars,
      frameVars, driverVars

LEMMA ReleasedInvStep ==
  TypeInv /\ RoundInv /\ SkipInv /\ HeldInv /\ ReleasedInv /\ [Next]_vars => ReleasedInv'
<1> SUFFICES ASSUME TypeInv, RoundInv, SkipInv, HeldInv, ReleasedInv, [Next]_vars, NoSkip
             PROVE  StreamsReleased' /\ ServedReleased'
  BY DEF ReleasedInv, NoSkip
<1>0. s \in Nat /\ f \in Nat /\ k \in Nat /\ \A x \in Streams \cup Frames : x \in Nat
  BY Indices DEF Streams, Frames
<1>a. StreamsReleased /\ ServedReleased /\ CommitsAhead /\ EndsLast /\ ServedNow
  BY DEF ReleasedInv, SkipInv
<1> USE DEF StreamsReleased, ServedReleased, mainVars, threadVars, ltmVars, frameVars, driverVars
<1>1. CASE MainSetFrame \/ MainSetFrameFails
  <2>1. k <= f
    BY <1>1, Behind DEF MainSetFrame, MainSetFrameFails, Loop
  <2>2. UNCHANGED <<s, k, tpc, cancelled>>
    BY <1>1 DEF MainSetFrame, MainSetFrameFails
  <2>3. \A x \in Streams, g \in Frames : fb[x][g] = "freed" /\ (x < s \/ g < k) => fb'[x][g] = "freed"
    BY <1>0, <1>1, <2>1, SetStep
  <2>4. tpc # "none" => s \in Streams
    BY Indices
  <2> QED
    BY <1>a, <2>2, <2>3, <2>4
<1>2. \A x \in Streams, g \in Frames :
        ~(MainSetFrame \/ MainSetFrameFails) /\ fb[x][g] = "freed" => fb'[x][g] = "freed"
  BY BufferStep, ClearStep DEF Cleared
<1>3. CASE MainJoin
  <2>1. tpc = "done" /\ ~cancelled /\ s' = s + 1 /\ tpc' = "none" /\ UNCHANGED fb
    BY <1>3 DEF MainJoin, TypeInv, IndexInv, Ending
  <2>2. k = NumFrames
    BY <1>a, <2>1 DEF EndsLast
  <2>3. \A g \in Frames : fb[s][g] = "freed"
    BY <1>a, <2>1, <2>2, Sizes, \A g \in Frames : g < NumFrames DEF Frames
  <2>4. \A x \in Streams : x < s + 1 => x < s \/ x = s
    BY <1>0
  <2> QED
    BY <1>a, <2>1, <2>3, <2>4
<1>4. CASE MainCheck
  <2>1. tpc' = "none" /\ UNCHANGED fb /\ (s' = 0 \/ s' = s)
    BY <1>4 DEF MainCheck, TypeInv, IndexInv
  <2>2. \A x \in Streams : ~(x < 0)
    BY DEF Streams
  <2> QED
    BY <1>a, <2>1, <2>2
<1>5. CASE MainCreate
  <2>1. k' = 0 /\ UNCHANGED <<s, fb>>
    BY <1>5 DEF MainCreate
  <2>2. \A g \in Frames : ~(g < 0)
    BY DEF Frames
  <2> QED
    BY <1>a, <2>1, <2>2
<1>6. CASE DumpClear \/ DumpLast
  <2>1. s \in Streams /\ tpc # "none" /\ k - 1 \in Frames
    BY <1>6, Indices, Sizes DEF DumpClear, DumpLast, TypeInv, IndexInv, Frames
  <2>2. fb[s][k - 1] # "none"
    <3>1. published[s][k - 1] = round /\ round # 0
      BY <1>0, <1>a, <2>1 DEF ServedNow, TypeInv, IndexInv
    <3> QED
      BY <2>1, <3>1 DEF HeldInv
  <2>3. fb'[s][k - 1] = "freed" /\ \A x \in Streams, g \in Frames : fb[x][g] = "freed" => fb'[x][g] = "freed"
    BY <1>6, <2>1, <2>2, ClearStep DEF Cleared, TypeInv, DataOK
  <2>4. UNCHANGED <<s, k, cancelled>>
    BY <1>6 DEF DumpClear, DumpLast
  <2>5. \A g \in Frames : g < k => g + 1 < k \/ g = k - 1
    BY <1>0
  <2> QED
    BY <1>a, <2>1, <2>3, <2>4, <2>5
<1>7. CASE DumpReset
  <2>1. tpc = "reset" /\ k' = k + 1 /\ tpc' \notin {"reset", "done"} /\ UNCHANGED <<s, cancelled, fb>>
    BY <1>7 DEF DumpReset, LoopTop
  <2>2. \A g \in Frames : g + 1 < k + 1 => g < k
    BY <1>0
  <2> QED
    BY <1>a, <2>1, <2>2
<1>8. CASE DumpFrame
  <2>1. UNCHANGED <<s, k, cancelled, fb>> /\ tpc # "none" /\ tpc' # "done" /\ (tpc' = "reset" => k = 0)
    BY <1>0, <1>8 DEF DumpFrame
  <2>2. \A g \in Frames : ~(g < 0)
    BY DEF Frames
  <2> QED
    BY <1>a, <2>1, <2>2
<1>9. CASE DumpOpen \/ DumpTimeOut \/ DumpFails
  BY <1>9, <1>a DEF DumpOpen, DumpTimeOut, DumpFails, NoSkip
<1>10. CASE MainExit
  <2>1. UNCHANGED <<s, k, tpc, fb>> /\ (~cancelled' => ~cancelled)
    BY <1>10 DEF MainExit, TypeInv, IndexInv
  <2> QED
    BY <1>a, <2>1
<1>11. CASE Die
  <2>1. UNCHANGED <<s, fb>> /\ cancelled'
    BY <1>11 DEF Die
  <2> QED
    BY <1>a, <2>1
<1>12. ASSUME UNCHANGED <<s, k, cancelled>>, tpc' # "none" => tpc # "none",
              tpc' \in {"reset", "done"} => tpc \in {"reset", "done"},
              ~(MainSetFrame \/ MainSetFrameFails)
       PROVE  StreamsReleased' /\ ServedReleased'
  <2>1. tpc # "none" => s \in Streams
    BY Indices
  <2> QED
    BY <1>12, <1>2, <1>a, <2>1
<1> QED
  BY <1>1, <1>3, <1>4, <1>5, <1>6, <1>7, <1>8, <1>9, <1>10, <1>11, <1>12
  DEF Next, Main, Dump, Ltm, MainPoll, MainUndo, MainWaitSignal, MainLock, MainPublish,
      MainFinal, MainFree, DumpLock, DumpTest, DumpQuery, LtmTest, LtmUpdate, SpuriousWake,
      LtmSpuriousWake, HwExecute, AfterWait, vars, mainVars, threadVars, ltmVars,
      frameVars, driverVars

LEMMA FreedInvStep == TypeInv /\ RoundInv /\ FreedInv /\ [Next]_vars => FreedInv'
<1> SUFFICES ASSUME TypeInv, RoundInv, FreedInv, [Next]_vars, Recycle = 1 \/ ~UseVcmd,
                    NEW x \in Streams, NEW g \in Frames,
                    fb'[x][g] = "freed", Recycle = 1 \/ InUse(x, g)'
             PROVE  ReleasedBy(x, g)'
  BY DEF FreedInv
<1>0. {x, g, s, f, k} \subseteq Nat /\ round \in 1 .. Recycle
  BY Indices DEF TypeInv, IndexInv, Streams, Frames
<1>a. fb[x][g] = "freed" /\ (Recycle = 1 \/ InUse(x, g)) => ReleasedBy(x, g)
  BY DEF FreedInv
<1> USE DEF InUse, ReleasedBy, mainVars, threadVars, ltmVars, frameVars, driverVars
<1>1. CASE MainSetFrame \/ MainSetFrameFails
  <2>1. fb[x][g] = "freed" /\ ~(~UseVcmd /\ x = s /\ g = f /\ MainSetFrame)
    BY <1>1, SetStep DEF MainSetFrame, Set, TypeInv, DataOK
  <2>2. ReleasedBy(x, g)
    BY <1>1, <1>a, <2>1 DEF MainSetFrame, MainSetFrameFails
  <2> QED
    BY <1>1, <2>2 DEF MainSetFrame, MainSetFrameFails
<1>2. CASE MainUndo
  <2>1. status = "FAILURE" /\ (fb[x][g] = "freed" \/ (x = s /\ g = f - 1))
    BY <1>2, ClearStep DEF MainUndo, Cleared, TypeInv, IndexInv
  <2> QED
    BY <1>2, <1>a, <2>1 DEF MainUndo
<1>3. CASE MainFinal
  <2>1. fb[x][g] = "freed" \/ (status = "FAILURE" /\ x = s /\ g = f) \/ x = s - 1
    BY <1>3, ClearStep DEF Cleared
  <2> QED
    BY <1>0, <1>3, <1>a, <2>1 DEF MainFinal
<1>4. CASE DumpClear \/ DumpLast
  <2>1. fb[x][g] = "freed" \/ (x = s /\ g = k - 1)
    BY <1>4, ClearStep DEF Cleared
  <2>2. mpc # "create" /\ UNCHANGED <<mainVars, k, published>>
    BY <1>4 DEF DumpClear, DumpLast, TypeInv, IndexInv
  <2> QED
    BY <1>0, <1>a, <2>1, <2>2
<1>5. CASE MainPublish
  <2>1. published'[x][g] = round => InUse(x, g)
    BY <1>5 DEF MainPublish, Set, TypeInv, DataOK
  <2>2. UNCHANGED <<fb, round, s, k, status>> /\ mpc' \notin {"create", "signal", "lock", "publish"}
        /\ status # "FAILURE"
    BY <1>5 DEF MainPublish, MainTop, TypeInv, IndexInv, Ending
  <2> QED
    BY <1>a, <2>1, <2>2
<1>6. CASE MainJoin
  <2>1. UNCHANGED <<fb, round, published>> /\ s' = s + 1 /\ status # "FAILURE"
        /\ mpc' \notin {"signal", "lock", "publish"}
    BY <1>6 DEF MainJoin, TypeInv, IndexInv, Ending
  <2> QED
    BY <1>0, <1>a, <2>1
<1>7. CASE MainCheck
  <2>1. UNCHANGED <<fb, published, f, k, status>> /\ mpc' \in {"create", "exit"}
        /\ (mpc' = "exit" => UNCHANGED <<round, s>>)
    BY <1>7 DEF MainCheck
  <2>2. mpc' = "create" => Recycle # 1 /\ round' = round + 1
    BY <1>0, <1>7 DEF MainCheck
  <2>3. published[x][g] <= round /\ published[x][g] \in Nat
    BY DEF RoundInv, TypeInv, DataOK
  <2> QED
    BY <1>0, <1>7, <1>a, <2>1, <2>2, <2>3 DEF MainCheck
<1>8. CASE MainCreate
  <2>1. UNCHANGED <<fb, round, published, s>> /\ mpc = "create" /\ status # "FAILURE"
        /\ mpc' \notin {"signal", "lock", "publish"}
    BY <1>8 DEF MainCreate, MainTop, TypeInv, IndexInv, Ending
  <2> QED
    BY <1>a, <2>1
<1>9. CASE MainPoll
  <2>1. Recycle = 1 /\ UNCHANGED <<fb, s, f, k, status>> /\ mpc # "create" /\ mpc' # "create"
    BY <1>9 DEF MainPoll, TypeInv, IndexInv
  <2> QED
    BY <1>a, <2>1
<1>10. ASSUME UNCHANGED <<fb, published, round, s, f, status>>, k' = k \/ k' = k + 1,
              mpc' = "create" => mpc = "create",
              mpc' \in {"signal", "lock", "publish"} => mpc \in {"signal", "lock", "publish"}
       PROVE  ReleasedBy(x, g)'
  BY <1>0, <1>10, <1>a
<1> QED
  BY <1>1, <1>2, <1>3, <1>4, <1>5, <1>6, <1>7, <1>8, <1>9, <1>10
  DEF Next, Main, Dump, Ltm, MainWaitSignal, MainLock, MainExit, MainFree, DumpOpen,
      DumpLock, DumpTest, DumpTimeOut, DumpQuery, DumpFrame, DumpFails, DumpReset, Die,
      LtmTest, LtmUpdate, SpuriousWake, LtmSpuriousWake, HwExecute, vars, mainVars,
      threadVars, ltmVars, frameVars, driverVars

LEMMA AheadInvStep ==
  TypeInv /\ RoundInv /\ TakenInv /\ FreedInv /\ AheadInv /\ [Next]_vars => AheadInv'
<1> SUFFICES ASSUME TypeInv, RoundInv, TakenInv, FreedInv, AheadInv, [Next]_vars,
                    Recycle = 1, mpc' # "create", status' = "SUCCESS", s' < NumStreams,
                    NEW g \in Frames, fb'[s'][g] = "freed"
             PROVE  g + 1 < f' \/ k' = NumFrames
  BY DEF AheadInv
<1>0. {g, s, f, k} \subseteq Nat
  BY Indices DEF Frames
<1>a. mpc # "create" /\ status = "SUCCESS" /\ s < NumStreams /\ fb[s][g] = "freed"
        => g + 1 < f \/ k = NumFrames
  BY DEF AheadInv
<1>b. s < NumStreams => s \in Streams
  BY <1>0, Sizes DEF Streams
<1> USE DEF mainVars, threadVars, ltmVars, frameVars, driverVars
<1>1. CASE MainSetFrame
  <2>1. fb[s][g] = "freed"
    BY <1>1, SetStep DEF MainSetFrame
  <2> QED
    BY <1>1, <1>a, <2>1 DEF MainSetFrame
<1>2. CASE MainSetFrameFails \/ MainUndo
  BY <1>2 DEF MainSetFrameFails, MainUndo, TypeInv, IndexInv
<1>3. CASE MainFinal
  BY <1>0, <1>3, Sizes DEF MainFinal, TypeInv, IndexInv, Ending
<1>4. CASE DumpClear \/ DumpLast
  <2>1. UNCHANGED <<mpc, status, s, f, k>> /\ s \in Streams /\ mpc # "create"
    BY <1>4, Indices DEF DumpClear, DumpLast, TypeInv, IndexInv
  <2>2. CASE fb[s][g] = "freed"
    BY <1>a, <2>1, <2>2
  <2>3. CASE fb[s][g] # "freed" /\ DumpClear
    <3>1. g = k - 1
      BY <2>1, <2>3, ClearStep DEF Cleared
    <3>2. k \in Frames /\ published[s][k] = round
      BY <2>3, Indices DEF DumpClear, TakenInv
    <3>3. k < f
      BY <1>0, <2>1, <3>2 DEF RoundInv
    <3> QED
      BY <1>0, <2>1, <3>1, <3>3
  <2>4. CASE DumpLast
    BY <2>1, <2>4 DEF DumpLast, TypeInv, IndexInv
  <2> QED
    BY <1>4, <2>2, <2>3, <2>4
<1>5. CASE MainPublish
  <2>1. UNCHANGED <<fb, s, k, status>> /\ mpc # "create" /\ f' = f + 1
    BY <1>5 DEF MainPublish
  <2> QED
    BY <1>0, <1>a, <2>1
<1>6. CASE MainCreate
  <2>1. ~ReleasedBy(s, g) /\ UNCHANGED <<fb, s>> /\ s \in Streams
    BY <1>0, <1>6, Indices DEF MainCreate, ReleasedBy, TypeInv, IndexInv, Ending
  <2> QED
    BY <2>1 DEF FreedInv
<1>7. CASE MainJoin \/ MainCheck
  BY <1>0, <1>7, Sizes DEF MainJoin, MainCheck, TypeInv, IndexInv
<1>8. CASE DumpReset \/ DumpTimeOut
  <2>1. UNCHANGED <<mpc, fb, s, f, status>> /\ k < NumFrames
    BY <1>8 DEF DumpReset, DumpTimeOut, TypeInv, IndexInv
  <2> QED
    BY <1>0, <1>a, <2>1
<1>9. ASSUME UNCHANGED <<fb, s, f, k, status>>, mpc' # "create" => mpc # "create"
      PROVE  g + 1 < f' \/ k' = NumFrames
  BY <1>9, <1>a
<1> QED
  BY <1>1, <1>2, <1>3, <1>4, <1>5, <1>6, <1>7, <1>8, <1>9
  DEF Next, Main, Dump, Ltm, MainPoll, MainWaitSignal, MainLock, MainExit, MainFree,
      DumpOpen, DumpLock, DumpTest, DumpQuery, DumpFrame, DumpFails, Die, LtmTest,
      LtmUpdate, SpuriousWake, LtmSpuriousWake, HwExecute, vars, mainVars, threadVars,
      ltmVars, frameVars, driverVars

LEMMA ExecInvStep == TypeInv /\ RoundInv /\ ExecInv /\ [Next]_vars => ExecInv'
<1> SUFFICES ASSUME TypeInv, RoundInv, ExecInv, [Next]_vars, ~UseVcmd, "wait" \notin Faults
             PROVE  ExecInv'
  BY DEF ExecInv
<1>0. /\ {s, f, round, executed} \subseteq Nat
      /\ \A x \in Streams, g \in Frames : seq[x][g] \in Nat
  BY Indices DEF TypeInv, CommitsOK
<1>a. /\ \A x \in Streams, g \in Frames : published[x][g] = round => seq[x][g] <= executed
      /\ mpc \in {"lock", "publish"} => seq[s][f] <= executed
  BY DEF ExecInv
<1>b. mpc \in Loop => s \in Streams /\ f \in Frames
  BY Indices
<1> USE DEF ExecInv, Loop, mainVars, threadVars, ltmVars, frameVars, driverVars
<1>1. CASE MainSetFrame
  <2>1. \A x \in Streams, g \in Frames : seq'[x][g] # seq[x][g] => x = s /\ g = f
    BY <1>1 DEF MainSetFrame, Set, TypeInv, CommitsOK
  <2>2. published[s][f] # round
    BY <1>0, <1>1, <1>b DEF MainSetFrame, RoundInv
  <2> QED
    BY <1>1, <1>a, <2>1, <2>2 DEF MainSetFrame
<1>2. CASE MainWaitSignal
  BY <1>2, <1>a DEF MainWaitSignal
<1>3. CASE MainPublish
  <2>1. \A x \in Streams, g \in Frames : published'[x][g] # published[x][g] => x = s /\ g = f
    BY <1>3 DEF MainPublish, Set, TypeInv, DataOK
  <2>2. seq[s][f] <= executed /\ mpc' \notin {"lock", "publish"} /\ UNCHANGED <<seq, executed, round>>
    BY <1>3, <1>a DEF MainPublish, MainTop
  <2> QED
    BY <1>a, <2>1, <2>2
<1>4. CASE MainCheck
  <2>1. \A x \in Streams, g \in Frames : published[x][g] <= round /\ published[x][g] \in Nat
    BY DEF RoundInv, TypeInv, DataOK
  <2> QED
    BY <1>0, <1>4, <1>a, <2>1 DEF MainCheck
<1>5. CASE HwExecute
  <2>1. UNCHANGED <<mpc, s, f, seq, published, round>> /\ executed' = executed + 1
    BY <1>5 DEF HwExecute
  <2>2. \A x \in Streams, g \in Frames : seq[x][g] <= executed => seq[x][g] <= executed + 1
    BY <1>0
  <2> QED
    BY <1>a, <1>b, <2>1, <2>2
<1>6. ASSUME UNCHANGED <<seq, published, round, executed>>,
             mpc' \in {"lock", "publish"} => mpc \in {"lock", "publish"} /\ UNCHANGED <<s, f>>
      PROVE  ExecInv'
  BY <1>6, <1>a
<1> QED
  BY <1>1, <1>2, <1>3, <1>4, <1>5, <1>6
  DEF Next, Main, Dump, Ltm, MainCreate, MainPoll, MainSetFrameFails, MainUndo, MainLock,
      MainJoin, MainExit, MainFinal, MainFree, DumpOpen, DumpLock, DumpTest, DumpTimeOut,
      DumpQuery, DumpFrame, DumpFails, DumpClear, DumpReset, DumpLast, Die, LtmTest,
      LtmUpdate, SpuriousWake, LtmSpuriousWake, MainTop, vars, mainVars, threadVars,
      ltmVars, frameVars, driverVars
-----------------------------------------------------------------------------
(* The theorems.                                                           *)

LEMMA IInvInit == Init => IInv
<1> SUFFICES ASSUME Init PROVE IInv
  OBVIOUS
<1>1. TypeInv
  BY TypeInvInit
<1>2. RoundInv
  BY DEF Init, Zero, RoundInv
<1>3. SkipInv /\ TakenInv
  BY DEF Init, SkipInv, CommitsAhead, EndsLast, ServedNow, TakenInv
<1>4. ResultInv
  BY DEF Init, ResultInv, Streams
<1>5. HeldInv
  BY DEF Init, Zero, HeldInv
<1>6. ReleasedInv
  BY DEF Init, ReleasedInv, StreamsReleased, ServedReleased, Streams
<1>7. FreedInv /\ AheadInv
  BY DEF Init, FreedInv, AheadInv
<1>8. ExecInv
  BY DEF Init, Zero, ExecInv
<1> QED
  BY <1>1, <1>2, <1>3, <1>4, <1>5, <1>6, <1>7, <1>8 DEF IInv

LEMMA IInvHolds == Spec => []IInv
<1>1. IInv /\ [Next]_vars => IInv'
  BY IndexInvStep, DataOKStep, CommitsOKStep, RoundInvStep, SkipInvStep, TakenInvStep, ResultInvStep,
     HeldInvStep, ReleasedInvStep, FreedInvStep, AheadInvStep, ExecInvStep
  DEF IInv, TypeInv
<1> QED
  BY <1>1, IInvInit, PTL DEF Spec

\* Every variable keeps its type, for any sizes, modes, bounds and faults.
THEOREM TypeCorrect == Spec => []TypeOK
<1>1. IInv => TypeOK
  BY DEF IInv, TypeInv, IndexInv, DataOK, CommitsOK, TypeOK, Loop, Ending
<1> QED
  BY <1>1, IInvHolds, PTL

\* In the only round, and in every round if no thread misses a frame, what the thread dumps
\* was published in that round.
THEOREM DumpsThisRound ==
  ASSUME Recycle = 1 \/ NoSkip
  PROVE  Spec => []DumpOfThisRound
<1>1. IInv => DumpOfThisRound
  BY DEF IInv, TakenInv, DumpOfThisRound
<1> QED
  BY <1>1, IInvHolds, PTL

\* Without command buffers, and if no wait for the write-back fails, a frame is dumped after
\* its commit is finished, even if the thread is late or a frame is skipped.
THEOREM DumpsFinished ==
  ASSUME ~UseVcmd, "wait" \notin Faults
  PROVE  Spec => []DumpAfterExecution
<1>1. IInv => DumpAfterExecution
  <2> SUFFICES ASSUME IInv, tpc = "dump", published[s][k] = round
               PROVE  seq[s][k] <= executed
    BY DEF DumpAfterExecution
  <2> QED
    BY Indices DEF IInv, ExecInv
<1> QED
  BY <1>1, IInvHolds, PTL

\* If no thread ends before its digest, a stream that passes passes with the digest of the
\* round that is reported.
THEOREM PassesOfRound ==
  ASSUME {"open", "dump"} \cap Faults = {}
  PROVE  Spec => []PassIsOfThisRound
<1>1. IInv => PassIsOfThisRound
  <2> SUFFICES ASSUME IInv, mpc = "check", NEW x \in Streams PROVE result[x].round = round
    BY DEF PassIsOfThisRound
  <2>1. x < s
    BY Sizes DEF IInv, TypeInv, IndexInv, Streams
  <2> QED
    BY <2>1 DEF IInv, ResultInv
<1> QED
  BY <1>1, IInvHolds, PTL

\* If no thread misses a frame, every frame of a stream is released when its thread is joined.
THEOREM ReleasesStreams ==
  ASSUME NoSkip
  PROVE  Spec => []StreamReleased
<1>1. IInv => StreamReleased
  BY DEF IInv, ReleasedInv, StreamsReleased, StreamReleased
<1> QED
  BY <1>1, IInvHolds, PTL

\* Whatever fails, the frames are freed under a dump thread only after a failure of main.
THEOREM FreesAfterThreads == Spec => []FreedUnderThread
<1>1. IInv => FreedUnderThread
  BY DEF IInv, TypeInv, IndexInv, Ending, FreedUnderThread
<1> QED
  BY <1>1, IInvHolds, PTL

\* In the only round whatever fails, and in every round without command buffers if no thread
\* misses a frame, the thread reads released buffers only where main has failed.
THEOREM ReadsHeldFrames ==
  ASSUME Recycle = 1 \/ (NoSkip /\ ~UseVcmd)
  PROVE  Spec => []ReadAfterReleaseOnlyAtFailure
<1>1. IInv => ReadAfterReleaseOnlyAtFailure
  <2> SUFFICES ASSUME IInv, tpc = "dump", fb[s][k] = "freed"
               PROVE  status = "FAILURE" /\ k \in {f - 1, f}
    BY DEF ReadAfterReleaseOnlyAtFailure
  <2>1. s \in Streams /\ k \in Frames /\ s \in Nat /\ k \in Nat
    BY Indices DEF IInv
  <2>2. published[s][k] = round
    BY DEF IInv, TakenInv
  <2>3. ReleasedBy(s, k)
    BY <2>1, <2>2 DEF IInv, FreedInv, InUse
  <2> QED
    BY <2>1, <2>3 DEF ReleasedBy
<1> QED
  BY <1>1, IInvHolds, PTL

\* In the only round, a frame is set with the buffers made for it, whatever fails, unless its
\* thread has already gone through the stream.
THEOREM SetsHeldFrames ==
  ASSUME Recycle = 1
  PROVE  Spec => []SetWithBuffers
<1>1. IInv => SetWithBuffers
  <2> SUFFICES ASSUME IInv, mpc = "set", UseVcmd, k < NumFrames PROVE fb[s][f] = "live"
    BY DEF SetWithBuffers
  <2>1. s \in Streams /\ f \in Frames /\ f \in Nat /\ k \in Nat /\ s < NumStreams /\ status = "SUCCESS"
    BY Indices DEF IInv, TypeInv, IndexInv, Loop, Ending
  <2>2. fb[s][f] # "none" /\ fb[s][f] \in {"none", "live", "freed"}
    BY <2>1 DEF IInv, HeldInv, TypeInv, DataOK
  <2>3. fb[s][f] # "freed"
    BY <2>1, Sizes DEF IInv, AheadInv
  <2> QED
    BY <2>2, <2>3
<1> QED
  BY <1>1, IInvHolds, PTL
-----------------------------------------------------------------------------
(* The mutex and the condition variable.                                   *)

\* Who has the mutex, and where the thread sleeps; the frames the thread is still to take
\* keep the commit of this round.
WaitInv ==
  /\ asleep => tpc = "wait"
  /\ mpc = "publish" => lock = "main"
  /\ lock = "main" => mpc = "publish"
  /\ tpc = "test" => lock = "dump"
  /\ lock = "dump" => tpc = "test" \/ cancelled
  /\ mpc = "join" => f = NumFrames
CommitsKept ==
  mpc # "create" /\ tpc # "none" => \A g \in Frames : k <= g /\ g < f => commit_done[s][g]
SyncInv == WaitInv /\ CommitsKept /\ NoLostWakeup

LEMMA WaitInvStep == TypeInv /\ WaitInv /\ [Next]_vars => WaitInv'
<1> SUFFICES ASSUME TypeInv, WaitInv, [Next]_vars PROVE WaitInv'
  OBVIOUS
<1> USE DEF WaitInv, mainVars, threadVars, ltmVars, frameVars, driverVars
<1>1. CASE MainCreate \/ MainPoll \/ MainSetFrame \/ MainSetFrameFails \/ MainUndo \/ MainWaitSignal
           \/ MainLock
  BY <1>1 DEF MainCreate, MainPoll, MainSetFrame, MainSetFrameFails, MainUndo, MainWaitSignal, MainLock,
              MainTop, TypeInv, IndexInv, Ending, Loop
<1>2. CASE MainPublish
  BY <1>2 DEF MainPublish, MainTop
<1>3. CASE MainJoin \/ MainCheck \/ MainExit \/ MainFinal \/ MainFree
  BY <1>3 DEF MainJoin, MainCheck, MainExit, MainFinal, MainFree, TypeInv, IndexInv, Ending, Loop
<1>4. CASE DumpOpen \/ DumpLock \/ DumpTest \/ DumpTimeOut \/ DumpQuery \/ DumpFrame
  BY <1>4 DEF DumpOpen, DumpLock, DumpTest, DumpTimeOut, DumpQuery, DumpFrame, AfterWait, LoopTop
<1>5. CASE DumpFails \/ DumpClear \/ DumpReset \/ DumpLast
  <2>1. UNCHANGED <<mpc, f, lock, asleep, cancelled>> /\ tpc \notin {"wait", "test"}
    BY <1>5 DEF DumpFails, DumpClear, DumpReset, DumpLast
  <2>2. tpc' \notin {"wait", "test"}
    BY <1>5 DEF DumpFails, DumpClear, DumpReset, DumpLast, LoopTop
  <2> QED
    BY <2>1, <2>2
<1>6. CASE Die
  <2>1. cancelled' /\ tpc' = "done" /\ ~asleep' /\ UNCHANGED <<mpc, f>>
    BY <1>6 DEF Die
  <2>2. UNCHANGED lock \/ (lock = "none" /\ lock' = "dump")
    BY <1>6 DEF Die
  <2> QED
    BY <2>1, <2>2
<1>7. CASE LtmTest \/ LtmUpdate \/ SpuriousWake \/ LtmSpuriousWake \/ HwExecute \/ UNCHANGED vars
  BY <1>7 DEF LtmTest, LtmUpdate, SpuriousWake, LtmSpuriousWake, HwExecute, vars
<1> QED
  BY <1>1, <1>2, <1>3, <1>4, <1>5, <1>6, <1>7 DEF Next, Main, Dump, Ltm

LEMMA CommitsKeptStep == TypeInv /\ CommitsKept /\ [Next]_vars => CommitsKept'
<1> SUFFICES ASSUME TypeInv, CommitsKept, [Next]_vars PROVE CommitsKept'
  OBVIOUS
<1>0. /\ {s, f, k} \subseteq Nat /\ (tpc # "none" => s \in Streams)
      /\ commit_done \in [Streams -> [Frames -> BOOLEAN]]
      /\ \A g \in Frames : g \in Nat
  BY Indices DEF TypeInv, DataOK, Frames
<1> USE DEF CommitsKept, mainVars, threadVars, ltmVars, frameVars, driverVars
\* The frames the thread is still to take are the same or fewer, and so are their commits.
<1>1. ASSUME UNCHANGED <<s, f, commit_done>>, k' = k \/ k' = k + 1,
             tpc' # "none" => tpc # "none", mpc' # "create" => mpc # "create"
      PROVE  CommitsKept'
  BY <1>0, <1>1
<1>2. CASE MainCreate
  BY <1>0, <1>2 DEF MainCreate
<1>3. CASE MainPublish
  <2>1. /\ UNCHANGED <<s, k, tpc>> /\ f' = f + 1 /\ mpc # "create"
        /\ commit_done' = Set(commit_done, s, f, TRUE)
    BY <1>3 DEF MainPublish
  <2>2. ASSUME tpc # "none", NEW g \in Frames, k <= g, g < f + 1 PROVE commit_done'[s][g]
    <3>1. commit_done'[s][g] = IF g = f THEN TRUE ELSE commit_done[s][g]
      BY <1>0, <2>1, <2>2 DEF Set
    <3>2. g = f \/ g < f
      BY <1>0, <2>2
    <3>3. g < f => commit_done[s][g]
      BY <2>1, <2>2
    <3> QED
      BY <3>1, <3>2, <3>3
  <2> QED
    BY <2>1, <2>2
<1>4. CASE DumpReset
  <2>1. UNCHANGED <<s, f, mpc>> /\ k' = k + 1 /\ tpc # "none"
        /\ commit_done' = Set(commit_done, s, k, FALSE)
    BY <1>4 DEF DumpReset
  <2>2. \A g \in Frames : g # k => commit_done'[s][g] = commit_done[s][g]
    BY <1>0, <2>1 DEF Set
  <2>3. \A g \in Frames : k + 1 <= g => k <= g /\ g # k
    BY <1>0
  <2> QED
    BY <2>1, <2>2, <2>3
<1>5. CASE MainJoin \/ MainCheck
  BY <1>5 DEF MainJoin, MainCheck, TypeInv, IndexInv
<1>6. CASE MainPoll \/ MainSetFrame \/ MainSetFrameFails \/ MainUndo \/ MainWaitSignal \/ MainLock
           \/ MainExit \/ MainFinal \/ MainFree
  BY <1>1, <1>6 DEF MainPoll, MainSetFrame, MainSetFrameFails, MainUndo, MainWaitSignal, MainLock,
                    MainExit, MainFinal, MainFree, MainTop
<1>7. CASE DumpOpen \/ DumpLock \/ DumpTest \/ DumpTimeOut \/ DumpQuery \/ DumpFrame \/ DumpFails
           \/ DumpClear \/ DumpLast \/ Die
  BY <1>1, <1>7 DEF DumpOpen, DumpLock, DumpTest, DumpTimeOut, DumpQuery, DumpFrame, DumpFails,
                    DumpClear, DumpLast, Die
<1>8. CASE LtmTest \/ LtmUpdate \/ SpuriousWake \/ LtmSpuriousWake \/ HwExecute \/ UNCHANGED vars
  BY <1>1, <1>8 DEF LtmTest, LtmUpdate, SpuriousWake, LtmSpuriousWake, HwExecute, vars
<1> QED
  BY <1>2, <1>3, <1>4, <1>5, <1>6, <1>7, <1>8 DEF Next, Main, Dump, Ltm

LEMMA NoLostWakeupStep == TypeInv /\ WaitInv /\ NoLostWakeup /\ [Next]_vars => NoLostWakeup'
<1> SUFFICES ASSUME TypeInv, WaitInv, NoLostWakeup, [Next]_vars, asleep'
             PROVE  ~commit_done'[s'][k']
  BY DEF NoLostWakeup
<1>1. CASE DumpTest
  BY <1>1 DEF DumpTest, NoLostWakeup, mainVars, threadVars, frameVars
<1>2. ASSUME asleep, UNCHANGED <<commit_done, s, k>> PROVE ~commit_done'[s'][k']
  BY <1>2 DEF NoLostWakeup
<1>3. asleep => tpc = "wait" /\ mpc \notin {"create", "check"}
  BY DEF WaitInv, TypeInv, IndexInv
<1> QED
  BY <1>1, <1>2, <1>3
  DEF Next, Main, Dump, Ltm, MainCreate, MainPoll, MainSetFrame, MainSetFrameFails, MainUndo,
      MainWaitSignal, MainLock, MainPublish, MainJoin, MainCheck, MainExit, MainFinal, MainFree,
      DumpOpen, DumpLock, DumpTimeOut, DumpQuery, DumpFrame, DumpFails, DumpClear, DumpReset, DumpLast,
      Die, LtmTest, LtmUpdate, SpuriousWake, LtmSpuriousWake, HwExecute,
      vars, mainVars, threadVars, ltmVars, frameVars, driverVars

LEMMA SyncInvHolds == Spec => []SyncInv
<1>1. Init => SyncInv
  BY DEF Init, SyncInv, WaitInv, CommitsKept, NoLostWakeup
<1>2. IInv /\ SyncInv /\ [Next]_vars => SyncInv'
  BY WaitInvStep, CommitsKeptStep, NoLostWakeupStep DEF IInv, SyncInv
<1> QED
  BY <1>1, <1>2, IInvHolds, PTL DEF Spec

\* Whatever fails and in every round, the thread sees commit_done before it sleeps or the
\* signal reaches it.
THEOREM WakesThread == Spec => []NoLostWakeup
  BY SyncInvHolds, PTL DEF SyncInv

\* main's pthread_join waits for a thread that can go on, whatever fails.
THEOREM JoinsRunningThread == Spec => []JoinReturns
<1>1. IInv /\ SyncInv => JoinReturns
  <2> SUFFICES ASSUME IInv, SyncInv, mpc = "join"
               PROVE  ~asleep /\ (tpc \in {"lock", "wait"} => lock = "none")
    BY DEF JoinReturns
  <2>1. ~cancelled /\ f = NumFrames /\ tpc # "none"
    BY DEF IInv, TypeInv, IndexInv, Ending, SyncInv, WaitInv
  <2>2. asleep => k \in Frames /\ k \in Nat /\ k < NumFrames
    BY <2>1, Indices, Sizes DEF SyncInv, WaitInv, IInv, Frames
  <2>3. ~asleep
    BY <2>1, <2>2 DEF SyncInv, CommitsKept, NoLostWakeup
  <2>4. tpc \in {"lock", "wait"} => lock = "none"
    BY <2>1 DEF SyncInv, WaitInv, IInv, TypeInv, DataOK
  <2> QED
    BY <2>3, <2>4
<1> QED
  BY <1>1, SyncInvHolds, IInvHolds, PTL
-----------------------------------------------------------------------------
(* The run implements StreamOrder.                                         *)

LEMMA OrderInit == Init => Order!Init
  BY DEF Init, Order!Init, Order!Streams, Streams

LEMMA OrderStep ==
  ASSUME NoSkip
  PROVE  IInv /\ [Next]_vars => [Order!Next]_(Order!vars)
<1> SUFFICES ASSUME IInv, [Next]_vars PROVE Order!Next \/ UNCHANGED Order!vars
  OBVIOUS
<1> DEFINE next == IF tpc \in {"clear", "reset"} THEN k + 1 ELSE k
           consumer == CASE tpc = "none" -> "none" [] tpc = "done" -> "over" [] OTHER -> "busy"
           digest == [x \in Streams |-> result[x].round]
<1>0. /\ IndexInv /\ {s, f, k} \subseteq Nat
      /\ result \in [Streams -> [match : BOOLEAN, round : 0 .. Recycle]]
      /\ \A x \in Streams : x \in Nat /\ x < NumStreams
  <2>1. IndexInv /\ {s, f, k} \subseteq Nat
    <3>1. TypeInv
      BY DEF IInv
    <3> QED
      BY <3>1, Indices DEF TypeInv
  <2>2. result \in [Streams -> [match : BOOLEAN, round : 0 .. Recycle]]
    BY DEF IInv, TypeInv, DataOK
  <2>3. \A x \in Streams : x \in Nat /\ x < NumStreams
    BY Sizes DEF Streams
  <2> QED
    BY <2>1, <2>2, <2>3
<1>a. NoSkip /\ {"open", "dump"} \cap Faults = {}
  BY DEF NoSkip
<1> USE DEF mainVars, threadVars, ltmVars, frameVars, driverVars
\* The steps of the order.
<1>1. CASE MainCreate
  <2>1. consumer = "none" /\ consumer' = "busy" /\ s < NumStreams
    BY <1>0, <1>1 DEF MainCreate, IndexInv
  <2>2. f' = 0 /\ next' = 0 /\ UNCHANGED <<round, s, digest>>
    BY <1>1 DEF MainCreate
  <2>3. Order!Start
    BY <2>1, <2>2 DEF Order!Start
  <2> QED
    BY <2>3 DEF Order!Next
<1>2. CASE MainPublish
  <2>1. tpc \notin {"none"} /\ f < NumFrames
    BY <1>0, <1>2 DEF MainPublish, IndexInv, Loop
  <2>2. tpc # "done"
    <3>1. ~cancelled
      BY <1>0, <1>2 DEF MainPublish, IndexInv, Ending
    <3>2. k <= f
      BY <1>2, <1>a, Behind DEF MainPublish, Loop, IInv
    <3> QED
      BY <1>0, <1>a, <2>1, <3>1, <3>2, Sizes DEF IInv, SkipInv, EndsLast
  <2>3. consumer = "busy" /\ f' = f + 1 /\ UNCHANGED <<round, s, next, consumer, digest>>
    BY <1>2, <2>1, <2>2 DEF MainPublish
  <2>4. Order!Publish
    BY <2>1, <2>3 DEF Order!Publish
  <2> QED
    BY <2>4 DEF Order!Next
<1>3. CASE DumpFrame
  <2>1. s \in Streams /\ k \in Frames /\ published[s][k] = round
    BY <1>3, <1>a, Indices DEF DumpFrame, IInv, TakenInv
  <2>2. k < f
    BY <1>0, <2>1 DEF IInv, RoundInv
  <2>3. consumer = "busy" /\ next = k /\ next' = k + 1
    BY <1>3 DEF DumpFrame
  <2>4. UNCHANGED <<round, s, f, consumer, digest>>
    BY <1>3 DEF DumpFrame
  <2>5. Order!Dump
    BY <2>2, <2>3, <2>4 DEF Order!Dump
  <2> QED
    BY <2>5 DEF Order!Next
<1>4. CASE DumpLast
  <2>1. consumer = "busy" /\ next = NumFrames /\ consumer' = "over" /\ UNCHANGED <<round, s, f, next>>
    BY <1>0, <1>4 DEF DumpLast, IndexInv
  <2>2. digest' = [digest EXCEPT ![s] = round]
    <3>1. PICK m \in BOOLEAN : result' = [result EXCEPT ![s] = [match |-> m, round |-> round]]
      BY <1>4 DEF DumpLast
    <3>2. \A x \in Streams : result'[x].round = IF x = s THEN round ELSE result[x].round
      BY <1>0, <3>1
    <3> QED
      BY <3>2
  <2>3. Order!Finish
    BY <2>1, <2>2 DEF Order!Finish
  <2> QED
    BY <2>3 DEF Order!Next
<1>5. CASE Die
  <2>1. consumer = "busy" /\ consumer' = "over" /\ UNCHANGED <<round, s, f, next, digest>>
    BY <1>5 DEF Die
  <2>2. f < NumFrames
    BY <1>0, <1>5 DEF Die, IndexInv
  <2>3. Order!Stop
    BY <2>1, <2>2 DEF Order!Stop
  <2> QED
    BY <2>3 DEF Order!Next
<1>6. CASE MainJoin
  <2>1. consumer = "over" /\ consumer' = "none" /\ s' = s + 1 /\ UNCHANGED <<round, f, next, digest>>
    BY <1>6 DEF MainJoin
  <2>2. s \in Streams /\ result[s].round = round
    BY <1>0, <1>6, <1>a, Indices DEF MainJoin, IInv, IndexInv, Ending, ResultInv
  <2>3. Order!Join
    BY <2>1, <2>2 DEF Order!Join
  <2> QED
    BY <2>3 DEF Order!Next
<1>7. CASE MainCheck
  <2>1. CASE round < Recycle
    <3>1. consumer = "none" /\ s = NumStreams
      BY <1>0, <1>7 DEF MainCheck, IndexInv
    <3>2. \A x \in Streams : digest[x] = round
      BY <1>0, <1>a, <3>1 DEF IInv, ResultInv
    <3>3. round' = round + 1 /\ s' = 0 /\ UNCHANGED <<f, next, consumer, digest>>
      BY <1>7, <2>1 DEF MainCheck
    <3>4. Order!Check
      BY <2>1, <3>1, <3>2, <3>3 DEF Order!Check, Order!Streams, Streams
    <3> QED
      BY <3>4 DEF Order!Next
  <2>2. CASE ~(round < Recycle)
    BY <1>7, <2>2 DEF MainCheck, Order!vars
  <2> QED
    BY <2>1, <2>2
\* All the others stutter.
<1>8. CASE DumpReset
  <2>1. tpc \notin {"none", "done"} /\ tpc' \notin {"none", "done", "clear", "reset"} /\ k' = k + 1
    BY <1>8 DEF DumpReset, LoopTop
  <2>2. next' = next /\ consumer' = consumer
    BY <1>8, <2>1 DEF DumpReset
  <2>3. UNCHANGED <<round, s, f, digest>>
    BY <1>8 DEF DumpReset
  <2> QED
    BY <2>2, <2>3 DEF Order!vars
<1>9. ASSUME UNCHANGED <<round, s, f, k, tpc, result>> PROVE UNCHANGED Order!vars
  BY <1>9 DEF Order!vars
<1>10. CASE MainPoll \/ MainSetFrame \/ MainSetFrameFails \/ MainUndo \/ MainWaitSignal \/ MainLock
            \/ MainExit \/ MainFinal \/ MainFree
  BY <1>9, <1>10 DEF MainPoll, MainSetFrame, MainSetFrameFails, MainUndo, MainWaitSignal, MainLock,
                     MainExit, MainFinal, MainFree
<1>11. CASE LtmTest \/ LtmUpdate \/ SpuriousWake \/ LtmSpuriousWake \/ HwExecute \/ UNCHANGED vars
  BY <1>9, <1>11 DEF LtmTest, LtmUpdate, SpuriousWake, LtmSpuriousWake, HwExecute, vars
<1>12. CASE DumpOpen \/ DumpLock \/ DumpTest \/ DumpTimeOut \/ DumpQuery \/ DumpFails \/ DumpClear
  <2>1. UNCHANGED <<round, s, f, k, result>>
    BY <1>12, <1>a DEF DumpOpen, DumpLock, DumpTest, DumpTimeOut, DumpQuery, DumpFails, DumpClear, NoSkip
  <2>2. /\ {tpc, tpc'} \cap {"none", "done"} = {}
        /\ tpc \in {"clear", "reset"} <=> tpc' \in {"clear", "reset"}
    BY <1>12, <1>a DEF DumpOpen, DumpLock, DumpTest, DumpTimeOut, DumpQuery, DumpFails, DumpClear, AfterWait,
                       NoSkip
  <2>3. next' = next /\ consumer' = consumer /\ digest' = digest
    BY <2>1, <2>2
  <2> QED
    BY <2>1, <2>3 DEF Order!vars
<1> QED
  BY <1>1, <1>2, <1>3, <1>4, <1>5, <1>6, <1>7, <1>8, <1>9, <1>10, <1>11, <1>12 DEF Next, Main, Dump, Ltm

\* If no thread misses a frame, a run of any size is one of StreamOrder: rounds, streams and
\* frames in order, each stream left with the digest of its round, also if a frame cannot be
\* set or a thread is woken up for nothing.
THEOREM ImplementsOrder ==
  ASSUME NoSkip
  PROVE  Spec => ImplementsStreamOrder
<1>1. Spec => Order!Init /\ [][Order!Next]_(Order!vars)
  BY OrderInit, OrderStep, IInvHolds, PTL DEF Spec
<1> QED
  BY <1>1 DEF ImplementsStreamOrder, Order!Spec
=============================================================================
