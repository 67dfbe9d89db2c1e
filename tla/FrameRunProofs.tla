--------------------------- MODULE FrameRunProofs ---------------------------
(***************************************************************************)
(* Proofs about FrameRun, for every number of frames, both modes and every *)
(* choice of faults.                                                       *)
(***************************************************************************)
EXTENDS FrameRun, FiniteSetTheorems, TLAPS

\* While a thread is working on a frame, its loop counter is the number of one.
IndexInv ==
  /\ pc["main"] \in {"poll", "set", "undo", "signal", "lock", "publish"} => i["main"] < Num
  /\ pc["main"] = "undo" => i["main"] > 0
  /\ pc["dump"] \in {"open", "lock", "test", "wait", "query", "dump", "clear", "done"}
  /\ pc["dump"] # "done" => i["dump"] < Num
  /\ pc["dump"] = "clear" => i["dump"] > 0
  /\ pc["ltm"] \in {"find", "lock", "test", "wait", "update", "apply", "done"}
  /\ pc["ltm"] = "find" => i["ltm"] = 0
  /\ pc["ltm"] \notin {"find", "done"} => i["ltm"] < Num - 1

TypeInv == TypeOK /\ IndexInv

LEMMA TypeInvInit == Init => TypeInv
  BY NumAssumption, ModeAssumption
  DEF Init, TypeInv, TypeOK, IndexInv, Threads, Waiters, Frames, MainPcs, WaiterPcs, MainTop

\* A waiting thread that ends an iteration is at the next frame, or done.
LEMMA NextFrameType ==
  ASSUME TypeInv, NEW t \in Waiters, pc[t] \notin {"find", "done"}, NextFrame(t)
  PROVE  /\ i' \in [Threads -> 0 .. Num] /\ pc' \in [Threads -> MainPcs \cup WaiterPcs]
         /\ pc'["main"] \in MainPcs /\ \A u \in Waiters : pc'[u] \in WaiterPcs
         /\ IndexInv'
<1> USE NumAssumption DEF TypeInv, TypeOK, Threads, Waiters, MainPcs, WaiterPcs
<1>1. /\ i[t] + 1 \in 0 .. Num
      /\ LoopTop(t, i[t] + 1) \in {"lock", "done"}
      /\ LoopTop(t, i[t] + 1) = "lock" => i[t] + 1 < (IF t = "ltm" THEN Num - 1 ELSE Num)
  BY DEF IndexInv, LoopTop, Served
<1>2. i' = [i EXCEPT ![t] = i[t] + 1] /\ pc' = [pc EXCEPT ![t] = LoopTop(t, i[t] + 1)]
  BY DEF NextFrame, Goto
<1>3. i' \in [Threads -> 0 .. Num] /\ pc' \in [Threads -> MainPcs \cup WaiterPcs]
  BY <1>1, <1>2
<1>4. pc'["main"] \in MainPcs /\ \A u \in Waiters : pc'[u] \in WaiterPcs
  BY <1>1, <1>2
<1>5. IndexInv'
  BY <1>1, <1>2 DEF IndexInv
<1> QED
  BY <1>3, <1>4, <1>5

LEMMA TypeInvStep == TypeInv /\ [Next]_vars => TypeInv'
<1> SUFFICES ASSUME TypeInv, [Next]_vars PROVE TypeInv'
  OBVIOUS
<1> USE NumAssumption, BoundAssumption, ModeAssumption
    DEF TypeInv, TypeOK, IndexInv, Threads, Waiters, Frames, MainPcs, WaiterPcs, Goto
<1>1. CASE MainPoll
  <2>1. query_num' \in [{"main", "dump"} -> Nat]
    BY <1>1 DEF MainPoll
  <2>2. /\ pc["main"] = "poll" /\ UNCHANGED <<i, status, commit_done, lock, waiting, cancelled, fb,
                                             chained, executed, dumped, updated>>
        /\ \/ UNCHANGED pc
           \/ \E l \in {"set", "signal"} : pc' = [pc EXCEPT !["main"] = l]
    BY <1>1 DEF MainPoll
  <2>3. TypeOK'
    BY <2>1, <2>2
  <2>4. IndexInv'
    BY <2>2
  <2> QED
    BY <2>3, <2>4
<1>2. CASE MainSetFrame
  <2>1. i["main"] \in Frames
    BY <1>2 DEF MainSetFrame
  <2>2. chained' \subseteq Frames /\ executed' \subseteq chained'
    BY <1>2, <2>1 DEF MainSetFrame
  <2>3. pc' = [pc EXCEPT !["main"] = "signal"] /\ fb' \in [Frames -> {"none", "live", "freed"}]
    BY <1>2, <2>1 DEF MainSetFrame
  <2> QED
    BY <1>2, <2>2, <2>3 DEF MainSetFrame
<1>3. CASE MainSetFrameFails
  <2>1. /\ pc' = [pc EXCEPT !["main"] = IF i["main"] > 0 THEN "undo" ELSE "exit"]
        /\ pc["main"] = "set" /\ status' = "FAILURE"
    BY <1>3 DEF MainSetFrameFails
  <2>2. fb' \in [Frames -> {"none", "live", "freed"}]
    BY <1>3 DEF MainSetFrameFails
  <2>3. TypeOK'
    BY <1>3, <2>1, <2>2 DEF MainSetFrameFails
  <2>4. IndexInv'
    BY <1>3, <2>1 DEF MainSetFrameFails
  <2> QED
    BY <2>3, <2>4
<1>4. CASE MainUndo
  BY <1>4 DEF MainUndo, ClearFrameFB
<1>5. CASE MainWaitSignal
  BY <1>5 DEF MainWaitSignal
<1>6. CASE MainLock
  BY <1>6 DEF MainLock
<1>7. CASE MainPublish
  <2>1. i["main"] \in Frames /\ i' = [i EXCEPT !["main"] = @ + 1]
    BY <1>7 DEF MainPublish
  <2>2. commit_done' \in [Frames -> BOOLEAN] /\ waiting' \subseteq Waiters
    <3>1. commit_done' \in [Frames -> BOOLEAN]
      BY <1>7, <2>1 DEF MainPublish
    <3>2. waiting' \subseteq Waiters
      BY <1>7 DEF MainPublish
    <3> QED
      BY <3>1, <3>2
  <2>3. MainTop(i["main"] + 1) \in {"exit", "poll", "set"}
        /\ (i["main"] + 1 = Num => MainTop(i["main"] + 1) = "exit")
    BY DEF MainTop
  <2>4. pc' = [pc EXCEPT !["main"] = MainTop(i["main"] + 1)]
    BY <1>7 DEF MainPublish
  <2>5. TypeOK'
    BY <1>7, <2>1, <2>2, <2>3, <2>4 DEF MainPublish
  <2>6. IndexInv'
    BY <2>1, <2>3, <2>4
  <2> QED
    BY <2>5, <2>6
<1>8. CASE MainCancelDump
  <2>1. cancelled' \subseteq Waiters
    BY <1>8 DEF MainCancelDump
  <2>2. \/ pc' = [pc EXCEPT !["main"] = "cancel_ltm"]
        \/ pc' = [pc EXCEPT !["main"] = "join_dump"]
    BY <1>8 DEF MainCancelDump
  <2> QED
    BY <1>8, <2>1, <2>2 DEF MainCancelDump
<1>9. CASE MainCancelLtm
  BY <1>9 DEF MainCancelLtm
<1>10. CASE MainJoinDump
  BY <1>10 DEF MainJoinDump
<1>11. CASE MainJoinLtm
  BY <1>11 DEF MainJoinLtm
<1>12. CASE MainFinal
  BY <1>12 DEF MainFinal, ClearFrameFB
<1>13. CASE DumpOpen
  BY <1>13 DEF DumpOpen
<1>14. CASE DumpQuery
  <2>1. CASE Goto("dump", "dump") /\ UNCHANGED query_num
    BY <1>14, <2>1 DEF DumpQuery
  <2>2. CASE query_num' = [query_num EXCEPT !["dump"] = @ + 1] /\ UNCHANGED pc
    <3>1. query_num' \in [{"main", "dump"} -> Nat]
      BY <2>2
    <3>2. UNCHANGED <<i, status, commit_done, lock, waiting, cancelled, fb, chained, executed,
                      dumped, updated>>
      BY <1>14 DEF DumpQuery
    <3>3. TypeOK'
      BY <2>2, <3>1, <3>2
    <3>4. IndexInv'
      BY <2>2, <3>2
    <3> QED
      BY <3>3, <3>4
  <2> QED
    BY <1>14, <2>1, <2>2 DEF DumpQuery
<1>15. CASE DumpFrame
  <2>0. i["dump"] \in Frames /\ dumped' = dumped \cup {i["dump"]}
    BY <1>15 DEF DumpFrame
  <2>1. dumped' \subseteq Frames /\ query_num' \in [{"main", "dump"} -> Nat]
    BY <1>15, <2>0 DEF DumpFrame
  <2>2. CASE i["dump"] > 0
    BY <1>15, <2>1, <2>2 DEF DumpFrame
  <2>3. CASE ~(i["dump"] > 0)
    <3>1. NextFrame("dump") /\ pc["dump"] = "dump"
      BY <1>15, <2>3 DEF DumpFrame
    <3> QED
      BY <1>15, <2>1, <3>1, NextFrameType DEF DumpFrame
  <2> QED
    BY <2>2, <2>3
<1>16. CASE DumpFails
  BY <1>16 DEF DumpFails
<1>17. CASE DumpClear
  <2>1. fb' \in [Frames -> {"none", "live", "freed"}]
    BY <1>17 DEF DumpClear, ClearFrameFB
  <2>2. NextFrame("dump") /\ pc["dump"] = "clear"
    BY <1>17 DEF DumpClear
  <2> QED
    BY <1>17, <2>1, <2>2, NextFrameType DEF DumpClear
<1>18. CASE LtmFind
  BY <1>18 DEF LtmFind, LoopTop, Served
<1>19. CASE LtmQuery
  <2>1. CASE Goto("ltm", "apply") /\ UNCHANGED i
    BY <1>19, <2>1 DEF LtmQuery
  <2>2. CASE NextFrame("ltm")
    BY <1>19, <2>2, NextFrameType DEF LtmQuery
  <2> QED
    BY <1>19, <2>1, <2>2 DEF LtmQuery
<1>20. CASE LtmApply
  <2>0. i["ltm"] + 2 \in Nat
    OBVIOUS
  <2>1. updated' \subseteq Nat
    BY <1>20, <2>0 DEF LtmApply
  <2>2. NextFrame("ltm") /\ pc["ltm"] = "apply"
    BY <1>20 DEF LtmApply
  <2> QED
    BY <1>20, <2>1, <2>2, NextFrameType DEF LtmApply
<1>21. CASE HwExecute
  BY <1>21 DEF HwExecute
<1>22. ASSUME NEW t \in Waiters, Waiter(t) \/ SpuriousWake(t)
       PROVE  TypeInv'
  <2>1. CASE WaitLock(t)
    BY <2>1 DEF WaitLock
  <2>2. CASE WaitTest(t)
    BY <2>2 DEF WaitTest, AfterWait
  <2>3. CASE WaitReturn(t)
    BY <2>3 DEF WaitReturn
  <2>4. CASE WaitTimeOut(t)
    BY <2>4 DEF WaitTimeOut, NextFrame, LoopTop, Served
  <2>5. CASE Die(t)
    <3>1. lock' \in Threads \cup {"none"} /\ waiting' \subseteq Waiters
      BY <2>5 DEF Die
    <3>2. pc' = [pc EXCEPT ![t] = "done"]
      BY <2>5 DEF Die
    <3> QED
      BY <2>5, <3>1, <3>2 DEF Die
  <2>6. CASE SpuriousWake(t)
    BY <2>6 DEF SpuriousWake
  <2> QED
    BY <1>22, <2>1, <2>2, <2>3, <2>4, <2>5, <2>6 DEF Waiter
<1>23. CASE UNCHANGED vars
  BY <1>23 DEF vars
<1> QED
  BY <1>1, <1>2, <1>3, <1>4, <1>5, <1>6, <1>7, <1>8, <1>9, <1>10, <1>11, <1>12, <1>13,
     <1>14, <1>15, <1>16, <1>17, <1>18, <1>19, <1>20, <1>21, <1>22, <1>23
  DEF Next, Main, Dump, Ltm

\* Every variable keeps its type, for any number of frames.
THEOREM TypeCorrect == Spec => []TypeOK
<1>1. Spec => []TypeInv
  BY TypeInvInit, TypeInvStep, PTL DEF Spec
<1> QED
  BY <1>1, PTL DEF TypeInv
-----------------------------------------------------------------------------
(* What the threads know of each other.                                    *)

\* main has left its loop: with success only after the last frame
Ending == {"exit", "cancel_ltm", "join_dump", "join_ltm", "final", "end"}

MainInv ==
  /\ pc["main"] = "undo" => status = "FAILURE"
  /\ status = "FAILURE" => pc["main"] \in Ending \cup {"undo"} /\ i["main"] < Num
  /\ status = "SUCCESS" /\ pc["main"] \in Ending => i["main"] = Num
  /\ pc["main"] \in {"join_ltm", "final", "end"} => pc["dump"] = "done"

\* Committed are the frames before main's, and the dump thread is behind main
\* once it is past its wait.
CommitInv ==
  /\ \A f \in Frames : commit_done[f] <=> f < i["main"]
  /\ pc["dump"] \in {"query", "dump", "clear"} => i["dump"] < i["main"]

\* Who has released a frame: the dump thread, which is two frames on and behind
\* main, main in "undo", or main at the end.
ReleaseInv ==
  \A f \in Frames : fb[f] = "freed" =>
    \/ f + 1 < i["dump"] /\ f + 1 < i["main"]
    \/ status = "FAILURE" /\ f = i["main"] - 1
    \/ pc["main"] = "end"

\* A frame has buffers from the moment it is set, and loses them when the next
\* frame has been dumped, or at the end.
HeldInv ==
  /\ pc["main"] = "poll" => UseVcmd
  /\ UseVcmd => \A f \in Frames : fb[f] # "none"
  /\ \A f \in Frames : f < i["main"] => fb[f] # "none"
  /\ pc["main"] \in {"signal", "lock", "publish"} => fb[i["main"]] # "none"
  /\ \A f \in dumped : f < i["main"]
  /\ \A f \in Frames : f + 1 \in dumped /\ ~(pc["dump"] = "clear" /\ f + 1 = i["dump"])
                         => fb[f] = "freed"
  /\ pc["main"] = "end" /\ status = "SUCCESS" => fb[Num - 1] = "freed"

\* The hardware executes the queued frames in order.
ExecInv ==
  /\ \A f \in chained : \/ f < i["main"]
                        \/ f = i["main"] /\ pc["main"] \in {"signal", "lock", "publish"}
  /\ \A e \in executed : \A g \in chained \ executed : e < g

\* What the dump thread has read of frm_exe_count stays true.
QueryInv ==
  UseVcmd /\ pc["dump"] = "dump" /\ query_num["dump"] <= MaxQuery
    => frm_exe_count >= i["dump"] + 1

IInv == TypeInv /\ MainInv /\ CommitInv /\ ReleaseInv /\ HeldInv /\ ExecInv /\ QueryInv
-----------------------------------------------------------------------------
LEMMA MainInvStep == TypeInv /\ MainInv /\ [Next]_vars => MainInv'
<1> SUFFICES ASSUME TypeInv /\ MainInv, [Next]_vars PROVE MainInv'
  OBVIOUS
<1> USE NumAssumption
    DEF TypeInv, TypeOK, IndexInv, Threads, Waiters, Frames, MainPcs, WaiterPcs, Goto,
        MainInv, Ending
<1>1. CASE MainPoll
  BY <1>1 DEF MainPoll
<1>2. CASE MainSetFrame
  BY <1>2 DEF MainSetFrame
<1>3. CASE MainSetFrameFails
  BY <1>3 DEF MainSetFrameFails
<1>4. CASE MainUndo
  BY <1>4 DEF MainUndo, ClearFrameFB
<1>5. CASE MainWaitSignal
  BY <1>5 DEF MainWaitSignal
<1>6. CASE MainLock
  BY <1>6 DEF MainLock
<1>7. CASE MainPublish
  BY <1>7 DEF MainPublish, MainTop
<1>8. CASE MainCancelDump
  BY <1>8 DEF MainCancelDump
<1>9. CASE MainCancelLtm
  BY <1>9 DEF MainCancelLtm
<1>10. CASE MainJoinDump
  BY <1>10 DEF MainJoinDump
<1>11. CASE MainJoinLtm
  BY <1>11 DEF MainJoinLtm
<1>12. CASE MainFinal
  BY <1>12 DEF MainFinal, ClearFrameFB, FinalFrame
<1>13. CASE DumpOpen
  BY <1>13 DEF DumpOpen
<1>14. CASE DumpQuery
  BY <1>14 DEF DumpQuery
<1>15. CASE DumpFrame
  BY <1>15 DEF DumpFrame, NextFrame, LoopTop, Served
<1>16. CASE DumpFails
  BY <1>16 DEF DumpFails
<1>17. CASE DumpClear
  BY <1>17 DEF DumpClear, ClearFrameFB, NextFrame, LoopTop, Served
<1>18. CASE LtmFind
  BY <1>18 DEF LtmFind, LoopTop, Served
<1>19. CASE LtmQuery
  BY <1>19 DEF LtmQuery, NextFrame, LoopTop, Served
<1>20. CASE LtmApply
  BY <1>20 DEF LtmApply, NextFrame, LoopTop, Served
<1>21. CASE HwExecute
  BY <1>21 DEF HwExecute
<1>22. ASSUME NEW t \in Waiters, Waiter(t) \/ SpuriousWake(t)
       PROVE  MainInv'
  <2>1. CASE WaitLock(t)
    BY <2>1 DEF WaitLock
  <2>2. CASE WaitTest(t)
    BY <2>2 DEF WaitTest, AfterWait
  <2>3. CASE WaitReturn(t)
    BY <2>3 DEF WaitReturn
  <2>4. CASE WaitTimeOut(t)
    BY <2>4 DEF WaitTimeOut, NextFrame, LoopTop, Served
  <2>5. CASE Die(t)
    BY <2>5 DEF Die
  <2>6. CASE SpuriousWake(t)
    BY <2>6 DEF SpuriousWake
  <2> QED
    BY <1>22, <2>1, <2>2, <2>3, <2>4, <2>5, <2>6 DEF Waiter
<1>23. CASE UNCHANGED vars
  BY <1>23 DEF vars
<1> QED
  BY <1>1, <1>2, <1>3, <1>4, <1>5, <1>6, <1>7, <1>8, <1>9, <1>10, <1>11, <1>12, <1>13,
     <1>14, <1>15, <1>16, <1>17, <1>18, <1>19, <1>20, <1>21, <1>22, <1>23
  DEF Next, Main, Dump, Ltm

LEMMA CommitInvStep == TypeInv /\ MainInv /\ CommitInv /\ [Next]_vars => CommitInv'
<1> SUFFICES ASSUME TypeInv /\ MainInv /\ CommitInv, [Next]_vars PROVE CommitInv'
  OBVIOUS
<1> USE NumAssumption
    DEF TypeInv, TypeOK, IndexInv, Threads, Waiters, Frames, MainPcs, WaiterPcs, Goto,
        MainInv, Ending, CommitInv
<1>1. CASE MainPoll
  BY <1>1 DEF MainPoll
<1>2. CASE MainSetFrame
  BY <1>2 DEF MainSetFrame
<1>3. CASE MainSetFrameFails
  BY <1>3 DEF MainSetFrameFails
<1>4. CASE MainUndo
  BY <1>4 DEF MainUndo, ClearFrameFB
<1>5. CASE MainWaitSignal
  BY <1>5 DEF MainWaitSignal
<1>6. CASE MainLock
  BY <1>6 DEF MainLock
<1>7. CASE MainPublish
  BY <1>7 DEF MainPublish, MainTop
<1>8. CASE MainCancelDump
  BY <1>8 DEF MainCancelDump
<1>9. CASE MainCancelLtm
  BY <1>9 DEF MainCancelLtm
<1>10. CASE MainJoinDump
  BY <1>10 DEF MainJoinDump
<1>11. CASE MainJoinLtm
  BY <1>11 DEF MainJoinLtm
<1>12. CASE MainFinal
  BY <1>12 DEF MainFinal, ClearFrameFB, FinalFrame
<1>13. CASE DumpOpen
  BY <1>13 DEF DumpOpen
<1>14. CASE DumpQuery
  BY <1>14 DEF DumpQuery
<1>15. CASE DumpFrame
  BY <1>15 DEF DumpFrame, NextFrame, LoopTop, Served
<1>16. CASE DumpFails
  BY <1>16 DEF DumpFails
<1>17. CASE DumpClear
  BY <1>17 DEF DumpClear, ClearFrameFB, NextFrame, LoopTop, Served
<1>18. CASE LtmFind
  BY <1>18 DEF LtmFind, LoopTop, Served
<1>19. CASE LtmQuery
  BY <1>19 DEF LtmQuery, NextFrame, LoopTop, Served
<1>20. CASE LtmApply
  BY <1>20 DEF LtmApply, NextFrame, LoopTop, Served
<1>21. CASE HwExecute
  BY <1>21 DEF HwExecute
<1>22. ASSUME NEW t \in Waiters, Waiter(t) \/ SpuriousWake(t)
       PROVE  CommitInv'
  <2>1. CASE WaitLock(t)
    BY <2>1 DEF WaitLock
  <2>2. CASE WaitTest(t)
    BY <2>2 DEF WaitTest, AfterWait
  <2>3. CASE WaitReturn(t)
    BY <2>3 DEF WaitReturn
  <2>4. CASE WaitTimeOut(t)
    BY <2>4 DEF WaitTimeOut, NextFrame, LoopTop, Served
  <2>5. CASE Die(t)
    BY <2>5 DEF Die
  <2>6. CASE SpuriousWake(t)
    BY <2>6 DEF SpuriousWake
  <2> QED
    BY <1>22, <2>1, <2>2, <2>3, <2>4, <2>5, <2>6 DEF Waiter
<1>23. CASE UNCHANGED vars
  BY <1>23 DEF vars
<1> QED
  BY <1>1, <1>2, <1>3, <1>4, <1>5, <1>6, <1>7, <1>8, <1>9, <1>10, <1>11, <1>12, <1>13,
     <1>14, <1>15, <1>16, <1>17, <1>18, <1>19, <1>20, <1>21, <1>22, <1>23
  DEF Next, Main, Dump, Ltm

LEMMA ReleaseInvStep == TypeInv /\ MainInv /\ CommitInv /\ ReleaseInv /\ [Next]_vars => ReleaseInv'
<1> SUFFICES ASSUME TypeInv /\ MainInv /\ CommitInv /\ ReleaseInv, [Next]_vars PROVE ReleaseInv'
  OBVIOUS
<1> USE NumAssumption
    DEF TypeInv, TypeOK, IndexInv, Threads, Waiters, Frames, MainPcs, WaiterPcs, Goto,
        MainInv, Ending, CommitInv, ReleaseInv
<1>1. CASE MainPoll
  BY <1>1 DEF MainPoll
<1>2. CASE MainSetFrame
  BY <1>2 DEF MainSetFrame
<1>3. CASE MainSetFrameFails
  BY <1>3 DEF MainSetFrameFails
<1>4. CASE MainUndo
  BY <1>4 DEF MainUndo, ClearFrameFB
<1>5. CASE MainWaitSignal
  BY <1>5 DEF MainWaitSignal
<1>6. CASE MainLock
  BY <1>6 DEF MainLock
<1>7. CASE MainPublish
  BY <1>7 DEF MainPublish, MainTop
<1>8. CASE MainCancelDump
  BY <1>8 DEF MainCancelDump
<1>9. CASE MainCancelLtm
  BY <1>9 DEF MainCancelLtm
<1>10. CASE MainJoinDump
  BY <1>10 DEF MainJoinDump
<1>11. CASE MainJoinLtm
  BY <1>11 DEF MainJoinLtm
<1>12. CASE MainFinal
  BY <1>12 DEF MainFinal, ClearFrameFB, FinalFrame
<1>13. CASE DumpOpen
  BY <1>13 DEF DumpOpen
<1>14. CASE DumpQuery
  BY <1>14 DEF DumpQuery
<1>15. CASE DumpFrame
  BY <1>15 DEF DumpFrame, NextFrame, LoopTop, Served
<1>16. CASE DumpFails
  BY <1>16 DEF DumpFails
<1>17. CASE DumpClear
  BY <1>17 DEF DumpClear, ClearFrameFB, NextFrame, LoopTop, Served
<1>18. CASE LtmFind
  BY <1>18 DEF LtmFind, LoopTop, Served
<1>19. CASE LtmQuery
  BY <1>19 DEF LtmQuery, NextFrame, LoopTop, Served
<1>20. CASE LtmApply
  BY <1>20 DEF LtmApply, NextFrame, LoopTop, Served
<1>21. CASE HwExecute
  BY <1>21 DEF HwExecute
<1>22. ASSUME NEW t \in Waiters, Waiter(t) \/ SpuriousWake(t)
       PROVE  ReleaseInv'
  <2>1. CASE WaitLock(t)
    BY <2>1 DEF WaitLock
  <2>2. CASE WaitTest(t)
    BY <2>2 DEF WaitTest, AfterWait
  <2>3. CASE WaitReturn(t)
    BY <2>3 DEF WaitReturn
  <2>4. CASE WaitTimeOut(t)
    BY <2>4 DEF WaitTimeOut, NextFrame, LoopTop, Served
  <2>5. CASE Die(t)
    BY <2>5 DEF Die
  <2>6. CASE SpuriousWake(t)
    BY <2>6 DEF SpuriousWake
  <2> QED
    BY <1>22, <2>1, <2>2, <2>3, <2>4, <2>5, <2>6 DEF Waiter
<1>23. CASE UNCHANGED vars
  BY <1>23 DEF vars
<1> QED
  BY <1>1, <1>2, <1>3, <1>4, <1>5, <1>6, <1>7, <1>8, <1>9, <1>10, <1>11, <1>12, <1>13,
     <1>14, <1>15, <1>16, <1>17, <1>18, <1>19, <1>20, <1>21, <1>22, <1>23
  DEF Next, Main, Dump, Ltm

LEMMA HeldInvStep == TypeInv /\ MainInv /\ CommitInv /\ HeldInv /\ [Next]_vars => HeldInv'
<1> SUFFICES ASSUME TypeInv /\ MainInv /\ CommitInv /\ HeldInv, [Next]_vars PROVE HeldInv'
  OBVIOUS
<1> USE NumAssumption
    DEF TypeInv, TypeOK, IndexInv, Threads, Waiters, Frames, MainPcs, WaiterPcs, Goto,
        MainInv, Ending, CommitInv, HeldInv
<1>1. CASE MainPoll
  BY <1>1 DEF MainPoll
<1>2. CASE MainSetFrame
  BY <1>2 DEF MainSetFrame
<1>3. CASE MainSetFrameFails
  BY <1>3 DEF MainSetFrameFails
<1>4. CASE MainUndo
  BY <1>4 DEF MainUndo, ClearFrameFB
<1>5. CASE MainWaitSignal
  BY <1>5 DEF MainWaitSignal
<1>6. CASE MainLock
  BY <1>6 DEF MainLock
<1>7. CASE MainPublish
  BY <1>7 DEF MainPublish, MainTop
<1>8. CASE MainCancelDump
  BY <1>8 DEF MainCancelDump
<1>9. CASE MainCancelLtm
  BY <1>9 DEF MainCancelLtm
<1>10. CASE MainJoinDump
  BY <1>10 DEF MainJoinDump
<1>11. CASE MainJoinLtm
  BY <1>11 DEF MainJoinLtm
<1>12. CASE MainFinal
  BY <1>12 DEF MainFinal, ClearFrameFB, FinalFrame
<1>13. CASE DumpOpen
  BY <1>13 DEF DumpOpen
<1>14. CASE DumpQuery
  BY <1>14 DEF DumpQuery
<1>15. CASE DumpFrame
  BY <1>15 DEF DumpFrame, NextFrame, LoopTop, Served
<1>16. CASE DumpFails
  BY <1>16 DEF DumpFails
<1>17. CASE DumpClear
  BY <1>17 DEF DumpClear, ClearFrameFB, NextFrame, LoopTop, Served
<1>18. CASE LtmFind
  BY <1>18 DEF LtmFind, LoopTop, Served
<1>19. CASE LtmQuery
  <2>1. CASE Goto("ltm", "apply") /\ UNCHANGED i
    BY <1>19, <2>1 DEF LtmQuery
  <2>2. CASE NextFrame("ltm")
    BY <1>19, <2>2 DEF LtmQuery, NextFrame, LoopTop, Served
  <2> QED
    BY <1>19, <2>1, <2>2 DEF LtmQuery
<1>20. CASE LtmApply
  BY <1>20 DEF LtmApply, NextFrame, LoopTop, Served
<1>21. CASE HwExecute
  BY <1>21 DEF HwExecute
<1>22. ASSUME NEW t \in Waiters, Waiter(t) \/ SpuriousWake(t)
       PROVE  HeldInv'
  <2>1. CASE WaitLock(t)
    BY <2>1 DEF WaitLock
  <2>2. CASE WaitTest(t)
    BY <2>2 DEF WaitTest, AfterWait
  <2>3. CASE WaitReturn(t)
    BY <2>3 DEF WaitReturn
  <2>4. CASE WaitTimeOut(t)
    BY <2>4 DEF WaitTimeOut, NextFrame, LoopTop, Served
  <2>5. CASE Die(t)
    BY <2>5 DEF Die
  <2>6. CASE SpuriousWake(t)
    BY <2>6 DEF SpuriousWake
  <2> QED
    BY <1>22, <2>1, <2>2, <2>3, <2>4, <2>5, <2>6 DEF Waiter
<1>23. CASE UNCHANGED vars
  BY <1>23 DEF vars
<1> QED
  BY <1>1, <1>2, <1>3, <1>4, <1>5, <1>6, <1>7, <1>8, <1>9, <1>10, <1>11, <1>12, <1>13,
     <1>14, <1>15, <1>16, <1>17, <1>18, <1>19, <1>20, <1>21, <1>22, <1>23
  DEF Next, Main, Dump, Ltm

LEMMA ExecInvStep == TypeInv /\ MainInv /\ ExecInv /\ [Next]_vars => ExecInv'
<1> SUFFICES ASSUME TypeInv /\ MainInv /\ ExecInv, [Next]_vars PROVE ExecInv'
  OBVIOUS
<1> USE NumAssumption
    DEF TypeInv, TypeOK, IndexInv, Threads, Waiters, Frames, MainPcs, WaiterPcs, Goto,
        MainInv, Ending, ExecInv
<1>1. CASE MainPoll
  BY <1>1 DEF MainPoll
<1>2. CASE MainSetFrame
  BY <1>2 DEF MainSetFrame
<1>3. CASE MainSetFrameFails
  BY <1>3 DEF MainSetFrameFails
<1>4. CASE MainUndo
  BY <1>4 DEF MainUndo, ClearFrameFB
<1>5. CASE MainWaitSignal
  BY <1>5 DEF MainWaitSignal
<1>6. CASE MainLock
  BY <1>6 DEF MainLock
<1>7. CASE MainPublish
  <2>1. i' = [i EXCEPT !["main"] = @ + 1] /\ UNCHANGED <<chained, executed>>
    BY <1>7 DEF MainPublish
  <2> QED
    BY <2>1
<1>8. CASE MainCancelDump
  BY <1>8 DEF MainCancelDump
<1>9. CASE MainCancelLtm
  BY <1>9 DEF MainCancelLtm
<1>10. CASE MainJoinDump
  BY <1>10 DEF MainJoinDump
<1>11. CASE MainJoinLtm
  BY <1>11 DEF MainJoinLtm
<1>12. CASE MainFinal
  BY <1>12 DEF MainFinal, ClearFrameFB, FinalFrame
<1>13. CASE DumpOpen
  BY <1>13 DEF DumpOpen
<1>14. CASE DumpQuery
  BY <1>14 DEF DumpQuery
<1>15. CASE DumpFrame
  BY <1>15 DEF DumpFrame, NextFrame, LoopTop, Served
<1>16. CASE DumpFails
  BY <1>16 DEF DumpFails
<1>17. CASE DumpClear
  BY <1>17 DEF DumpClear, ClearFrameFB, NextFrame, LoopTop, Served
<1>18. CASE LtmFind
  BY <1>18 DEF LtmFind, LoopTop, Served
<1>19. CASE LtmQuery
  BY <1>19 DEF LtmQuery, NextFrame, LoopTop, Served
<1>20. CASE LtmApply
  BY <1>20 DEF LtmApply, NextFrame, LoopTop, Served
<1>21. CASE HwExecute
  BY <1>21 DEF HwExecute
<1>22. ASSUME NEW t \in Waiters, Waiter(t) \/ SpuriousWake(t)
       PROVE  ExecInv'
  <2>1. CASE WaitLock(t)
    BY <2>1 DEF WaitLock
  <2>2. CASE WaitTest(t)
    BY <2>2 DEF WaitTest, AfterWait
  <2>3. CASE WaitReturn(t)
    BY <2>3 DEF WaitReturn
  <2>4. CASE WaitTimeOut(t)
    BY <2>4 DEF WaitTimeOut, NextFrame, LoopTop, Served
  <2>5. CASE Die(t)
    BY <2>5 DEF Die
  <2>6. CASE SpuriousWake(t)
    BY <2>6 DEF SpuriousWake
  <2> QED
    BY <1>22, <2>1, <2>2, <2>3, <2>4, <2>5, <2>6 DEF Waiter
<1>23. CASE UNCHANGED vars
  BY <1>23 DEF vars
<1> QED
  BY <1>1, <1>2, <1>3, <1>4, <1>5, <1>6, <1>7, <1>8, <1>9, <1>10, <1>11, <1>12, <1>13,
     <1>14, <1>15, <1>16, <1>17, <1>18, <1>19, <1>20, <1>21, <1>22, <1>23
  DEF Next, Main, Dump, Ltm

LEMMA QueryInvStep == TypeInv /\ QueryInv /\ [Next]_vars => QueryInv'
<1> SUFFICES ASSUME TypeInv /\ QueryInv, [Next]_vars PROVE QueryInv'
  OBVIOUS
<1> USE NumAssumption
    DEF TypeInv, TypeOK, IndexInv, Threads, Waiters, Frames, MainPcs, WaiterPcs, Goto,
        QueryInv, frm_exe_count
<1>1. CASE MainPoll
  BY <1>1 DEF MainPoll
<1>2. CASE MainSetFrame
  BY <1>2 DEF MainSetFrame
<1>3. CASE MainSetFrameFails
  BY <1>3 DEF MainSetFrameFails
<1>4. CASE MainUndo
  BY <1>4 DEF MainUndo, ClearFrameFB
<1>5. CASE MainWaitSignal
  BY <1>5 DEF MainWaitSignal
<1>6. CASE MainLock
  BY <1>6 DEF MainLock
<1>7. CASE MainPublish
  BY <1>7 DEF MainPublish, MainTop
<1>8. CASE MainCancelDump
  BY <1>8 DEF MainCancelDump
<1>9. CASE MainCancelLtm
  BY <1>9 DEF MainCancelLtm
<1>10. CASE MainJoinDump
  BY <1>10 DEF MainJoinDump
<1>11. CASE MainJoinLtm
  BY <1>11 DEF MainJoinLtm
<1>12. CASE MainFinal
  BY <1>12 DEF MainFinal, ClearFrameFB, FinalFrame
<1>13. CASE DumpOpen
  BY <1>13 DEF DumpOpen
<1>14. CASE DumpQuery
  <2>1. CASE frm_exe_count >= i["dump"] + 1 \/ query_num["dump"] > MaxQuery
    <3>1. UNCHANGED <<i, executed, query_num>>
      BY <1>14, <2>1 DEF DumpQuery
    <3> QED
      BY <2>1, <3>1, BoundAssumption
  <2>2. CASE ~(frm_exe_count >= i["dump"] + 1 \/ query_num["dump"] > MaxQuery)
    BY <1>14, <2>2 DEF DumpQuery
  <2> QED
    BY <2>1, <2>2
<1>15. CASE DumpFrame
  BY <1>15 DEF DumpFrame, NextFrame, LoopTop, Served
<1>16. CASE DumpFails
  BY <1>16 DEF DumpFails
<1>17. CASE DumpClear
  BY <1>17 DEF DumpClear, ClearFrameFB, NextFrame, LoopTop, Served
<1>18. CASE LtmFind
  BY <1>18 DEF LtmFind, LoopTop, Served
<1>19. CASE LtmQuery
  BY <1>19 DEF LtmQuery, NextFrame, LoopTop, Served
<1>20. CASE LtmApply
  BY <1>20 DEF LtmApply, NextFrame, LoopTop, Served
<1>21. CASE HwExecute
  <2>1. PICK f \in chained \ executed : executed' = executed \cup {f}
    BY <1>21 DEF HwExecute
  <2>2. IsFiniteSet(0 .. Num - 1)
    BY FS_Interval
  <2>3. IsFiniteSet(executed)
    BY <2>2, FS_Subset
  <2>4. Cardinality(executed) \in Nat /\ Cardinality(executed') = Cardinality(executed) + 1
    BY <2>1, <2>3, FS_CardinalityType, FS_AddElement
  <2>5. UNCHANGED <<pc, query_num, i>>
    BY <1>21 DEF HwExecute
  <2> QED
    BY <2>4, <2>5
<1>22. ASSUME NEW t \in Waiters, Waiter(t) \/ SpuriousWake(t)
       PROVE  QueryInv'
  <2>1. CASE WaitLock(t)
    BY <2>1 DEF WaitLock
  <2>2. CASE WaitTest(t)
    BY <2>2 DEF WaitTest, AfterWait
  <2>3. CASE WaitReturn(t)
    BY <2>3 DEF WaitReturn
  <2>4. CASE WaitTimeOut(t)
    BY <2>4 DEF WaitTimeOut, NextFrame, LoopTop, Served
  <2>5. CASE Die(t)
    BY <2>5 DEF Die
  <2>6. CASE SpuriousWake(t)
    BY <2>6 DEF SpuriousWake
  <2> QED
    BY <1>22, <2>1, <2>2, <2>3, <2>4, <2>5, <2>6 DEF Waiter
<1>23. CASE UNCHANGED vars
  BY <1>23 DEF vars
<1> QED
  BY <1>1, <1>2, <1>3, <1>4, <1>5, <1>6, <1>7, <1>8, <1>9, <1>10, <1>11, <1>12, <1>13,
     <1>14, <1>15, <1>16, <1>17, <1>18, <1>19, <1>20, <1>21, <1>22, <1>23
  DEF Next, Main, Dump, Ltm
-----------------------------------------------------------------------------
LEMMA IInvInit == Init => IInv
<1> SUFFICES ASSUME Init PROVE IInv
  OBVIOUS
<1>1. TypeInv
  BY TypeInvInit
<1>2. MainInv /\ CommitInv /\ ReleaseInv /\ ExecInv
  BY NumAssumption DEF Init, MainInv, Ending, CommitInv, ReleaseInv, ExecInv, MainTop,
                       Threads, Waiters, Frames
<1>3. HeldInv
  BY NumAssumption, ModeAssumption DEF Init, HeldInv, MainTop, Threads, Waiters, Frames
<1>4. QueryInv
  BY DEF Init, QueryInv, Threads, Waiters
<1> QED
  BY <1>1, <1>2, <1>3, <1>4 DEF IInv

LEMMA IInvStep == IInv /\ [Next]_vars => IInv'
  BY TypeInvStep, MainInvStep, CommitInvStep, ReleaseInvStep, HeldInvStep, ExecInvStep,
     QueryInvStep DEF IInv

LEMMA IInvCorrect == Spec => []IInv
  BY IInvInit, IInvStep, PTL DEF Spec

\* A frame is dumped only after its commit: while (!frame->commit_done) is enough,
\* also after a spurious wake-up or a frame that was given up.
THEOREM DumpsCommittedFrames == Spec => []DumpAfterCommit
<1>1. IInv => DumpAfterCommit
  <2> SUFFICES ASSUME IInv, pc["dump"] \in {"query", "dump", "clear"}
               PROVE  commit_done[i["dump"]]
    BY DEF DumpAfterCommit
  <2>1. i["dump"] \in Frames
    BY NumAssumption DEF IInv, TypeInv, TypeOK, IndexInv, Frames, Threads, Waiters
  <2>2. i["dump"] < i["main"]
    BY DEF IInv, CommitInv
  <2> QED
    BY <2>1, <2>2 DEF IInv, CommitInv
<1> QED
  BY <1>1, IInvCorrect, PTL

\* The dump thread reads no released frame, except the one main clears on a failure.
THEOREM ReadsHeldFrames == Spec => []ReadAfterReleaseOnlyAtFailure
<1>1. IInv => ReadAfterReleaseOnlyAtFailure
  <2> SUFFICES ASSUME IInv, pc["dump"] = "dump", fb[i["dump"]] = "freed"
               PROVE  status = "FAILURE" /\ i["dump"] = i["main"] - 1
    BY DEF ReadAfterReleaseOnlyAtFailure
  <2>1. i["dump"] \in Frames
    BY NumAssumption DEF IInv, TypeInv, TypeOK, IndexInv, Frames, Threads, Waiters
  <2>2. pc["main"] # "end"
    BY DEF IInv, MainInv
  <2>3. ~(i["dump"] + 1 < i["dump"])
    BY <2>1, NumAssumption DEF Frames
  <2> QED
    BY <2>1, <2>2, <2>3 DEF IInv, ReleaseInv
<1> QED
  BY <1>1, IInvCorrect, PTL

\* No frame is released by two threads, and the one the final label clears is
\* still held.
THEOREM ReleasesOnce == Spec => []OneReleaser
<1>1. IInv => OneReleaser
  <2> SUFFICES ASSUME IInv PROVE OneReleaser
    OBVIOUS
  <2>1. pc["main"] = "undo" /\ pc["dump"] = "clear" => i["main"] # i["dump"]
    BY DEF IInv, CommitInv, TypeInv, TypeOK, Threads, Waiters
  <2>2. ASSUME pc["main"] = "final" PROVE fb[FinalFrame] # "freed"
    <3>1. CASE status = "FAILURE"
      <4>1. i["main"] \in Frames /\ FinalFrame = i["main"]
        BY <3>1, NumAssumption
        DEF IInv, TypeInv, TypeOK, MainInv, FinalFrame, Frames, Threads, Waiters
      <4> QED
        BY <2>2, <4>1, NumAssumption DEF IInv, ReleaseInv, Frames
    <3>2. CASE status = "SUCCESS"
      <4>1. i["main"] = Num
        BY <2>2, <3>2 DEF IInv, MainInv, Ending
      <4>2. FinalFrame = Num - 1 /\ Num - 1 \in Frames
        BY <3>2, <4>1, NumAssumption DEF FinalFrame, Frames
      <4> QED
        BY <2>2, <3>2, <4>1, <4>2, NumAssumption DEF IInv, ReleaseInv
    <3> QED
      BY <3>1, <3>2 DEF IInv, TypeInv, TypeOK
  <2> QED
    BY <2>1, <2>2 DEF OneReleaser
<1> QED
  BY <1>1, IInvCorrect, PTL

\* A run that set and dumped every frame leaves no buffer behind.
THEOREM ReleasesAll == Spec => []AllReleased
<1>1. IInv => AllReleased
  <2> SUFFICES ASSUME IInv, pc["main"] = "end", status = "SUCCESS", dumped = Frames,
                      NEW f \in Frames
               PROVE  fb[f] = "freed"
    BY DEF AllReleased, Finished
  <2>1. CASE f = Num - 1
    BY <2>1 DEF IInv, HeldInv
  <2>2. CASE f # Num - 1
    <3>1. f + 1 \in dumped
      BY <2>2, NumAssumption DEF Frames
    <3>2. pc["dump"] # "clear"
      BY DEF IInv, MainInv
    <3> QED
      BY <3>1, <3>2 DEF IInv, HeldInv
  <2> QED
    BY <2>1, <2>2
<1> QED
  BY <1>1, IInvCorrect, PTL

\* In VCMD mode a committed frame is dumped only once the hardware is done with
\* it, unless the query gave up: the count of finished frames says which they are.
THEOREM DumpsFinishedFrames == ASSUME UseVcmd PROVE Spec => []FreshDump
<1>1. IInv => FreshDump
  <2> SUFFICES ASSUME IInv, pc["dump"] = "dump", i["dump"] \in chained,
                      query_num["dump"] <= MaxQuery, i["dump"] \notin executed
               PROVE  FALSE
    BY DEF FreshDump
  <2> DEFINE n == i["dump"]
  <2>1. n \in Frames /\ executed \subseteq Frames
    BY DEF IInv, TypeInv, TypeOK
  <2>2. \A e \in executed : e < n
    BY DEF IInv, ExecInv
  <2>3. executed \subseteq 0 .. n - 1
    BY <2>1, <2>2, NumAssumption DEF Frames
  <2>4. IsFiniteSet(0 .. n - 1) /\ Cardinality(0 .. n - 1) = n
    <3>1. 0 \in Int /\ n - 1 \in Int /\ n \in Nat
      BY <2>1, NumAssumption DEF Frames
    <3>2. Cardinality(0 .. n - 1) = IF 0 > n - 1 THEN 0 ELSE (n - 1) - 0 + 1
      BY <3>1, FS_Interval
    <3> HIDE DEF n
    <3> QED
      BY <3>1, <3>2, FS_Interval
  <2>5. Cardinality(executed) <= n
    BY <2>3, <2>4, FS_Subset
  <2>6. Cardinality(executed) \in Nat
    BY <2>3, <2>4, FS_Subset, FS_CardinalityType
  <2>7. Cardinality(executed) >= n + 1
    BY DEF IInv, QueryInv, frm_exe_count
  <2> QED
    BY <2>1, <2>5, <2>6, <2>7, NumAssumption DEF Frames
<1> QED
  BY <1>1, IInvCorrect, PTL
-----------------------------------------------------------------------------
(* The LTM thread and the queue.                                           *)

\* What the LTM thread is about to correct is queued, unless a frame was skipped.
LtmInv ==
  NoneSkipped =>
    /\ updated \subseteq chained
    /\ pc["ltm"] = "apply" => i["ltm"] + 2 \in chained

\* If frame n is not queued and none before it was skipped, at most n frames are.
LEMMA QueueCount ==
  ASSUME IInv, NoneSkipped, NEW n \in Nat, n <= Num, n \notin chained
  PROVE  Cardinality(chained) \in Nat /\ Cardinality(chained) <= n
<1>1. chained \subseteq Frames /\ i["main"] \in 0 .. Num
  BY DEF IInv, TypeInv, TypeOK, Threads
<1>2. n = Num \/ i["main"] <= n
  BY <1>1, NumAssumption DEF NoneSkipped, Frames
<1>3. \A f \in chained : f < n
  BY <1>1, <1>2, NumAssumption DEF IInv, ExecInv, Frames
<1>4. chained \subseteq 0 .. n - 1
  BY <1>1, <1>3, NumAssumption DEF Frames
<1>5. IsFiniteSet(0 .. n - 1) /\ Cardinality(0 .. n - 1) = n
  <2>1. 0 \in Int /\ n - 1 \in Int
    OBVIOUS
  <2>2. Cardinality(0 .. n - 1) = IF 0 > n - 1 THEN 0 ELSE (n - 1) - 0 + 1
    BY <2>1, FS_Interval
  <2> QED
    BY <2>1, <2>2, FS_Interval
<1>6. IsFiniteSet(chained) /\ Cardinality(chained) <= n
  <2>1. Cardinality(chained) <= Cardinality(0 .. n - 1) /\ IsFiniteSet(chained)
    BY <1>4, <1>5, FS_Subset
  <2> QED
    BY <1>5, <2>1
<1> QED
  BY <1>6, FS_CardinalityType

\* The queue only grows, and it does not skip a frame that it skipped before.
LEMMA QueueGrows ==
  TypeInv /\ [Next]_vars => chained \subseteq chained' /\ (NoneSkipped' => NoneSkipped)
<1> SUFFICES ASSUME TypeInv, [Next]_vars
             PROVE  chained \subseteq chained' /\ (NoneSkipped' => NoneSkipped)
  OBVIOUS
<1> USE DEF NoneSkipped
<1>1. ASSUME UNCHANGED chained, i'["main"] = i["main"]
      PROVE  chained \subseteq chained' /\ (NoneSkipped' => NoneSkipped)
  BY <1>1
<1>2. CASE MainSetFrame
  BY <1>2, NumAssumption DEF MainSetFrame, TypeInv, TypeOK, Threads, Waiters, Frames
<1>3. CASE MainPublish
  BY <1>3, NumAssumption DEF MainPublish, TypeInv, TypeOK, Threads, Waiters, Frames
<1>4. CASE MainPoll \/ MainSetFrameFails \/ MainUndo \/ MainWaitSignal \/ MainLock
  BY <1>1, <1>4 DEF MainPoll, MainSetFrameFails, MainUndo, MainWaitSignal, MainLock
<1>5. CASE MainCancelDump \/ MainCancelLtm \/ MainJoinDump \/ MainJoinLtm \/ MainFinal
  BY <1>1, <1>5 DEF MainCancelDump, MainCancelLtm, MainJoinDump, MainJoinLtm, MainFinal
<1>6. CASE Dump
  BY <1>1, <1>6 DEF Dump, DumpOpen, DumpQuery, DumpFrame, DumpFails, DumpClear, NextFrame,
                    TypeInv, TypeOK, Threads
<1>7. CASE Ltm
  BY <1>1, <1>7 DEF Ltm, LtmFind, LtmQuery, LtmApply, NextFrame, TypeInv, TypeOK, Threads
<1>8. CASE HwExecute \/ UNCHANGED vars
  BY <1>1, <1>8 DEF HwExecute, vars
<1>9. ASSUME NEW t \in Waiters, Waiter(t) \/ SpuriousWake(t)
      PROVE  chained \subseteq chained' /\ (NoneSkipped' => NoneSkipped)
  BY <1>1, <1>9 DEF Waiter, WaitLock, WaitTest, WaitReturn, WaitTimeOut, Die, SpuriousWake,
                    NextFrame, Waiters, TypeInv, TypeOK, Threads
<1> QED
  BY <1>2, <1>3, <1>4, <1>5, <1>6, <1>7, <1>8, <1>9 DEF Next, Main

LEMMA LtmInvStep == IInv /\ LtmInv /\ [Next]_vars => LtmInv'
<1> SUFFICES ASSUME IInv, LtmInv, [Next]_vars, NoneSkipped'
             PROVE  updated' \subseteq chained' /\ (pc'["ltm"] = "apply" => i'["ltm"] + 2 \in chained')
  BY DEF LtmInv
<1>1. /\ chained \subseteq chained' /\ NoneSkipped
      /\ updated \subseteq chained /\ (pc["ltm"] = "apply" => i["ltm"] + 2 \in chained)
  BY QueueGrows DEF IInv, LtmInv
<1>2. ASSUME UNCHANGED updated, pc'["ltm"] = "apply" => pc["ltm"] = "apply" /\ i'["ltm"] = i["ltm"]
      PROVE  updated' \subseteq chained' /\ (pc'["ltm"] = "apply" => i'["ltm"] + 2 \in chained')
  BY <1>1, <1>2
<1> USE DEF Goto
<1>3. pc \in [Threads -> MainPcs \cup WaiterPcs] /\ i \in [Threads -> 0 .. Num]
  BY DEF IInv, TypeInv, TypeOK
<1>4. CASE LtmQuery
  <2> DEFINE n == i["ltm"] + 2
  <2>1. n \in Nat /\ n <= Num
    BY <1>3, <1>4, NumAssumption DEF LtmQuery, IInv, TypeInv, IndexInv, Threads, Waiters
  <2>2. CASE frm_rdy_count >= i["ltm"] + 3 /\ Goto("ltm", "apply") /\ UNCHANGED i
    <3>1. n \in chained
      <4> SUFFICES ASSUME n \notin chained PROVE FALSE
        OBVIOUS
      <4>1. Cardinality(chained) \in Nat /\ Cardinality(chained) <= n
        BY <1>1, <2>1, QueueCount
      <4> QED
        BY <1>3, <2>1, <2>2, <4>1, NumAssumption DEF frm_rdy_count, Threads, Waiters
    <3> QED
      BY <1>1, <1>4, <2>2, <3>1 DEF LtmQuery
  <2>3. CASE NextFrame("ltm")
    BY <1>2, <1>3, <1>4, <2>3 DEF LtmQuery, NextFrame, LoopTop, Threads, Waiters
  <2> QED
    BY <1>4, <2>2, <2>3 DEF LtmQuery
<1>5. CASE LtmApply
  BY <1>1, <1>3, <1>5 DEF LtmApply, NextFrame, LoopTop, Threads, Waiters
<1>6. CASE LtmFind
  BY <1>2, <1>3, <1>6 DEF LtmFind, LoopTop, Threads, Waiters
<1>7. CASE MainPoll \/ MainSetFrame \/ MainSetFrameFails \/ MainUndo \/ MainWaitSignal
           \/ MainLock \/ MainPublish
  BY <1>2, <1>3, <1>7 DEF MainPoll, MainSetFrame, MainSetFrameFails, MainUndo, MainWaitSignal,
                          MainLock, MainPublish, Threads, Waiters
<1>8. CASE MainCancelDump \/ MainCancelLtm \/ MainJoinDump \/ MainJoinLtm \/ MainFinal
  BY <1>2, <1>3, <1>8 DEF MainCancelDump, MainCancelLtm, MainJoinDump, MainJoinLtm, MainFinal,
                          Threads, Waiters
<1>9. CASE Dump
  BY <1>2, <1>3, <1>9 DEF Dump, DumpOpen, DumpQuery, DumpFrame, DumpFails, DumpClear, NextFrame,
                          Threads, Waiters
<1>10. CASE HwExecute \/ UNCHANGED vars
  BY <1>2, <1>10 DEF HwExecute, vars
<1>11. ASSUME NEW t \in Waiters, Waiter(t) \/ SpuriousWake(t)
       PROVE  updated' \subseteq chained' /\ (pc'["ltm"] = "apply" => i'["ltm"] + 2 \in chained')
  <2>1. CASE WaitTimeOut(t)
    BY <1>2, <1>3, <2>1 DEF WaitTimeOut, NextFrame, LoopTop, Threads, Waiters
  <2>2. CASE WaitLock(t) \/ WaitTest(t) \/ WaitReturn(t) \/ Die(t) \/ SpuriousWake(t)
    BY <1>2, <1>3, <2>2 DEF WaitLock, WaitTest, AfterWait, WaitReturn, Die, SpuriousWake,
                            Threads, Waiters
  <2> QED
    BY <1>11, <2>1, <2>2 DEF Waiter
<1> QED
  BY <1>4, <1>5, <1>6, <1>7, <1>8, <1>9, <1>10, <1>11 DEF Next, Main, Ltm

\* frm_rdy_count is enough to know that the frame to correct is queued, as long as no frame
\* was skipped for want of a command buffer.
THEOREM UpdatesQueuedFrames == Spec => []LtmTargetQueued
<1>1. Init => LtmInv
  BY DEF Init, LtmInv, Threads, Waiters
<1>2. LtmInv => LtmTargetQueued
  BY DEF LtmInv, LtmTargetQueued
<1> QED
  BY <1>1, <1>2, LtmInvStep, IInvCorrect, PTL DEF Spec
-----------------------------------------------------------------------------
(* The mutex and the condition variable.                                   *)

\* Where a thread is that sleeps or is cancelled; there is no LTM thread without HasLtm.
WaitInv ==
  /\ \A t \in waiting : pc[t] = "wait"
  /\ cancelled # {} => status = "FAILURE" /\ pc["main"] \in Ending \ {"exit"}
  /\ status = "FAILURE" /\ pc["main"] \in Ending \ {"exit"} => "dump" \in cancelled
  /\ pc["main"] = "cancel_ltm" => status = "FAILURE"
  /\ ~HasLtm => pc["ltm"] = "done" /\ "ltm" \notin cancelled

SyncInv == WaitInv /\ MutexHolder /\ NoLostWakeup

LEMMA SyncInvInit == Init => SyncInv
  BY NumAssumption DEF Init, SyncInv, WaitInv, MutexHolder, NoLostWakeup, Threads, Waiters, MainTop, Ending

LEMMA WaitInvStep == TypeInv /\ MainInv /\ WaitInv /\ [Next]_vars => WaitInv'
<1> SUFFICES ASSUME TypeInv, MainInv, WaitInv, [Next]_vars PROVE WaitInv'
  OBVIOUS
<1>0. /\ pc \in [Threads -> MainPcs \cup WaiterPcs] /\ waiting \subseteq Waiters
      /\ cancelled \subseteq Waiters /\ status \in {"SUCCESS", "FAILURE"}
      /\ pc["dump"] # "find"
  BY DEF TypeInv, TypeOK, IndexInv
<1> USE DEF WaitInv, Goto, Threads, Waiters, Ending
<1>1. CASE MainPoll \/ MainSetFrame \/ MainWaitSignal \/ MainLock
  BY <1>0, <1>1 DEF MainPoll, MainSetFrame, MainWaitSignal, MainLock
<1>2. CASE MainSetFrameFails \/ MainUndo
  BY <1>0, <1>2 DEF MainSetFrameFails, MainUndo, MainInv
<1>3. CASE MainPublish
  <2>1. /\ pc["main"] = "publish" /\ UNCHANGED <<status, cancelled>> /\ waiting' \subseteq waiting
        /\ pc' = [pc EXCEPT !["main"] = MainTop(i["main"] + 1)]
    BY <1>3 DEF MainPublish
  <2>2. MainTop(i["main"] + 1) \in {"exit", "poll", "set"}
    BY DEF MainTop
  <2>3. status # "FAILURE" /\ cancelled = {}
    BY <1>0, <2>1 DEF MainInv
  <2> QED
    BY <1>0, <2>1, <2>2, <2>3
<1>4. CASE MainCancelDump \/ MainCancelLtm
  BY <1>0, <1>4 DEF MainCancelDump, MainCancelLtm
<1>5. CASE MainJoinDump \/ MainJoinLtm \/ MainFinal
  BY <1>0, <1>5 DEF MainJoinDump, MainJoinLtm, MainFinal
<1>6. CASE Dump
  BY <1>0, <1>6 DEF Dump, DumpOpen, DumpQuery, DumpFrame, DumpFails, DumpClear, NextFrame, LoopTop
<1>7. CASE Ltm
  BY <1>0, <1>7 DEF Ltm, LtmFind, LtmQuery, LtmApply, NextFrame, LoopTop
<1>8. ASSUME NEW t \in Waiters, Waiter(t) \/ SpuriousWake(t)
      PROVE  WaitInv'
  BY <1>0, <1>8 DEF Waiter, WaitLock, WaitTest, AfterWait, WaitReturn, WaitTimeOut, NextFrame, LoopTop,
                    Die, SpuriousWake
<1>9. CASE HwExecute \/ UNCHANGED vars
  BY <1>9 DEF HwExecute, vars
<1> QED
  BY <1>1, <1>2, <1>3, <1>4, <1>5, <1>6, <1>7, <1>8, <1>9 DEF Next, Main

LEMMA MutexHolderStep ==
  TypeInv /\ MainInv /\ WaitInv /\ WaitInv' /\ MutexHolder /\ [Next]_vars => MutexHolder'
<1> SUFFICES ASSUME TypeInv, MainInv, WaitInv, WaitInv', MutexHolder, [Next]_vars
             PROVE  MutexHolder'
  OBVIOUS
<1>0. /\ pc \in [Threads -> MainPcs \cup WaiterPcs] /\ lock \in Threads \cup {"none"}
      /\ cancelled \subseteq Waiters /\ pc["main"] \in MainPcs
      /\ \A t \in Waiters : pc[t] \in WaiterPcs
  BY DEF TypeInv, TypeOK
<1> USE DEF MutexHolder, Goto, Threads, Waiters, MainPcs, WaiterPcs
\* A step of one thread outside the mutex, to where it does not ask for the mutex or, if it
\* does, to where nobody has died.
<1>1. ASSUME NEW t \in Threads, NEW l, pc' = [pc EXCEPT ![t] = l], UNCHANGED lock,
             cancelled \subseteq cancelled', pc[t] \notin {"publish", "test", "done"},
             l \notin {"publish", "test"}, l \in {"lock", "wait"} => t \in Waiters \/ cancelled = {}
      PROVE  MutexHolder'
  BY <1>0, <1>1 DEF WaitInv
<1>2. CASE MainLock
  BY <1>0, <1>2 DEF MainLock
<1>3. CASE MainPublish
  <2>1. /\ lock' = "none" /\ lock = "main" /\ pc' = [pc EXCEPT !["main"] = MainTop(i["main"] + 1)]
    BY <1>3 DEF MainPublish
  <2>2. MainTop(i["main"] + 1) # "publish"
    BY DEF MainTop
  <2> QED
    BY <1>0, <2>1, <2>2
<1>4. CASE MainPoll
  BY <1>0, <1>1, <1>4 DEF MainPoll
<1>5. CASE MainSetFrame \/ MainSetFrameFails \/ MainUndo
  BY <1>1, <1>5 DEF MainSetFrame, MainSetFrameFails, MainUndo
<1>6. CASE MainWaitSignal
  <2>1. cancelled = {}
    BY <1>6 DEF MainWaitSignal, WaitInv, Ending
  <2> QED
    BY <1>1, <1>6, <2>1 DEF MainWaitSignal
<1>7. CASE MainCancelDump \/ MainCancelLtm \/ MainJoinDump \/ MainJoinLtm \/ MainFinal
  BY <1>1, <1>7 DEF MainCancelDump, MainCancelLtm, MainJoinDump, MainJoinLtm, MainFinal
<1>8. CASE Dump
  BY <1>0, <1>1, <1>8 DEF Dump, DumpOpen, DumpQuery, DumpFrame, DumpFails, DumpClear, NextFrame, LoopTop
<1>9. CASE Ltm
  BY <1>0, <1>1, <1>9 DEF Ltm, LtmFind, LtmQuery, LtmApply, NextFrame, LoopTop
<1>10. ASSUME NEW t \in Waiters, Waiter(t) \/ SpuriousWake(t)
       PROVE  MutexHolder'
  <2>1. CASE WaitLock(t) \/ WaitReturn(t)
    BY <1>0, <2>1 DEF WaitLock, WaitReturn
  <2>2. CASE WaitTest(t)
    BY <1>0, <2>2 DEF WaitTest, AfterWait
  <2>3. CASE WaitTimeOut(t)
    BY <1>1, <2>3 DEF WaitTimeOut, NextFrame, LoopTop
  <2>4. CASE Die(t)
    <3>1. /\ t \in cancelled /\ UNCHANGED cancelled /\ pc' = [pc EXCEPT ![t] = "done"]
          /\ pc["main"] \in Ending
      BY <2>4 DEF Die, WaitInv
    <3>2. CASE UNCHANGED lock /\ pc[t] \in {"open", "query", "dump", "apply"}
      BY <1>1, <3>1, <3>2
    <3>3. CASE lock = "none" /\ lock' = t /\ pc[t] = "wait"
      <4>1. \A u \in Threads : pc'[u] \in {"lock", "wait"} => HasLtm /\ u \in Waiters \ {t}
        BY <1>0, <3>1 DEF WaitInv, Ending
      <4> QED
        BY <1>0, <3>1, <3>3, <4>1 DEF Ending
    <3> QED
      BY <2>4, <3>2, <3>3 DEF Die
  <2>5. CASE SpuriousWake(t)
    BY <2>5 DEF SpuriousWake
  <2> QED
    BY <1>10, <2>1, <2>2, <2>3, <2>4, <2>5 DEF Waiter
<1>11. CASE HwExecute \/ UNCHANGED vars
  BY <1>11 DEF HwExecute, vars
<1> QED
  BY <1>2, <1>3, <1>4, <1>5, <1>6, <1>7, <1>8, <1>9, <1>10, <1>11 DEF Next, Main

LEMMA NoLostWakeupStep ==
  TypeInv /\ WaitInv /\ WaitInv' /\ NoLostWakeup /\ [Next]_vars => NoLostWakeup'
<1> SUFFICES ASSUME TypeInv, WaitInv, WaitInv', NoLostWakeup, [Next]_vars, ~HasLtm,
                    NEW t \in waiting'
             PROVE  ~commit_done'[i'[t]]
  BY DEF NoLostWakeup
<1>0. /\ pc \in [Threads -> MainPcs \cup WaiterPcs] /\ i \in [Threads -> 0 .. Num]
      /\ waiting \subseteq Waiters /\ (t \in waiting => ~commit_done[i[t]])
      /\ \A u \in waiting : pc[u] = "wait"
  BY DEF TypeInv, TypeOK, NoLostWakeup, WaitInv
<1> USE DEF Threads, Waiters
\* Who sleeps stays at its frame.
<1>1. ASSUME t \in waiting, UNCHANGED commit_done, i'[t] = i[t] PROVE ~commit_done'[i'[t]]
  BY <1>0, <1>1
<1>2. CASE MainPublish
  <2>1. t \in waiting /\ waiting \subseteq {"dump"} /\ waiting' # waiting \ {t}
    BY <1>0, <1>2 DEF MainPublish, WaitInv
  <2> QED
    BY <1>0, <1>2, <2>1 DEF MainPublish
<1>3. CASE Main /\ ~MainPublish
  BY <1>0, <1>1, <1>3
  DEF Main, MainPoll, MainSetFrame, MainSetFrameFails, MainUndo, MainWaitSignal, MainLock,
      MainCancelDump, MainCancelLtm, MainJoinDump, MainJoinLtm, MainFinal
<1>4. CASE Dump
  BY <1>0, <1>1, <1>4 DEF Dump, DumpOpen, DumpQuery, DumpFrame, DumpFails, DumpClear, NextFrame
<1>5. CASE Ltm
  BY <1>0, <1>1, <1>5 DEF Ltm, LtmFind, LtmQuery, LtmApply, NextFrame
<1>6. ASSUME NEW u \in Waiters, Waiter(u) \/ SpuriousWake(u)
      PROVE  ~commit_done'[i'[t]]
  <2>1. CASE WaitTest(u)
    BY <1>0, <1>1, <2>1 DEF WaitTest
  <2>2. CASE WaitLock(u) \/ WaitReturn(u) \/ WaitTimeOut(u) \/ Die(u) \/ SpuriousWake(u)
    BY <1>0, <1>1, <2>2 DEF WaitLock, WaitReturn, WaitTimeOut, NextFrame, Die, SpuriousWake
  <2> QED
    BY <1>6, <2>1, <2>2 DEF Waiter
<1>7. CASE HwExecute \/ UNCHANGED vars
  BY <1>1, <1>7 DEF HwExecute, vars
<1> QED
  BY <1>2, <1>3, <1>4, <1>5, <1>6, <1>7 DEF Next

LEMMA SyncInvCorrect == Spec => []SyncInv
<1>1. IInv /\ SyncInv /\ [Next]_vars => SyncInv'
  BY WaitInvStep, MutexHolderStep, NoLostWakeupStep DEF IInv, SyncInv
<1> QED
  BY <1>1, SyncInvInit, IInvCorrect, PTL DEF Spec

\* For any number of frames and whatever fails, a thread without a rival never sleeps on a
\* committed frame: pthread_cond_signal reaches it, or it sees commit_done before it sleeps.
THEOREM WakesSleepers == Spec => []NoLostWakeup
  BY SyncInvCorrect, PTL DEF SyncInv

\* The mutex is missing to nobody but a thread that waits for it when the other one of the
\* two has died with it.
THEOREM HoldsMutexBriefly == Spec => []MutexHolder
  BY SyncInvCorrect, PTL DEF SyncInv

\* main's pthread_join of the dump thread waits for a thread that can go on.
THEOREM JoinsRunningThread == Spec => []JoinReturns
<1>1. IInv /\ SyncInv => JoinReturns
  <2> SUFFICES ASSUME IInv, SyncInv, pc["main"] = "join_dump", pc["dump"] # "done", ~HasLtm
               PROVE  /\ "dump" \in waiting => "dump" \in cancelled
                      /\ pc["dump"] \in {"lock", "wait"} => lock = "none"
    BY DEF JoinReturns
  <2>1. ASSUME "dump" \in waiting, "dump" \notin cancelled PROVE FALSE
    <3>1. status = "SUCCESS" /\ i["main"] = Num
      BY <2>1 DEF SyncInv, WaitInv, IInv, TypeInv, TypeOK, MainInv, Ending
    <3>2. i["dump"] \in Frames /\ i["dump"] < i["main"]
      BY <3>1, NumAssumption DEF IInv, TypeInv, TypeOK, IndexInv, Threads, Waiters, Frames
    <3>3. commit_done[i["dump"]]
      BY <3>2 DEF IInv, CommitInv
    <3> QED
      BY <2>1, <3>3 DEF SyncInv, NoLostWakeup
  <2>2. ASSUME pc["dump"] \in {"lock", "wait"}, lock # "none" PROVE FALSE
    BY <2>2 DEF SyncInv, WaitInv, MutexHolder, IInv, TypeInv, TypeOK, Threads, Waiters
  <2> QED
    BY <2>1, <2>2
<1> QED
  BY <1>1, SyncInvCorrect, IInvCorrect, PTL
-----------------------------------------------------------------------------
(* The threads implement DumpOrder.                                        *)

LEMMA OrderInit == Init => Order!Init
  BY DEF Init, Order!Init, Threads, Waiters, Frames

LEMMA OrderStep == IInv /\ [Next]_vars => [Order!Next]_(Order!vars)
<1> SUFFICES ASSUME IInv, [Next]_vars PROVE Order!Next \/ UNCHANGED Order!vars
  OBVIOUS
<1> DEFINE next == IF pc["dump"] = "clear" THEN i["dump"] + 1 ELSE i["dump"]
           published == {f \in Frames : commit_done[f]}
<1> USE DEF IInv, TypeInv, TypeOK, IndexInv, Threads, Waiters, Goto
\* The steps that publish, dump or give up a frame.
<1>1. CASE MainPublish
  <2>1. i["main"] \in Frames /\ published = 0 .. i["main"] - 1
    BY <1>1, NumAssumption DEF MainPublish, CommitInv, Frames
  <2>2. published' = published \cup {i["main"]}
    BY <1>1, <2>1 DEF MainPublish
  <2>3. UNCHANGED <<next, dumped>>
    BY <1>1 DEF MainPublish
  <2>4. Order!Publish
    BY <2>1, <2>2, <2>3 DEF Order!Publish, Frames
  <2> QED
    BY <2>4 DEF Order!Next
<1>2. CASE DumpFrame
  <2>1. i["dump"] \in published
    BY <1>2, NumAssumption DEF DumpFrame, CommitInv, Frames
  <2>2. next = i["dump"] /\ next' = i["dump"] + 1
    BY <1>2, NumAssumption DEF DumpFrame, NextFrame, LoopTop, Served
  <2>3. dumped' = dumped \cup {i["dump"]} /\ UNCHANGED published
    BY <1>2 DEF DumpFrame
  <2>4. Order!Dump
    BY <2>1, <2>2, <2>3 DEF Order!Dump
  <2> QED
    BY <2>4 DEF Order!Next
<1>3. CASE WaitTimeOut("dump")
  <2>1. next = i["dump"] /\ next' = i["dump"] + 1 /\ next < Num
    BY <1>3, NumAssumption DEF WaitTimeOut, NextFrame, LoopTop, Served
  <2>2. UNCHANGED <<published, dumped>>
    BY <1>3 DEF WaitTimeOut
  <2>3. Order!Skip
    BY <2>1, <2>2 DEF Order!Skip
  <2> QED
    BY <2>3 DEF Order!Next
\* All the others stutter.
<1>4. CASE DumpClear
  <2>1. UNCHANGED <<next, published, dumped>>
    BY <1>4, NumAssumption DEF DumpClear, NextFrame, LoopTop, Served
  <2> QED
    BY <2>1 DEF Order!vars
<1>5. ASSUME UNCHANGED <<commit_done, dumped>>, pc'["dump"] = pc["dump"], i'["dump"] = i["dump"]
      PROVE  UNCHANGED Order!vars
  BY <1>5 DEF Order!vars
<1>6. ASSUME UNCHANGED <<commit_done, dumped, i>>, pc["dump"] # "clear", pc'["dump"] # "clear"
      PROVE  UNCHANGED Order!vars
  BY <1>6 DEF Order!vars
<1>7. CASE MainPoll \/ MainSetFrame \/ MainSetFrameFails \/ MainUndo \/ MainWaitSignal \/ MainLock
  BY <1>5, <1>7
  DEF MainPoll, MainSetFrame, MainSetFrameFails, MainUndo, MainWaitSignal, MainLock
<1>8. CASE MainCancelDump \/ MainCancelLtm \/ MainJoinDump \/ MainJoinLtm \/ MainFinal
  BY <1>5, <1>8 DEF MainCancelDump, MainCancelLtm, MainJoinDump, MainJoinLtm, MainFinal
<1>9. CASE DumpOpen \/ DumpQuery \/ DumpFails
  BY <1>6, <1>9 DEF DumpOpen, DumpQuery, DumpFails
<1>10. CASE Ltm \/ HwExecute \/ UNCHANGED vars
  BY <1>5, <1>10 DEF Ltm, LtmFind, LtmQuery, LtmApply, NextFrame, HwExecute, vars
<1>11. CASE WaitLock("dump") \/ WaitTest("dump") \/ WaitReturn("dump") \/ Die("dump")
  BY <1>6, <1>11 DEF WaitLock, WaitTest, AfterWait, WaitReturn, Die
<1>12. CASE \/ WaitLock("ltm") \/ WaitTest("ltm") \/ WaitReturn("ltm")
            \/ WaitTimeOut("ltm") \/ Die("ltm")
  BY <1>5, <1>12 DEF WaitLock, WaitTest, WaitReturn, WaitTimeOut, NextFrame, Die
<1>13. ASSUME NEW t \in Waiters, SpuriousWake(t) PROVE UNCHANGED Order!vars
  BY <1>5, <1>13 DEF SpuriousWake
<1> QED
  BY <1>1, <1>2, <1>3, <1>4, <1>7, <1>8, <1>9, <1>10, <1>11, <1>12, <1>13
  DEF Next, Main, Dump, Waiter

\* Frames are dumped in order, each after it was published and none twice,
\* whatever times out, fails or is cancelled.
THEOREM ImplementsOrder == Spec => ImplementsDumpOrder
<1>1. Spec => Order!Init /\ [][Order!Next]_(Order!vars)
  BY OrderInit, OrderStep, IInvCorrect, PTL DEF Spec
<1> QED
  BY <1>1 DEF ImplementsDumpOrder, Order!Spec
=============================================================================
