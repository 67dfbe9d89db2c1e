-------------------------- MODULE CaseRunnerProofs --------------------------
(***************************************************************************)
(* Theorems about CaseRunner, for every plan, every number of frames and   *)
(* connectors, every set of options and with failing commands.             *)
(***************************************************************************)
EXTENDS CaseRunner, NaturalLemmas, TLAPS

USE DEF driverVars, checkVars, given

\* The digest check is at a unit of the case; in a case with frames it has
\* passed every unit before that when rets holds.
CheckInv ==
  /\ pc = "judge" => u = 0 /\ rets = TRUE /\ matched = {}
  /\ pc = "check" => u \in 0 .. NumUnits - 1
  /\ pc = "check" /\ rets /\ Case \notin StreamCases => matched = 0 .. u - 1
  /\ pc = "file" /\ rets /\ Case \notin StreamCases => matched = Units
  /\ pc = "next" /\ verdict[n] = "pass" /\ ~args.crc_check /\ Case \notin StreamCases
       => matched = Units

\* The flags are down whenever a case starts, and up only because of its output.
\* With --crc_check, no_wb is never taken back.
FlagInv ==
  /\ pc \in {"start", "run", "check", "file", "next"} =>
       ~unsupport /\ (no_wb => args.crc_check)
  /\ pc = "judge" /\ unsupport => said = "Unsupport"
  /\ pc = "judge" /\ no_wb /\ ~args.crc_check => said = "no wb"
  /\ UnsupportOfThisCase

\* Who loaded the driver; it is loaded between Start and Finish, and fresh for
\* each case with --reinstall.
DriverInv ==
  /\ pc = "start" => installed = found /\ install_by_runner = FALSE
  /\ pc \in {"run", "judge", "check", "file", "next"} =>
       installed = TRUE /\ install_by_runner = (args.reinstall \/ ~found)
  /\ FreshDriver
  /\ DriverLeftAsFound
\* The check has compared the file for unit x and connector y, if it came that far.
Done(x, y) == x < u \/ (x = u /\ y < w)


\* The files of the case that were there when its drmtest ended.
Files == dumped \cup left

\* A file with a digest was there, or frame 0 took that of a later frame, which is not
\* needed there: that frame fails if it has a digest for the connector.
Covered(x, y) ==
  golden[Case][x][y] = "md5sum" =>
    \/ <<x, y>> \in Files
    \/ /\ x = 0
       /\ \E v \in Units \ {0} :
            /\ <<v, y>> \in Files /\ out[Case][v][y] = "none"
            /\ Done(v, y) => golden[Case][v][y] # "md5sum"

OwnFiles ==
  \A f \in Required(Case) \ Files :
    f[1] = 0 /\ \E z \in Units : <<z, f[2]>> \in Files \ Required(Case)

\* The check finds only the files of Files and covers what it has done.
DumpInv ==
  /\ pc = "judge" => u = 0 /\ w = 0
  /\ pc \in {"judge", "check"} =>
       \A x \in Units, y \in Wbs : out[Case][x][y] # "none" => <<x, y>> \in Files
  /\ pc = "check" /\ rets /\ Case \notin StreamCases =>
       \A x \in Units, y \in Wbs : Done(x, y) => Covered(x, y)
  /\ pc = "file" /\ rets /\ Case \notin StreamCases => OwnFiles
  /\ PassOnItsFiles
-----------------------------------------------------------------------------
\* What the steps need to know of the constants.
LEMMA SizeFacts ==
  /\ 0 \in Wbs /\ \A y \in Wbs : y + 1 < NumWbs => y + 1 \in Wbs
  /\ 0 \in 0 .. NumUnits /\ \A z \in Units : z + 1 \in 0 .. NumUnits
  /\ 1 \in 1 .. Len(Plan)
  /\ \A x \in 1 .. Len(Plan) : x < Len(Plan) => x + 1 \in 1 .. Len(Plan)
BY PlanAssumption, SizeAssumption DEF Wbs, Units

LEMMA CaseFact == ASSUME n \in 1 .. Len(Plan) PROVE Case \in Cases
BY DEF Case, Cases

\* All of them hold at the start.
LEMMA InitInv == Init => TypeOK /\ CheckInv /\ FlagInv /\ DriverInv
<1>. SUFFICES ASSUME Init PROVE TypeOK /\ CheckInv /\ FlagInv /\ DriverInv
  OBVIOUS
<1>1. golden \in GoldenType /\ out \in FileType
  BY GoldenAssumption, LeftoverAssumption DEF Init
<1>2. verdict \in [1 .. Len(Plan) -> {"none", "pass", "fail", "unsupport"}]
  BY DEF Init
<1>3. TypeOK
  BY SizeFacts, <1>1, <1>2 DEF Init, TypeOK
<1>4. CheckInv
  BY DEF Init, CheckInv
<1>5. FlagInv /\ DriverInv
  BY DEF Init, FlagInv, DriverInv, UnsupportOfThisCase, FreshDriver, DriverLeftAsFound
<1>. QED BY <1>3, <1>4, <1>5

\* A driver command that raises keeps the types.
LEMMA RaisesType ==
  ASSUME TypeOK, NEW loaded \in {installed, FALSE}, Raises(loaded) PROVE TypeOK'
<1>1. installed' \in BOOLEAN /\ pc' = "raised"
  BY DEF TypeOK, Raises
<1>2. /\ UNCHANGED <<n, found, install_by_runner, args, missing, golden, used, unsupport, no_wb, status>>
      /\ UNCHANGED <<out, u, w, rets, matched, verdict, dumped, said, left>>
  BY DEF Raises, given, checkVars
<1>. QED BY <1>1, <1>2, Zenon DEF TypeOK

\* The check of a connector ends: on to the next one of the unit, or to the next unit.
LEMMA ConnectorStep ==
  ASSUME TypeOK, u \in Units, NEW ret \in BOOLEAN, pc = "check", ConnectorDone(ret)
  PROVE  /\ u' \in 0 .. NumUnits /\ w' \in Wbs /\ pc' \in {"check", "file"}
         /\ rets' \in BOOLEAN /\ matched' \subseteq Units
         /\ rets' /\ Case \notin StreamCases =>
              /\ rets /\ ret
              /\ \/ w' = w + 1 /\ u' = u /\ pc' = "check"
                 \/ /\ w + 1 >= NumWbs /\ w' = 0 /\ u' = u + 1
                    /\ pc' = "file" => u + 1 = NumUnits
<1>1. CASE ret /\ w + 1 < NumWbs
  BY SizeFacts, <1>1 DEF ConnectorDone, TypeOK
<1>2. CASE ~(ret /\ w + 1 < NumWbs)
  <2>1. UnitDone(ret)
    BY <1>2 DEF ConnectorDone
  <2>2. rets' \in BOOLEAN /\ (rets' /\ Case \notin StreamCases => rets /\ ret)
    BY <2>1, Zenon DEF UnitDone, TypeOK
  <2>3. matched' \subseteq Units
    BY <2>1 DEF UnitDone, TypeOK
  <2>4. /\ u' = u + 1 /\ w' = 0 /\ pc' \in {"check", "file"}
        /\ pc' = "file" => u + 1 = NumUnits
    BY <2>1 DEF UnitDone
  <2>5. ret => w + 1 >= NumWbs
    <3>1. ret => ~(w + 1 < NumWbs)
      BY <1>2
    <3>2. w \in Int /\ NumWbs \in Int
      <4>1. w \in Wbs
        BY DEF TypeOK
      <4>. QED BY <4>1, SizeAssumption DEF Wbs
    <3>3. w + 1 < NumWbs \/ w + 1 >= NumWbs
      BY <3>2
    <3>. QED BY <3>1, <3>3
  <2>. QED BY SizeFacts, <2>2, <2>3, <2>4, <2>5
<1>. QED BY <1>1, <1>2

\* Each step keeps the types; the check needs u to be in range.
LEMMA TypeStep ==
  ASSUME TypeOK, CheckInv, [Next]_vars PROVE TypeOK'
<1>1. CASE Start
  BY SizeFacts, <1>1 DEF Start, DriverReinstall, TypeOK
<1>2. CASE StartRaises
  <2>1. \E loaded \in {installed, FALSE} : Raises(loaded)
    BY <1>2 DEF StartRaises, ReinstallRaises
  <2>. QED BY <2>1, RaisesType
<1>3. CASE RunMissingCase
  BY SizeFacts, <1>3 DEF RunMissingCase, Present, TypeOK
<1>4. CASE RunCase
  <2>. USE <1>4
  <2>1. PICK files \in SUBSET (Units \X Wbs), good \in SUBSET (Units \X Wbs) :
          /\ dumped' = files
          /\ out' = [out EXCEPT ![Case] = [x \in Units |-> [y \in Wbs |->
                       IF <<x, y>> \in good THEN "good"
                       ELSE IF <<x, y>> \in files THEN "bad" ELSE @[x][y]]]]
    BY DEF RunCase
  <2>2. Case \in Cases
    BY CaseFact DEF TypeOK
  <2>. DEFINE new == [x \in Units |-> [y \in Wbs |->
                       IF <<x, y>> \in good THEN "good"
                       ELSE IF <<x, y>> \in files THEN "bad" ELSE out[Case][x][y]]]
  <2>3. out' \in FileType
    <3>1. \A x \in Units, y \in Wbs : out[Case][x][y] \in {"none", "good", "bad"}
      <4>1. out[Case] \in [Units -> [Wbs -> {"none", "good", "bad"}]]
        BY <2>2 DEF TypeOK, FileType
      <4>. QED BY <4>1
    <3>2. new \in [Units -> [Wbs -> {"none", "good", "bad"}]]
      BY <3>1
    <3>3. out' = [out EXCEPT ![Case] = new]
      BY <2>1
    <3>4. out \in [Cases -> [Units -> [Wbs -> {"none", "good", "bad"}]]]
      BY DEF TypeOK, FileType
    <3>. HIDE DEF new
    <3>. QED BY <2>2, <3>2, <3>3, <3>4 DEF FileType
  <2>4. unsupport' \in BOOLEAN /\ no_wb' \in BOOLEAN
    BY DEF RunCase
  <2>5. left' \subseteq Units \X Wbs
    BY DEF RunCase, Present
  <2>. QED BY SizeFacts, <2>1, <2>3, <2>4, <2>5 DEF RunCase, TypeOK

<1>5. CASE JudgeUnsupport
  BY SizeFacts, <1>5 DEF JudgeUnsupport, TypeOK
<1>6. CASE JudgeCrc
  BY SizeFacts, <1>6 DEF JudgeCrc, TypeOK
<1>7. CASE JudgeMd5
  BY SizeFacts, <1>7 DEF JudgeMd5, TypeOK
<1>8. CASE CheckSkipped \/ CheckNoMd5 \/ CheckNoFile
  <2>1. u \in Units /\ pc = "check" /\ (ConnectorDone(TRUE) \/ ConnectorDone(FALSE))
    BY <1>8 DEF CheckSkipped, CheckNoMd5, CheckNoFile, CheckInv, Units
  <2>2. /\ u' \in 0 .. NumUnits /\ w' \in Wbs /\ pc' \in {"check", "file"}
        /\ rets' \in BOOLEAN /\ matched' \subseteq Units
    BY <2>1, ConnectorStep
  <2>3. /\ UNCHANGED <<n, found, installed, install_by_runner, args, missing, golden, used>>
        /\ UNCHANGED <<unsupport, no_wb, status, out, verdict, dumped, said, left>>
    BY <1>8 DEF CheckSkipped, CheckNoMd5, CheckNoFile
  <2>4. pc' \in {"start", "run", "judge", "check", "file", "next", "end", "raised"}
    BY <2>2
  <2>. QED BY <2>2, <2>3, <2>4, Zenon DEF TypeOK

<1>9. CASE CheckFile
  <2>1. u \in Units /\ Case \in Cases /\ pc = "check"
    BY <1>9, CaseFact DEF CheckFile, CheckInv, TypeOK, Units
  <2>2. PICK z \in find_dump_file(u, w) :
          /\ ConnectorDone(out[Case][z][w] = "good")
          /\ out' = [out EXCEPT ![Case][z][w] = "none"]
    BY <1>9 DEF CheckFile
  <2>3. out' \in FileType
    BY <2>1, <2>2 DEF TypeOK, FileType
  <2>4. /\ u' \in 0 .. NumUnits /\ w' \in Wbs /\ pc' \in {"check", "file"}
        /\ rets' \in BOOLEAN /\ matched' \subseteq Units
    <3>1. (out[Case][z][w] = "good") \in BOOLEAN
      OBVIOUS
    <3>. QED BY <2>1, <2>2, <3>1, ConnectorStep, Zenon
  <2>. QED BY <1>9, <2>3, <2>4 DEF CheckFile, TypeOK

<1>10. CASE FileCase
  BY SizeFacts, <1>10 DEF FileCase, TypeOK
<1>11. CASE NextCase
  BY SizeFacts, <1>11 DEF NextCase, DriverReinstall, TypeOK
<1>12. CASE NextRaises
  <2>1. \E loaded \in {installed, FALSE} : Raises(loaded)
    BY <1>12 DEF NextRaises, ReinstallRaises
  <2>. QED BY <2>1, RaisesType
<1>13. CASE Finish
  BY SizeFacts, <1>13 DEF Finish, TypeOK
<1>14. CASE FinishRaises
  BY SizeFacts, <1>14 DEF FinishRaises, Raises, TypeOK
<1>15. CASE UNCHANGED vars
  <2>1. UNCHANGED <<pc, n, found, installed, install_by_runner, used, unsupport, no_wb>>
    BY <1>15 DEF vars
  <2>2. UNCHANGED <<status, rets, args, missing, golden, out, u, w, verdict, dumped, said, left, matched>>
    BY <1>15 DEF vars
  <2>3. golden' \in GoldenType /\ out' \in FileType
    BY <2>2 DEF TypeOK
  <2>4. pc' \in {"start", "run", "judge", "check", "file", "next", "end", "raised"} /\ n' \in 1 .. Len(Plan)
    BY <2>1 DEF TypeOK
  <2>5. /\ found' \in BOOLEAN /\ installed' \in BOOLEAN /\ install_by_runner' \in BOOLEAN
        /\ used' \in BOOLEAN /\ unsupport' \in BOOLEAN /\ no_wb' \in BOOLEAN
    BY <2>1 DEF TypeOK
  <2>6. /\ status' \in BOOLEAN /\ rets' \in BOOLEAN
    BY <2>2 DEF TypeOK
  <2>7. /\ args' \in Args /\ missing' \subseteq MayMiss
    BY <2>2 DEF TypeOK
  <2>8. /\ u' \in 0 .. NumUnits /\ w' \in Wbs
        /\ verdict' \in [1 .. Len(Plan) -> {"none", "pass", "fail", "unsupport"}]
    BY <2>2 DEF TypeOK
  <2>9. /\ dumped' \subseteq Units \X Wbs /\ left' \subseteq Units \X Wbs
        /\ said' \in {"none", "Unsupport", "no wb"}
        /\ matched' \subseteq Units
    BY <2>2 DEF TypeOK
  <2>. QED BY <2>3, <2>4, <2>5, <2>6, <2>7, <2>8, <2>9 DEF TypeOK
<1>. QED BY <1>1, <1>2, <1>3, <1>4, <1>5, <1>6, <1>7, <1>8, <1>9, <1>10, <1>11, <1>12, <1>13, <1>14, <1>15 DEF Next

\* A unit is matched before the check goes on to the next.
LEMMA ConnectorCheck ==
  ASSUME TypeOK, CheckInv, NEW ret \in BOOLEAN, pc = "check", ConnectorDone(ret),
         UNCHANGED <<n, verdict, args>>
  PROVE  CheckInv'
<1>1. Case' = Case
  BY DEF Case
<1>2. CASE ret /\ w + 1 < NumWbs
  BY <1>1, <1>2 DEF ConnectorDone, CheckInv
<1>3. CASE ~(ret /\ w + 1 < NumWbs)
  <2>1. UnitDone(ret)
    BY <1>3 DEF ConnectorDone
  <2>2. u \in 0 .. NumUnits - 1 /\ u' = u + 1
    BY <2>1 DEF UnitDone, CheckInv
  <2>3. pc' = IF u + 1 = NumUnits THEN "file" ELSE "check"
    BY <2>1 DEF UnitDone
  <2>4. ASSUME rets', Case \notin StreamCases PROVE rets /\ matched' = matched \cup {u}
    BY <2>1, <2>4 DEF UnitDone
  <2>5. ASSUME rets', Case \notin StreamCases PROVE matched' = 0 .. u
    <3>1. matched = 0 .. u - 1
      BY <2>4, <2>5 DEF CheckInv
    <3>2. (0 .. u - 1) \cup {u} = 0 .. u
      BY <2>2, SizeAssumption
    <3>3. matched' = matched \cup {u}
      BY <2>4, <2>5
    <3>. QED BY <3>1, <3>2, <3>3
  <2>6. pc' \in {"check", "file"}
    BY <2>3
  <2>7. pc' = "check" => u' \in 0 .. NumUnits - 1
    BY <2>2, <2>3, SizeAssumption
  <2>8. u' - 1 = u /\ (pc' = "file" => 0 .. u = Units)
    BY <2>2, <2>3, SizeAssumption DEF Units
  <2>. QED BY <1>1, <2>5, <2>6, <2>7, <2>8 DEF CheckInv
<1>. QED BY <1>2, <1>3

\* The check passes a case only when it passed its units, one by one.
LEMMA CheckStep ==
  ASSUME TypeOK, CheckInv, [Next]_vars PROVE CheckInv'
<1>1. CASE Start
  BY <1>1 DEF Start, DriverReinstall, TypeOK, CheckInv, Case
<1>2. CASE StartRaises
  BY <1>2 DEF StartRaises, ReinstallRaises, Raises, TypeOK, CheckInv, Case
<1>3. CASE RunMissingCase
  BY <1>3 DEF RunMissingCase, TypeOK, CheckInv, Case
<1>4. CASE RunCase
  BY <1>4 DEF RunCase, TypeOK, CheckInv, Case
<1>5. CASE JudgeUnsupport
  BY <1>5 DEF JudgeUnsupport, TypeOK, CheckInv, Case
<1>6. CASE JudgeCrc
  BY <1>6 DEF JudgeCrc, TypeOK, CheckInv, Case
<1>7. CASE JudgeMd5
  <2>1. 0 \in 0 .. NumUnits - 1 /\ 0 .. 0 - 1 = {}
    BY SizeAssumption
  <2>. QED BY <1>7, <2>1 DEF JudgeMd5, TypeOK, CheckInv, Case

<1>8. CASE CheckSkipped \/ CheckNoMd5 \/ CheckNoFile
  <2>1. /\ pc = "check" /\ UNCHANGED <<n, verdict, args>>
        /\ ConnectorDone(TRUE) \/ ConnectorDone(FALSE)
    BY <1>8 DEF CheckSkipped, CheckNoMd5, CheckNoFile
  <2>. QED BY <2>1, ConnectorCheck

<1>9. CASE CheckFile
  <2>1. /\ pc = "check" /\ UNCHANGED <<n, verdict, args>>
        /\ \E ret \in BOOLEAN : ConnectorDone(ret)
    <3>1. pc = "check" /\ UNCHANGED <<n, verdict, args>>
      BY <1>9 DEF CheckFile
    <3>2. PICK z \in find_dump_file(u, w) : ConnectorDone(out[Case][z][w] = "good")
      BY <1>9 DEF CheckFile
    <3>3. (out[Case][z][w] = "good") \in BOOLEAN
      OBVIOUS
    <3>. QED BY <3>1, <3>2, <3>3, Zenon
  <2>. QED BY <2>1, ConnectorCheck

<1>10. CASE FileCase
  BY <1>10 DEF FileCase, TypeOK, CheckInv, Case
<1>11. CASE NextCase
  BY <1>11 DEF NextCase, DriverReinstall, TypeOK, CheckInv, Case
<1>12. CASE NextRaises
  BY <1>12 DEF NextRaises, ReinstallRaises, Raises, TypeOK, CheckInv, Case
<1>13. CASE Finish
  BY <1>13 DEF Finish, TypeOK, CheckInv, Case
<1>14. CASE FinishRaises
  BY <1>14 DEF FinishRaises, Raises, TypeOK, CheckInv, Case
<1>15. CASE UNCHANGED vars
  BY <1>15 DEF vars, TypeOK, CheckInv, Case
<1>. QED BY <1>1, <1>2, <1>3, <1>4, <1>5, <1>6, <1>7, <1>8, <1>9, <1>10, <1>11, <1>12, <1>13, <1>14, <1>15 DEF Next

\* A flag that a case raised is taken back before the next case.
LEMMA FlagStep ==
  ASSUME TypeOK, FlagInv, [Next]_vars PROVE FlagInv'
<1>1. CASE Start
  BY <1>1 DEF Start, DriverReinstall, TypeOK, FlagInv, UnsupportOfThisCase
<1>2. CASE StartRaises
  BY <1>2 DEF StartRaises, ReinstallRaises, Raises, TypeOK, FlagInv, UnsupportOfThisCase
<1>3. CASE RunMissingCase
  BY <1>3 DEF RunMissingCase, TypeOK, FlagInv, UnsupportOfThisCase
<1>4. CASE RunCase
  BY <1>4 DEF RunCase, TypeOK, FlagInv, UnsupportOfThisCase
<1>5. CASE JudgeUnsupport
  BY <1>5 DEF JudgeUnsupport, TypeOK, FlagInv, UnsupportOfThisCase
<1>6. CASE JudgeCrc
  BY <1>6 DEF JudgeCrc, TypeOK, FlagInv, UnsupportOfThisCase
<1>7. CASE JudgeMd5
  BY <1>7 DEF JudgeMd5, TypeOK, FlagInv, UnsupportOfThisCase
<1>8. CASE CheckSkipped \/ CheckNoMd5 \/ CheckNoFile
  <2>1. /\ pc = "check" /\ (ConnectorDone(TRUE) \/ ConnectorDone(FALSE))
        /\ UNCHANGED <<n, args, unsupport, no_wb, verdict, said>>
    BY <1>8 DEF CheckSkipped, CheckNoMd5, CheckNoFile
  <2>2. pc' \in {"check", "file"}
    BY <2>1 DEF ConnectorDone, UnitDone
  <2>. QED BY <2>1, <2>2 DEF FlagInv, UnsupportOfThisCase
<1>9. CASE CheckFile
  BY <1>9 DEF CheckFile, ConnectorDone, UnitDone, find_dump_file, TypeOK,
              FlagInv, UnsupportOfThisCase
<1>10. CASE FileCase
  BY <1>10 DEF FileCase, TypeOK, FlagInv, UnsupportOfThisCase
<1>11. CASE NextCase
  BY <1>11 DEF NextCase, DriverReinstall, TypeOK, FlagInv, UnsupportOfThisCase
<1>12. CASE NextRaises
  BY <1>12 DEF NextRaises, ReinstallRaises, Raises, TypeOK, FlagInv, UnsupportOfThisCase
<1>13. CASE Finish
  BY <1>13 DEF Finish, TypeOK, FlagInv, UnsupportOfThisCase
<1>14. CASE FinishRaises
  BY <1>14 DEF FinishRaises, Raises, TypeOK, FlagInv, UnsupportOfThisCase
<1>15. CASE UNCHANGED vars
  BY <1>15 DEF vars, TypeOK, FlagInv, UnsupportOfThisCase
<1>. QED BY <1>1, <1>2, <1>3, <1>4, <1>5, <1>6, <1>7, <1>8, <1>9, <1>10, <1>11, <1>12, <1>13, <1>14, <1>15 DEF Next

\* The driver is loaded and unloaded where it should be.
LEMMA DriverStep ==
  ASSUME TypeOK, DriverInv, [Next]_vars PROVE DriverInv'
<1>1. CASE Start
  BY <1>1 DEF Start, DriverReinstall, TypeOK, DriverInv, FreshDriver, DriverLeftAsFound
<1>2. CASE StartRaises
  BY <1>2 DEF StartRaises, ReinstallRaises, Raises, TypeOK, DriverInv, FreshDriver, DriverLeftAsFound
<1>3. CASE RunMissingCase
  BY <1>3 DEF RunMissingCase, TypeOK, DriverInv, FreshDriver, DriverLeftAsFound
<1>4. CASE RunCase
  BY <1>4 DEF RunCase, TypeOK, DriverInv, FreshDriver, DriverLeftAsFound
<1>5. CASE JudgeUnsupport
  BY <1>5 DEF JudgeUnsupport, TypeOK, DriverInv, FreshDriver, DriverLeftAsFound
<1>6. CASE JudgeCrc
  BY <1>6 DEF JudgeCrc, TypeOK, DriverInv, FreshDriver, DriverLeftAsFound
<1>7. CASE JudgeMd5
  BY <1>7 DEF JudgeMd5, TypeOK, DriverInv, FreshDriver, DriverLeftAsFound
<1>8. CASE CheckSkipped \/ CheckNoMd5 \/ CheckNoFile
  BY <1>8 DEF CheckSkipped, CheckNoMd5, CheckNoFile, ConnectorDone, UnitDone, TypeOK,
              DriverInv, FreshDriver, DriverLeftAsFound
<1>9. CASE CheckFile
  BY <1>9 DEF CheckFile, ConnectorDone, UnitDone, find_dump_file, TypeOK,
              DriverInv, FreshDriver, DriverLeftAsFound
<1>10. CASE FileCase
  BY <1>10 DEF FileCase, TypeOK, DriverInv, FreshDriver, DriverLeftAsFound
<1>11. CASE NextCase
  BY <1>11 DEF NextCase, DriverReinstall, TypeOK, DriverInv, FreshDriver, DriverLeftAsFound
<1>12. CASE NextRaises
  BY <1>12 DEF NextRaises, ReinstallRaises, Raises, TypeOK, DriverInv, FreshDriver, DriverLeftAsFound
<1>13. CASE Finish
  BY <1>13 DEF Finish, TypeOK, DriverInv, FreshDriver, DriverLeftAsFound
<1>14. CASE FinishRaises
  BY <1>14 DEF FinishRaises, Raises, TypeOK, DriverInv, FreshDriver, DriverLeftAsFound
<1>15. CASE UNCHANGED vars
  BY <1>15 DEF vars, TypeOK, DriverInv, FreshDriver, DriverLeftAsFound
<1>. QED BY <1>1, <1>2, <1>3, <1>4, <1>5, <1>6, <1>7, <1>8, <1>9, <1>10, <1>11, <1>12, <1>13, <1>14, <1>15 DEF Next

\* The check goes from connector to connector and from unit to unit.
LEMMA DoneStep ==
  ASSUME u \in Units, w \in Wbs,
         \/ w' = w + 1 /\ u' = u
         \/ w + 1 >= NumWbs /\ w' = 0 /\ u' = u + 1
  PROVE  \A x \in Units, y \in Wbs : Done(x, y)' <=> Done(x, y) \/ (x = u /\ y = w)
BY SizeAssumption DEF Units, Wbs, Done

\* What is found for unit x is its own file, or, for frame 0, that of a later frame.
LEMMA FoundFile ==
  ASSUME NEW x \in Units, NEW y \in Wbs, NEW z \in find_dump_file(x, y)
  PROVE  z \in Units /\ out[Case][z][y] # "none" /\ (x # 0 => z = x)
<1>. DEFINE found_files == {v \in Named(x) : out[Case][v][y] # "none"}
<1>1. found_files \subseteq Nat /\ found_files \subseteq Units
  BY DEF Named, Units
<1>2. found_files # {} /\ z = CHOOSE v \in found_files : \A v2 \in found_files : v <= v2
  BY DEF find_dump_file
<1>3. \E v \in found_files : \A v2 \in found_files : v <= v2
  BY <1>1, <1>2, Least
<1>4. z \in found_files
  <2>. HIDE DEF found_files
  <2>. QED BY <1>2, <1>3
<1>. QED BY <1>1, <1>4 DEF Named

\* The check of a connector leaves what it has done covered: the file it took, if any,
\* is not one that it looks for again.
LEMMA ConnectorCovers ==
  ASSUME TypeOK, CheckInv, DumpInv, pc = "check", NEW ret \in BOOLEAN, ConnectorDone(ret),
         UNCHANGED <<n, args, golden, dumped, left, verdict>>,
         \A x \in Units, y \in Wbs : out[Case][x][y] = "none" => out'[Case][x][y] = "none",
         ret /\ golden[Case][u][w] = "md5sum" =>
           \E z \in find_dump_file(u, w) : out'[Case][z][w] = "none"
  PROVE  DumpInv'
<1>1. u \in Units /\ w \in Wbs /\ Case' = Case /\ Files' = Files
  BY DEF CheckInv, TypeOK, Units, Case, Files
<1>2. pc' \in {"check", "file"}
  BY <1>1, ConnectorStep
<1>3. ASSUME NEW x \in Units, NEW y \in Wbs, out'[Case][x][y] # "none"
      PROVE  <<x, y>> \in Files
  BY <1>3 DEF DumpInv
<1>4. ASSUME rets', Case \notin StreamCases
      PROVE  /\ rets /\ ret
             /\ \A x \in Units, y \in Wbs : Done(x, y)' <=> Done(x, y) \/ (x = u /\ y = w)
             /\ pc' = "file" => u' = NumUnits
  <2>1. /\ rets /\ ret
        /\ \/ w' = w + 1 /\ u' = u /\ pc' = "check"
           \/ /\ w + 1 >= NumWbs /\ w' = 0 /\ u' = u + 1
              /\ pc' = "file" => u + 1 = NumUnits
    BY <1>1, <1>4, ConnectorStep
  <2>. QED BY <1>1, <2>1, DoneStep
<1>5. ASSUME rets', Case \notin StreamCases, NEW x \in Units, NEW y \in Wbs, Done(x, y)'
      PROVE  Covered(x, y)'
  <2>. SUFFICES ASSUME golden[Case][x][y] = "md5sum", <<x, y>> \notin Files
                PROVE  x = 0 /\ \E v \in Units \ {0} :
                         /\ <<v, y>> \in Files /\ out'[Case][v][y] = "none"
                         /\ Done(v, y)' => golden[Case][v][y] # "md5sum"
    BY <1>1 DEF Covered
  <2>1. CASE Done(x, y)
    <3>1. Covered(x, y)
      BY <1>4, <1>5, <2>1 DEF DumpInv
    <3>2. PICK v \in Units \ {0} :
            /\ <<v, y>> \in Files /\ out[Case][v][y] = "none"
            /\ Done(v, y) => golden[Case][v][y] # "md5sum"
      BY <3>1 DEF Covered
    <3>3. x = 0
      BY <3>1 DEF Covered
    <3>4. ASSUME v = u, y = w, golden[Case][v][y] = "md5sum" PROVE FALSE
      <4>1. PICK z \in find_dump_file(u, w) : TRUE
        BY <1>4, <1>5, <3>4
      <4>. QED BY <1>1, <3>2, <3>4, <4>1, FoundFile
    <3>. QED BY <1>4, <1>5, <3>2, <3>3, <3>4
  <2>2. CASE ~Done(x, y)
    <3>1. x = u /\ y = w
      BY <1>4, <1>5, <2>2
    <3>2. PICK z \in find_dump_file(u, w) : out'[Case][z][w] = "none"
      BY <1>4, <1>5, <3>1
    <3>3. z \in Units /\ out[Case][z][w] # "none" /\ (u # 0 => z = u)
      BY <1>1, <3>2, FoundFile
    <3>4. <<z, w>> \in Files
      BY <1>1, <3>3 DEF DumpInv
    <3>5. u = 0 /\ z \in Units \ {0}
      BY <3>1, <3>3, <3>4
    <3>6. ~Done(z, y)
      BY <1>1, <3>1, <3>5 DEF Done, Units, Wbs
    <3>7. ~Done(z, y)'
      BY <1>4, <1>5, <3>1, <3>5, <3>6
    <3>8. out'[Case][z][y] = "none" /\ <<z, y>> \in Files
      BY <3>1, <3>2, <3>4
    <3>. QED BY <3>1, <3>5, <3>7, <3>8
  <2>. QED BY <2>1, <2>2
<1>6. ASSUME rets', Case \notin StreamCases, pc' = "file" PROVE OwnFiles'
  <2>1. Required(Case)' = Required(Case)
    BY <1>1 DEF Required
  <2>2. \A x \in Units, y \in Wbs : Done(x, y)'
    BY <1>4, <1>6, SizeAssumption DEF Done, Units
  <2>3. ASSUME NEW f \in Required(Case) \ Files
        PROVE  f[1] = 0 /\ \E z \in Units : <<z, f[2]>> \in Files \ Required(Case)
    <3>1. /\ f[1] \in Units /\ f[2] \in Wbs /\ f = <<f[1], f[2]>>
          /\ golden[Case][f[1]][f[2]] = "md5sum"
      BY DEF Required
    <3>2. Covered(f[1], f[2])'
      BY <1>5, <1>6, <2>2, <3>1
    <3>3. /\ f[1] = 0
          /\ \E v \in Units \ {0} : <<v, f[2]>> \in Files /\ golden[Case][v][f[2]] # "md5sum"
      BY <1>1, <2>2, <2>3, <3>1, <3>2 DEF Covered
    <3>. QED BY <3>1, <3>3 DEF Required
  <2>. QED BY <1>1, <2>1, <2>3 DEF OwnFiles
<1>. QED BY <1>1, <1>2, <1>3, <1>5, <1>6 DEF DumpInv, PassOnItsFiles

\* A case passes on files that were there when its drmtest ended.
LEMMA DumpStep ==
  ASSUME TypeOK, CheckInv, DumpInv, [Next]_vars
  PROVE  DumpInv'
<1>. USE DEF DumpInv, PassOnItsFiles, Case
<1>0. n \in 1 .. Len(Plan) /\ Case \in Cases /\ out \in FileType
  BY CaseFact DEF TypeOK
<1>1. CASE Start
  BY <1>1 DEF Start, DriverReinstall
<1>2. CASE StartRaises
  BY <1>2 DEF StartRaises, ReinstallRaises, Raises
<1>3. CASE RunMissingCase
  BY <1>3 DEF RunMissingCase, Present, Files, TypeOK
<1>4. CASE RunCase
  <2>1. PICK files \in SUBSET (Units \X Wbs), good \in SUBSET (Units \X Wbs) :
          /\ good \subseteq files /\ dumped' = files /\ left' = Present(Case)
          /\ out' = [out EXCEPT ![Case] = [x \in Units |-> [y \in Wbs |->
                       IF <<x, y>> \in good THEN "good"
                       ELSE IF <<x, y>> \in files THEN "bad" ELSE @[x][y]]]]
    <3>. HIDE DEF DumpInv, PassOnItsFiles, Case
    <3>. QED BY <1>4 DEF RunCase
  <2>2. Case' = Case
    BY <1>4 DEF RunCase
  <2>3. ASSUME NEW x \in Units, NEW y \in Wbs, out'[Case][x][y] # "none"
        PROVE  <<x, y>> \in Files'
    <3>. DEFINE new == [x1 \in Units |-> [y1 \in Wbs |->
                         IF <<x1, y1>> \in good THEN "good"
                         ELSE IF <<x1, y1>> \in files THEN "bad" ELSE out[Case][x1][y1]]]
    <3>1. out'[Case] = new
      BY <1>0, <2>1 DEF FileType
    <3>2. <<x, y>> \in files \/ out[Case][x][y] # "none"
      BY <2>1, <2>3, <3>1
    <3>. QED BY <2>1, <3>2 DEF Files, Present
  <2>. QED BY <1>4, <2>2, <2>3 DEF RunCase
<1>5. CASE JudgeUnsupport
  BY <1>0, <1>5 DEF JudgeUnsupport, TypeOK
<1>6. CASE JudgeCrc
  BY <1>6 DEF JudgeCrc
<1>7. CASE JudgeMd5
  <2>1. pc = "judge" /\ UNCHANGED <<n, out, Files, u, w>> /\ pc' \in {"raised", "check"}
    BY <1>7 DEF JudgeMd5, Files
  <2>2. \A x \in Units, y \in Wbs : ~Done(x, y)'
    BY <2>1, SizeAssumption DEF Done, Units, Wbs
  <2>. QED BY <2>1, <2>2
<1>8. CASE CheckSkipped \/ CheckNoMd5 \/ CheckNoFile
  <2>. HIDE DEF DumpInv, PassOnItsFiles, Case
  <2>1. /\ pc = "check" /\ UNCHANGED <<n, args, golden, out, dumped, left, verdict>>
        /\ \/ ConnectorDone(TRUE) /\ golden[Case][u][w] = "skip"
           \/ ConnectorDone(FALSE)
    BY <1>8 DEF CheckSkipped, CheckNoMd5, CheckNoFile
  <2>. QED BY <2>1, ConnectorCovers
<1>9. CASE CheckFile
  <2>. HIDE DEF DumpInv, PassOnItsFiles, Case
  <2>1. /\ pc = "check" /\ UNCHANGED <<n, args, golden, dumped, left, verdict>>
        /\ u \in Units /\ w \in Wbs
    BY <1>9 DEF CheckFile, CheckInv, Units, TypeOK
  <2>2. PICK z \in find_dump_file(u, w) :
          /\ ConnectorDone(out[Case][z][w] = "good")
          /\ out' = [out EXCEPT ![Case][z][w] = "none"]
    BY <1>9 DEF CheckFile
  <2>3. z \in Units
    BY <2>1, FoundFile
  <2>4. \A x \in Units, y \in Wbs :
          out'[Case][x][y] = IF x = z /\ y = w THEN "none" ELSE out[Case][x][y]
    BY <1>0, <2>1, <2>2, <2>3 DEF FileType
  <2>5. out'[Case][z][w] = "none"
    BY <2>1, <2>3, <2>4
  <2>6. PICK ret \in BOOLEAN : ConnectorDone(ret)
    <3>1. (out[Case][z][w] = "good") \in BOOLEAN
      OBVIOUS
    <3>. QED BY <2>2, <3>1, Zenon
  <2>7. \A x \in Units, y \in Wbs : out[Case][x][y] = "none" => out'[Case][x][y] = "none"
    BY <2>4
  <2>. QED BY <2>1, <2>2, <2>5, <2>6, <2>7, ConnectorCovers
<1>10. CASE FileCase
  <2>1. /\ pc = "file" /\ pc' = "next" /\ verdict'[n] = IF status /\ rets THEN "pass" ELSE "fail"
        /\ UNCHANGED <<n, args, golden, dumped, left>>
    BY <1>0, <1>10 DEF FileCase, TypeOK
  <2>2. verdict'[n] = "pass" => rets
    BY <2>1
  <2>3. Case \notin StreamCases /\ verdict'[n] = "pass" => OwnFiles
    BY <2>1, <2>2
  <2>4. Required(Case)' = Required(Case) /\ Files' = Files
    BY <2>1 DEF Required, Files
  <2>. QED BY <2>1, <2>3, <2>4 DEF OwnFiles, Files
<1>11. CASE NextCase
  BY <1>0, <1>11 DEF NextCase, DriverReinstall
<1>12. CASE NextRaises
  BY <1>0, <1>12 DEF NextRaises, ReinstallRaises, Raises
<1>13. CASE Finish
  BY <1>0, <1>13 DEF Finish
<1>14. CASE FinishRaises
  BY <1>0, <1>14 DEF FinishRaises, Raises
<1>15. CASE UNCHANGED vars
  <2>1. UNCHANGED <<pc, n, args, golden, out, u, w, rets, verdict, dumped, left>>
    BY <1>15 DEF vars
  <2>2. Required(Case)' = Required(Case) /\ Files' = Files /\ OwnFiles' = OwnFiles
    BY <2>1 DEF Required, Files, OwnFiles
  <2>3. \A x \in Units, y \in Wbs : Done(x, y)' = Done(x, y) /\ Covered(x, y)' = Covered(x, y)
    BY <2>1 DEF Done, Covered, Files
  <2>. QED BY <2>1, <2>2, <2>3 DEF Files
<1>. QED BY <1>1, <1>2, <1>3, <1>4, <1>5, <1>6, <1>7, <1>8, <1>9, <1>10, <1>11, <1>12, <1>13, <1>14, <1>15 DEF Next
-----------------------------------------------------------------------------
(* The theorems.                                                           *)

IInv == TypeOK /\ CheckInv /\ FlagInv /\ DriverInv

LEMMA IInvCorrect == Spec => []IInv
<1>1. Init => IInv
  BY InitInv DEF IInv
<1>2. IInv /\ [Next]_vars => IInv'
  BY TypeStep, CheckStep, FlagStep, DriverStep DEF IInv
<1>. QED BY <1>1, <1>2, PTL DEF Spec

\* The type invariant of the runner, for every plan and all options.
THEOREM TypeCorrect == Spec => []TypeOK
<1>1. IInv => TypeOK
  BY DEF IInv
<1>. QED BY <1>1, IInvCorrect, PTL

\* A plan without stream cases: a case that the digest check filed under pass
\* had every one of its frames checked, with the result True.
THEOREM PassedCasesMatched ==
  ASSUME StreamCases = {} PROVE Spec => []PassMeansMatched
<1>1. IInv => PassMeansMatched
  BY DEF IInv, CheckInv, PassMeansMatched
<1>. QED BY <1>1, IInvCorrect, PTL

\* No case is filed under unsupport for what an earlier case said.
THEOREM UnsupportIsOwn == Spec => []UnsupportOfThisCase
<1>1. IInv => UnsupportOfThisCase
  BY DEF IInv, FlagInv
<1>. QED BY <1>1, IInvCorrect, PTL

\* --reinstall: every case of the plan meets a driver no case has used.
THEOREM ReinstallIsFresh == Spec => []FreshDriver
<1>1. IInv => FreshDriver
  BY DEF IInv, DriverInv
<1>. QED BY <1>1, IInvCorrect, PTL

\* A runner that comes to its end leaves the driver as DriverLeftAsFound says.
THEOREM DriverRestored == Spec => []DriverLeftAsFound
<1>1. IInv => DriverLeftAsFound
  BY DEF IInv, DriverInv
<1>. QED BY <1>1, IInvCorrect, PTL

\* A case with frames that the digest check filed under pass had for every connector with
\* a digest a file from its own drmtest or from before, although the file of one frame can
\* be taken for that of another; in particular all of them came from its own drmtest, if
\* every connector has a digest and none of its files was left in output_dir before.
THEOREM PassedOnOwnFiles == Spec => []PassOnItsFiles
<1>1. Init => DumpInv
  BY DEF Init, DumpInv, PassOnItsFiles
<1>2. TypeOK /\ CheckInv /\ DumpInv /\ [Next]_vars => DumpInv'
  BY DumpStep
<1>3. IInv => TypeOK /\ CheckInv
  BY DEF IInv
<1>4. DumpInv => PassOnItsFiles
  BY DEF DumpInv
<1>. QED BY <1>1, <1>2, <1>3, <1>4, IInvCorrect, PTL DEF Spec
=============================================================================
