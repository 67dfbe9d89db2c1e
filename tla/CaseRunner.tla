----------------------------- MODULE CaseRunner -----------------------------
(***************************************************************************)
(* script/dtest/runner.py and md5_check.py: Runner.__call__ runs drmtest   *)
(* once for each case of a list, compares the digests of the files it      *)
(* dumped with the goldens of the case, and files the case under pass,     *)
(* fail or unsupport.  Around the cases it loads and unloads the driver.   *)
(* drmtest itself is one step here: it may dump any of its files, each     *)
(* with the golden content or not, and end in any way.                     *)
(***************************************************************************)
EXTENDS Naturals, Sequences

CONSTANTS
  Plan,       \* the sequence of cases to run; a case may occur twice
  MayMiss,    \* cases whose file may not exist
  StreamCases,\* cases with streams; the others have frames
  NumUnits,   \* frames or streams of each case, at most 10
  NumWbs,     \* write-back connectors of each
  Goldens,    \* what the cases may say of their connectors
  Leftovers,  \* what the output directory may hold at the start
  Args,       \* the options the runner may be called with
  Faults      \* "insmod": insmod or rmmod fails

Cases == {Plan[x] : x \in 1 .. Len(Plan)}
Units == 0 .. NumUnits - 1
Wbs == 0 .. NumWbs - 1

\* A connector of a unit has the digest it should dump, or a golden without one, or
\* it is skipped: it has no golden, is disabled, or is not in the unit.
GoldenType == [Cases -> [Units -> [Wbs -> {"md5sum", "no md5", "skip"}]]]
FileType == [Cases -> [Units -> [Wbs -> {"none", "good", "bad"}]]]

ASSUME PlanAssumption == Len(Plan) \in Nat \ {0}
ASSUME SizeAssumption == NumUnits \in 1 .. 10 /\ NumWbs \in Nat \ {0}
ASSUME SetAssumption == MayMiss \subseteq Cases /\ StreamCases \subseteq Cases
ASSUME GoldenAssumption == Goldens \subseteq GoldenType
ASSUME LeftoverAssumption == Leftovers \subseteq FileType
ASSUME ArgsAssumption == Args \subseteq [crc_check : BOOLEAN, reinstall : BOOLEAN]
ASSUME FaultAssumption == Faults \subseteq {"insmod"}

VARIABLES
  pc, n,               \* where the runner is, and the case it is at
  found, installed,    \* the driver was loaded at the start; it is loaded
  install_by_runner,
  args, missing,       \* self.crc_check and self.reinstall; the cases that have no file
  golden,              \* the goldens of the cases
  used,                \* a case has run since the driver was loaded
  unsupport, no_wb,    \* self.unsupport, self.no_wb
  status,              \* what __run_case returned
  out,                 \* output_dir: the dumps of each case, good or bad
  u, w, rets,          \* the check: unit, connector, result so far
  verdict,             \* the list each case went to
  dumped, said,        \* history: files and message of the last drmtest
  left,                \* history: the files of its case that were there before it
  matched              \* history: the units whose check was passed

given == <<args, missing, golden>>
driverVars == <<found, installed, install_by_runner>>
checkVars == <<u, w, rets, matched>>
vars == <<pc, n, driverVars, given, used, unsupport, no_wb, status, out, checkVars,
          verdict, dumped, said, left>>

Case == Plan[n]
Present(c) == {f \in Units \X Wbs : out[c][f[1]][f[2]] # "none"}
Required(c) == {f \in Units \X Wbs : golden[c][f[1]][f[2]] = "md5sum"}

\* find_dump_file: the first file of the directory that has the dump name in its
\* name.  "<case>_<wb>" of frame 0 is in "<case>_<wb>_frame<n>" as well; the
\* files are sorted.
Named(x) == IF x = 0 /\ Case \notin StreamCases THEN Units ELSE {x}
find_dump_file(x, y) ==
  LET found_files == {z \in Named(x) : out[Case][z][y] # "none"}
  IN  IF found_files = {} THEN {}
      ELSE {CHOOSE z \in found_files : \A z2 \in found_files : z <= z2}

\* run_cases asks of output_dir only that it exists: the files of an earlier call may be in it.
Init ==
  /\ pc = "start" /\ n = 1
  /\ found \in BOOLEAN /\ installed = found /\ install_by_runner = FALSE
  /\ used = found /\ args \in Args /\ missing \in SUBSET MayMiss
  /\ golden \in Goldens /\ out \in Leftovers
  /\ unsupport = FALSE /\ no_wb = FALSE /\ status = TRUE
  /\ u = 0 /\ w = 0 /\ rets = TRUE
  /\ verdict = [x \in 1 .. Len(Plan) |-> "none"]
  /\ dumped = {} /\ said = "none" /\ matched = {} /\ left = {}
-----------------------------------------------------------------------------
(* DriverMod: lsmod, rmmod, insmod; a command that fails raises.           *)

\* The exception leaves Runner.__call__; loaded is what it leaves installed.
Raises(loaded) ==
  /\ "insmod" \in Faults
  /\ pc' = "raised" /\ installed' = loaded
  /\ UNCHANGED <<n, found, install_by_runner, given, used, unsupport, no_wb, status, out,
                 checkVars, verdict, dumped, said, left>>

\* rmmod fails, or it succeeds and insmod fails
ReinstallRaises == \E loaded \in {installed, FALSE} : Raises(loaded)

\* remove() if it is loaded, then install()
DriverReinstall == installed' = TRUE /\ used' = FALSE

\* Runner.__call__ up to its loop
Start ==
  /\ pc = "start"
  /\ IF args.reinstall \/ ~installed
     THEN DriverReinstall /\ install_by_runner' = TRUE
     ELSE UNCHANGED <<installed, install_by_runner, used>>
  /\ pc' = "run"
  /\ UNCHANGED <<n, found, given, unsupport, no_wb, status, out, checkVars, verdict, dumped,
                 said, left>>

StartRaises == pc = "start" /\ (args.reinstall \/ ~installed) /\ ReinstallRaises
-----------------------------------------------------------------------------
(* One case.                                                               *)

\* __run_case when the case file is not there: warn and return False
RunMissingCase ==
  /\ pc = "run" /\ Case \in missing
  /\ status' = FALSE /\ dumped' = {} /\ said' = "none" /\ matched' = {}
  /\ left' = Present(Case)
  /\ u' = 0 /\ w' = 0 /\ rets' = TRUE
  /\ pc' = "judge"
  /\ UNCHANGED <<n, driverVars, given, used, unsupport, no_wb, out, verdict>>

\* drmtest writes some of its files over those that are there.  What it prints
\* sets a flag: "Unsupport" counts with a non-zero exit code, "no wb for
\* bo_dump" with zero.  Neither the exit code nor a crash makes the run fail.
RunCase ==
  /\ pc = "run" /\ Case \notin missing
  /\ \E files \in SUBSET (Units \X Wbs), good \in SUBSET (Units \X Wbs) :
       /\ good \subseteq files
       /\ dumped' = files /\ left' = Present(Case)
       /\ out' = [out EXCEPT ![Case] = [x \in Units |-> [y \in Wbs |->
                    IF <<x, y>> \in good THEN "good"
                    ELSE IF <<x, y>> \in files THEN "bad" ELSE @[x][y]]]]
  /\ said' \in {"none", "Unsupport", "no wb"}
  /\ unsupport' = (unsupport \/ said' = "Unsupport")
  /\ no_wb' = (no_wb \/ said' = "no wb")
  /\ status' = TRUE /\ used' = TRUE
  /\ u' = 0 /\ w' = 0 /\ rets' = TRUE /\ matched' = {}
  /\ pc' = "judge"
  /\ UNCHANGED <<n, driverVars, given, verdict>>

\* Mutant: the flag is not taken back.
JudgeUnsupport_KeepsFlag ==
  /\ pc = "judge" /\ (unsupport \/ (~args.crc_check /\ no_wb))
  /\ verdict' = [verdict EXCEPT ![n] = "unsupport"]
  /\ pc' = "next"
  /\ UNCHANGED <<n, driverVars, given, used, unsupport, no_wb, status, out, checkVars, dumped,
                 said, left>>

\* if self.unsupport ... elif not self.crc_check and self.no_wb ...
JudgeUnsupport ==
  /\ pc = "judge" /\ (unsupport \/ (~args.crc_check /\ no_wb))
  /\ verdict' = [verdict EXCEPT ![n] = "unsupport"]
  /\ unsupport' = FALSE
  /\ no_wb' = IF unsupport THEN no_wb ELSE FALSE
  /\ pc' = "next"
  /\ UNCHANGED <<n, driverVars, given, used, status, out, checkVars, dumped, said, left>>

\* check_crc_case_golden compares the CRC registers of the display, an input here
JudgeCrc ==
  /\ pc = "judge" /\ ~unsupport /\ args.crc_check
  /\ \E result_matched \in BOOLEAN :
       verdict' = [verdict EXCEPT ![n] = IF status /\ result_matched THEN "pass" ELSE "fail"]
  /\ pc' = "next"
  /\ UNCHANGED <<n, driverVars, given, used, unsupport, no_wb, status, out, checkVars, dumped,
                 said, left>>

\* check_md5_with_case_golden opens the case file, which raises if it is missing
JudgeMd5 ==
  /\ pc = "judge" /\ ~unsupport /\ ~args.crc_check /\ ~no_wb
  /\ pc' = IF Case \in missing THEN "raised" ELSE "check"
  /\ UNCHANGED <<n, driverVars, given, used, unsupport, no_wb, status, out, checkVars, verdict,
                 dumped, said, left>>
-----------------------------------------------------------------------------
(* check_md5_with_case_golden                                              *)

\* Mutant: only the last frame counts.
UnitDone_LastOnly(ret) ==
  /\ rets' = ret
  /\ matched' = IF ret THEN matched \cup {u} ELSE matched
  /\ u' = u + 1 /\ w' = 0
  /\ pc' = IF u + 1 = NumUnits THEN "file" ELSE "check"

\* The unit is done with result ret.  For frames rets = rets & ret; for
\* streams rets = ret & ret.
UnitDone(ret) ==
  /\ rets' = IF Case \in StreamCases THEN ret ELSE rets /\ ret
  /\ matched' = IF ret THEN matched \cup {u} ELSE matched
  /\ u' = u + 1 /\ w' = 0
  /\ pc' = IF u + 1 = NumUnits THEN "file" ELSE "check"

\* The check of connector w ends with result ret; the first FALSE ends the unit.
ConnectorDone(ret) ==
  IF ret /\ w + 1 < NumWbs THEN w' = w + 1 /\ UNCHANGED <<pc, u, rets, matched>>
                            ELSE UnitDone(ret)

\* check_md5_result_of_frame: continue
CheckSkipped ==
  /\ pc = "check" /\ golden[Case][u][w] = "skip"
  /\ ConnectorDone(TRUE)
  /\ UNCHANGED <<n, driverVars, given, used, unsupport, no_wb, status, out, verdict, dumped,
                 said, left>>

\* "no md5 golden in case."
CheckNoMd5 ==
  /\ pc = "check" /\ golden[Case][u][w] = "no md5"
  /\ ConnectorDone(FALSE)
  /\ UNCHANGED <<n, driverVars, given, used, unsupport, no_wb, status, out, verdict, dumped,
                 said, left>>

\* No file for connector w.
CheckNoFile ==
  /\ pc = "check" /\ golden[Case][u][w] = "md5sum" /\ find_dump_file(u, w) = {}
  /\ ConnectorDone(FALSE)
  /\ UNCHANGED <<n, driverVars, given, used, unsupport, no_wb, status, out, verdict, dumped,
                 said, left>>

\* Mutant: the file stays in output_dir.
CheckFile_NoMove ==
  /\ pc = "check" /\ golden[Case][u][w] = "md5sum"
  /\ \E z \in find_dump_file(u, w) : ConnectorDone(out[Case][z][w] = "good")
  /\ UNCHANGED <<n, driverVars, given, used, unsupport, no_wb, status, out, verdict, dumped,
                 said, left>>

\* The file is compared with the golden and moved to pass or fail.  (The frames of a
\* case may have the same golden.)
CheckFile ==
  /\ pc = "check" /\ golden[Case][u][w] = "md5sum"
  /\ \E z \in find_dump_file(u, w) :
       /\ ConnectorDone(out[Case][z][w] = "good")
       /\ out' = [out EXCEPT ![Case][z][w] = "none"]
  /\ UNCHANGED <<n, driverVars, given, used, unsupport, no_wb, status, verdict, dumped, said,
                 left>>

\* status = status & result_matched: pass_cases or fail_cases
FileCase ==
  /\ pc = "file"
  /\ verdict' = [verdict EXCEPT ![n] = IF status /\ rets THEN "pass" ELSE "fail"]
  /\ pc' = "next"
  /\ UNCHANGED <<n, driverVars, given, used, unsupport, no_wb, status, out, checkVars, dumped,
                 said, left>>
-----------------------------------------------------------------------------
(* Between two cases, and after the last.                                  *)

\* Mutants: one case too many; index < len(cases) - 1.
NextCase_NoGuard ==
  /\ pc = "next"
  /\ n' = n + 1 /\ pc' = "run"
  /\ UNCHANGED <<driverVars, given, used, unsupport, no_wb, status, out, checkVars, verdict,
                 dumped, said, left>>

NextCase_OffByOne ==
  /\ pc = "next" /\ n < Len(Plan)
  /\ IF args.reinstall /\ n + 1 < Len(Plan)
     THEN DriverReinstall ELSE UNCHANGED <<installed, used>>
  /\ n' = n + 1 /\ pc' = "run"
  /\ UNCHANGED <<found, install_by_runner, given, unsupport, no_wb, status, out, checkVars,
                 verdict, dumped, said, left>>

\* if self.reinstall and index < len(cases): mod.reinstall()
NextCase ==
  /\ pc = "next" /\ n < Len(Plan)
  /\ IF args.reinstall THEN DriverReinstall ELSE UNCHANGED <<installed, used>>
  /\ n' = n + 1 /\ pc' = "run"
  /\ UNCHANGED <<found, install_by_runner, given, unsupport, no_wb, status, out, checkVars,
                 verdict, dumped, said, left>>

NextRaises == pc = "next" /\ n < Len(Plan) /\ args.reinstall /\ ReinstallRaises

\* Mutant: the driver is always removed.
Finish_Removes ==
  /\ pc = "next" /\ n = Len(Plan)
  /\ installed' = FALSE /\ pc' = "end"
  /\ UNCHANGED <<n, found, install_by_runner, given, used, unsupport, no_wb, status, out,
                 checkVars, verdict, dumped, said, left>>

\* if install_by_runner: mod.remove(); then the results are printed
Finish ==
  /\ pc = "next" /\ n = Len(Plan)
  /\ installed' = (installed /\ ~install_by_runner)
  /\ pc' = "end"
  /\ UNCHANGED <<n, found, install_by_runner, given, used, unsupport, no_wb, status, out,
                 checkVars, verdict, dumped, said, left>>

FinishRaises == pc = "next" /\ n = Len(Plan) /\ install_by_runner /\ Raises(installed)

Next == \/ Start \/ StartRaises
        \/ RunMissingCase \/ RunCase
        \/ JudgeUnsupport \/ JudgeCrc \/ JudgeMd5
        \/ CheckSkipped \/ CheckNoMd5 \/ CheckNoFile \/ CheckFile \/ FileCase
        \/ NextCase \/ NextRaises \/ Finish \/ FinishRaises
        \/ pc \in {"end", "raised"} /\ UNCHANGED vars

Spec == Init /\ [][Next]_vars
-----------------------------------------------------------------------------
(* Properties.                                                             *)

TypeOK ==
  /\ pc \in {"start", "run", "judge", "check", "file", "next", "end", "raised"}
  /\ n \in 1 .. Len(Plan)
  /\ found \in BOOLEAN /\ installed \in BOOLEAN /\ install_by_runner \in BOOLEAN
  /\ used \in BOOLEAN /\ unsupport \in BOOLEAN /\ no_wb \in BOOLEAN
  /\ status \in BOOLEAN /\ rets \in BOOLEAN
  /\ args \in Args /\ missing \subseteq MayMiss
  /\ golden \in GoldenType /\ out \in FileType
  /\ u \in 0 .. NumUnits /\ w \in Wbs
  /\ verdict \in [1 .. Len(Plan) -> {"none", "pass", "fail", "unsupport"}]
  /\ dumped \subseteq Units \X Wbs /\ left \subseteq Units \X Wbs
  /\ said \in {"none", "Unsupport", "no wb"}
  /\ matched \subseteq Units

\* "check the md5sum of result file whether matched with the md5sum golden": a
\* case is passed only when the check of every one of its units returned True.
PassMeansMatched ==
  pc = "next" /\ verdict[n] = "pass" /\ ~args.crc_check => matched = Units

\* A case with frames that is passed had, for every connector with a digest, a file of
\* its own: dumped by its drmtest, or left in output_dir before that.  Only frame 0 can
\* do without, on the file of a frame whose connector is skipped.
PassOnItsFiles ==
  pc = "next" /\ verdict[n] = "pass" /\ ~args.crc_check /\ Case \notin StreamCases =>
    LET files == dumped \cup left
    IN  \A f \in Required(Case) \ files :
          f[1] = 0 /\ \E z \in Units : <<z, f[2]>> \in files \ Required(Case)

\* A case is unsupported because of what its own drmtest said.
UnsupportOfThisCase ==
  pc = "next" /\ verdict[n] = "unsupport" => said # "none"

\* "'--reinstall' means rmmod, insmod driver ko before running each cases".
FreshDriver == pc = "run" /\ args.reinstall => installed /\ ~used

\* The runner that ends leaves a driver it found as it was, unless it had to
\* reinstall it, and leaves none it loaded.
DriverLeftAsFound == pc = "end" => (installed <=> found /\ ~args.reinstall)
=============================================================================
