-------------------------- MODULE CaseMakerProofs --------------------------
(***************************************************************************)
(* Theorems about CaseMaker, for every set of releases, whatever cases     *)
(* their generators return, for every pattern of kills and upgrades.       *)
(* Those about the case that is being written say of which origin it is.   *)
(***************************************************************************)
EXTENDS CaseOrigins, FiniteSetTheorems, FunctionTheorems, NaturalLemmas, TLAPS

(* What a directory holds while the cases of seq are written to it.        *)

\* Of the first n cases, each under its name.
Wholly(directory, r, seq, n, name) ==
  \E x \in 1 .. n : directory[name] = File(r, x, TRUE) /\ seq[x].name = name
Prefix(directory, r, seq, n) ==
  /\ DOMAIN directory = {seq[x].name : x \in 1 .. n}
  /\ \A name \in DOMAIN directory : Wholly(directory, r, seq, n, name)

\* The same, and the file of case n + 1 is open.
Opened(directory, r, seq, n) ==
  /\ DOMAIN directory = {seq[x].name : x \in 1 .. n + 1}
  /\ directory[seq[n + 1].name] = File(r, n + 1, FALSE)
  /\ \A name \in DOMAIN directory : name # seq[n + 1].name => Wholly(directory, r, seq, n, name)

\* One release, and a torn file is the last one.
Ordered(directory) ==
  \A a, b \in DOMAIN directory :
    /\ directory[a].release = directory[b].release
    /\ directory[a].whole # TRUE /\ a # b => directory[b].case < directory[a].case

WriteInv ==
  /\ pc \in {"remove", "maker", "case", "dump", "list"} => complete[cid] = None
  /\ pc \in {"case", "dump", "list"} => Chips # {}
  /\ pc = "maker" => files[cid] = NoFiles
  /\ pc = "list" => saved = Len(cases)
  /\ pc \in {"case", "list"} => Prefix(files[cid], release, cases, saved)
  /\ pc = "dump" => Opened(files[cid], release, cases, saved)

DirInv == \A c \in Cids : Ordered(files[c])

IInv == TypeOK /\ WriteInv /\ DirInv /\ LoadsWhatWasMade
-----------------------------------------------------------------------------
(* Facts about sequences of cases and directories.                         *)

\* What a release has for a cid is a finite sequence, and if it has a chip for it, the
\* cases of that chip.
LEMMA CasesFacts ==
  ASSUME NEW r \in Releases, NEW c
  PROVE  /\ Len(CasesFor(r, c)) \in Nat
         /\ DOMAIN CasesFor(r, c) = 1 .. Len(CasesFor(r, c))
         /\ ChipsOf(r, c) # {} =>
              \E chip \in ChipsOf(r, c) : CasesFor(r, c) = case_gen[r][chip]
<1>1. CASE ChipsOf(r, c) = {}
  BY <1>1 DEF CasesFor
<1>2. CASE ChipsOf(r, c) # {}
  <2>. DEFINE chip == CHOOSE chip \in ChipsOf(r, c) : TRUE
  <2>1. chip \in ChipsOf(r, c)
    BY <1>2
  <2>2. chip \in cid_chip_dict(c) /\ chip \in infos(r)
    BY <2>1 DEF ChipsOf
  <2>3. CasesFor(r, c) = case_gen[r][chip]
    BY <1>2 DEF CasesFor
  <2>. DEFINE some == {case_gen[r][chip][x] : x \in DOMAIN case_gen[r][chip]}
  <2>4. case_gen[r][chip] \in Seq(some)
    BY <2>2, CasesAssumption
  <2>. HIDE DEF some, chip
  <2>. QED BY <2>1, <2>3, <2>4
<1>. QED BY <1>1, <1>2

\* Opening a file for the next case, and filling it.
LEMMA PutOpens ==
  ASSUME NEW directory, NEW r, NEW seq, NEW k \in Nat, Prefix(directory, r, seq, k)
  PROVE  Opened(Put(directory, seq[k + 1].name, File(r, k + 1, FALSE)), r, seq, k)
<1>. DEFINE name == seq[k + 1].name
            after == Put(directory, name, File(r, k + 1, FALSE))
<1>1. DOMAIN after = DOMAIN directory \cup {name}
  BY DEF Put
<1>2. {seq[x].name : x \in 1 .. k + 1} = {seq[x].name : x \in 1 .. k} \cup {name}
  <2>1. 1 .. k + 1 = (1 .. k) \cup {k + 1}
    OBVIOUS
  <2>. QED BY <2>1
<1>3. after[name] = File(r, k + 1, FALSE)
  BY DEF Put
<1>4. ASSUME NEW other \in DOMAIN after, other # name
      PROVE  Wholly(after, r, seq, k, other)
  <2>1. other \in DOMAIN directory /\ after[other] = directory[other]
    BY <1>1, <1>4 DEF Put
  <2>. QED BY <2>1 DEF Prefix, Wholly
<1>. QED BY <1>1, <1>2, <1>3, <1>4 DEF Opened, Prefix

LEMMA DumpFills ==
  ASSUME NEW directory, NEW r, NEW seq, NEW k \in Nat, Opened(directory, r, seq, k)
  PROVE  Prefix(Put(directory, seq[k + 1].name, File(r, k + 1, TRUE)), r, seq, k + 1)
<1>. DEFINE name == seq[k + 1].name
            after == Put(directory, name, File(r, k + 1, TRUE))
<1>1. name \in {seq[x].name : x \in 1 .. k + 1}
  OBVIOUS
<1>2. DOMAIN after = {seq[x].name : x \in 1 .. k + 1} /\ after[name] = File(r, k + 1, TRUE)
  BY <1>1 DEF Opened, Put
<1>3. Wholly(after, r, seq, k + 1, name)
  <2>. HIDE DEF after
  <2>1. k + 1 \in 1 .. k + 1 /\ after[name] = File(r, k + 1, TRUE) /\ seq[k + 1].name = name
    BY <1>2
  <2>. QED BY <2>1 DEF Wholly
<1>4. ASSUME NEW other \in DOMAIN after, other # name
      PROVE  Wholly(after, r, seq, k + 1, other)
  <2>1. other \in DOMAIN directory /\ after[other] = directory[other]
    BY <1>2, <1>4 DEF Put, Opened
  <2>2. Wholly(directory, r, seq, k, other)
    BY <1>4, <2>1 DEF Opened
  <2>. HIDE DEF after
  <2>3. PICK x \in 1 .. k : directory[other] = File(r, x, TRUE) /\ seq[x].name = other
    BY <2>2 DEF Wholly
  <2>4. x \in 1 .. k + 1
    OBVIOUS
  <2>. QED BY <2>1, <2>3, <2>4 DEF Wholly
<1>. QED BY <1>2, <1>3, <1>4 DEF Prefix

\* A directory that is being written is in order, and stays so when files are removed.
LEMMA PrefixOrdered ==
  ASSUME NEW directory, NEW r, NEW seq, NEW k \in Nat, Prefix(directory, r, seq, k)
  PROVE  Ordered(directory)
<1>1. ASSUME NEW name \in DOMAIN directory
      PROVE  directory[name].release = r /\ directory[name].whole = TRUE
  <2>1. PICK x \in 1 .. k : directory[name] = File(r, x, TRUE)
    BY DEF Prefix, Wholly
  <2>. QED BY <2>1 DEF File
<1>. QED BY <1>1 DEF Ordered

LEMMA OpenedOrdered ==
  ASSUME NEW directory, NEW r, NEW seq, NEW k \in Nat, Opened(directory, r, seq, k)
  PROVE  Ordered(directory)
<1>. DEFINE last == seq[k + 1].name
<1>1. ASSUME NEW name \in DOMAIN directory, name # last
      PROVE  /\ directory[name].release = r /\ directory[name].whole = TRUE
             /\ directory[name].case < k + 1
  <2>1. Wholly(directory, r, seq, k, name)
    BY <1>1 DEF Opened
  <2>2. PICK x \in 1 .. k : directory[name] = File(r, x, TRUE)
    BY <2>1 DEF Wholly
  <2>. QED BY <2>2 DEF File
<1>2. directory[last].release = r /\ directory[last].case = k + 1
  BY DEF Opened, File
<1>. HIDE DEF last
<1>. QED BY <1>1, <1>2 DEF Ordered

LEMMA RemovedOrdered ==
  ASSUME NEW directory, NEW left \in SUBSET DOMAIN directory, Ordered(directory)
  PROVE  Ordered([name \in left |-> directory[name]])
BY DEF Ordered

LEMMA PartsOfSubset == ASSUME NEW set PROVE PartsOf(set) \subseteq SUBSET set
BY DEF PartsOf
-----------------------------------------------------------------------------
\* The invariant holds at the start.
LEMMA InitInv == Init => IInv
<1>. SUFFICES ASSUME Init PROVE IInv
  OBVIOUS
<1>1. TypeOK
  BY CasesFacts DEF Init, TypeOK, cases, NoFiles
<1>2. WriteInv
  BY DEF Init, WriteInv
<1>3. DirInv
  BY DEF Init, DirInv, Ordered, NoFiles
<1>4. LoadsWhatWasMade
  BY DEF Init, LoadsWhatWasMade
<1>. QED BY <1>1, <1>2, <1>3, <1>4 DEF IInv

\* Where a directory gets a file.
LEMMA PutType ==
  ASSUME NEW directory, NEW name, NEW r \in Releases, NEW x \in Nat \ {0}, NEW whole \in BOOLEAN,
         \A other \in DOMAIN directory : directory[other] \in Contents
  PROVE  \A other \in DOMAIN Put(directory, name, File(r, x, whole)) :
           Put(directory, name, File(r, x, whole))[other] \in Contents
<1>1. File(r, x, whole) \in Contents
  BY DEF File, Contents
<1>. QED BY <1>1 DEF Put

LEMMA TypeStep == TypeOK /\ WriteInv /\ [Next]_vars => TypeOK'
<1>. SUFFICES ASSUME TypeOK, WriteInv, [Next]_vars PROVE TypeOK'
  OBVIOUS
<1>0. \A r \in Releases : \A c : Len(CasesFor(r, c)) \in Nat
  BY CasesFacts
<1>. USE <1>0
<1>1. CASE UNCHANGED vars
  BY <1>1 DEF TypeOK, vars, cases
<1>2. ASSUME NEW c \in Cids, MakeCases(c) PROVE TypeOK'
  BY <1>2, ReleaseAssumption DEF MakeCases, TypeOK, cases, None
<1>3. CASE RemoveTree
  BY <1>3 DEF RemoveTree, TypeOK, cases, NoFiles
<1>4. CASE RemoveDies
  <2>1. PICK left \in SUBSET DOMAIN files[cid] :
          files' = [files EXCEPT ![cid] = [name \in left |-> files[cid][name]]]
    BY <1>4, PartsOfSubset DEF RemoveDies
  <2>2. cid \in Cids
    BY <1>4 DEF RemoveDies, TypeOK
  <2>3. \A c \in Cids : \A name \in DOMAIN files'[c] : files'[c][name] \in Contents
    BY <2>1, <2>2 DEF TypeOK
  <2>. QED BY <1>4, <2>1, <2>3 DEF RemoveDies, Exit, TypeOK, cases
<1>5. CASE UnknownChip
  BY <1>5 DEF UnknownChip, Exit, TypeOK, cases
<1>6. CASE CaseGen
  BY <1>6 DEF CaseGen, TypeOK, cases
<1>7. CASE GoldenMissing
  BY <1>7 DEF GoldenMissing, Exit, TypeOK, cases
<1>8. CASE SaveOpen
  <2>1. /\ cid \in Cids /\ saved < Len(cases) /\ saved + 1 \in Nat \ {0}
        /\ \A name \in DOMAIN files[cid] : files[cid][name] \in Contents
    BY <1>8 DEF SaveOpen, TypeOK, cases
  <2>2. files' = [files EXCEPT ![cid] = Put(files[cid], cases[saved + 1].name,
                                          File(release, saved + 1, FALSE))]
    BY <1>8 DEF SaveOpen
  <2>3. \A name \in DOMAIN files'[cid] : files'[cid][name] \in Contents
    BY <2>1, <2>2, PutType DEF TypeOK
  <2>4. \A c \in Cids : \A name \in DOMAIN files'[c] : files'[c][name] \in Contents
    BY <2>2, <2>3 DEF TypeOK
  <2>. QED BY <1>8, <2>1, <2>2, <2>4 DEF SaveOpen, TypeOK, cases
<1>9. CASE SaveDump
  <2>1. /\ cid \in Cids /\ saved < Len(cases) /\ saved + 1 \in Nat \ {0}
        /\ \A name \in DOMAIN files[cid] : files[cid][name] \in Contents
    BY <1>9 DEF SaveDump, TypeOK, cases
  <2>2. files' = [files EXCEPT ![cid] = Put(files[cid], cases[saved + 1].name,
                                          File(release, saved + 1, TRUE))]
    BY <1>9 DEF SaveDump
  <2>3. \A name \in DOMAIN files'[cid] : files'[cid][name] \in Contents
    BY <2>1, <2>2, PutType DEF TypeOK
  <2>4. \A c \in Cids : \A name \in DOMAIN files'[c] : files'[c][name] \in Contents
    BY <2>2, <2>3 DEF TypeOK
  <2>5. saved' \in 0 .. Len(cases) /\ cases' = cases
    BY <1>9, <2>1 DEF SaveDump, TypeOK, cases
  <2>6. DOMAIN files' = Cids /\ pc' = "case"
    BY <1>9, <2>2 DEF SaveDump, TypeOK
  <2>. QED BY <1>9, <2>4, <2>5, <2>6 DEF SaveDump, TypeOK
<1>10. CASE ListOpen
  BY <1>10 DEF ListOpen, TypeOK, cases
<1>11. CASE ListWrite
  BY <1>11 DEF ListWrite, Exit, TypeOK, cases
<1>12. CASE ListDies
  BY <1>12 DEF ListDies, Exit, TypeOK, cases
<1>13. CASE Die
  BY <1>13 DEF Die, Exit, TypeOK, cases
<1>14. ASSUME NEW c \in Cids, NEW f, RunDirectory(c, f) \/ RunList(c, f) PROVE TypeOK'
  BY <1>14, ReleaseAssumption DEF RunDirectory, RunList, Run, TypeOK, cases, None
<1>15. CASE RunEnds
  BY <1>15 DEF RunEnds, Exit, TypeOK, cases
<1>16. ASSUME NEW r \in Releases, Install(r) PROVE TypeOK'
  BY <1>16 DEF Install, TypeOK, cases
<1>. QED
  BY <1>1, <1>2, <1>3, <1>4, <1>5, <1>6, <1>7, <1>8, <1>9, <1>10, <1>11, <1>12, <1>13, <1>14, <1>15, <1>16
  DEF Next

LEMMA WriteStep == TypeOK /\ WriteInv /\ [Next]_vars => WriteInv'
<1>. SUFFICES ASSUME TypeOK, WriteInv, [Next]_vars PROVE WriteInv'
  OBVIOUS
<1>1. CASE UNCHANGED vars
  BY <1>1 DEF WriteInv, vars, cases, Chips
<1>2. ASSUME NEW c \in Cids, MakeCases(c) PROVE WriteInv'
  BY <1>2 DEF MakeCases, WriteInv, TypeOK
<1>3. CASE RemoveTree
  BY <1>3 DEF RemoveTree, WriteInv, TypeOK
<1>4. CASE RemoveDies \/ UnknownChip \/ GoldenMissing \/ ListWrite \/ ListDies \/ Die \/ RunEnds
  BY <1>4 DEF RemoveDies, UnknownChip, GoldenMissing, ListWrite, ListDies, Die, RunEnds, Exit, WriteInv
<1>5. CASE CaseGen
  <2>1. Prefix(NoFiles, release, cases, 0)
    BY DEF Prefix, NoFiles
  <2>. QED BY <1>5, <2>1 DEF CaseGen, WriteInv, cases, Chips
<1>6. CASE SaveOpen
  <2>1. saved \in Nat /\ cid \in Cids /\ Prefix(files[cid], release, cases, saved)
    BY <1>6 DEF SaveOpen, TypeOK, WriteInv
  <2>2. files'[cid] = Put(files[cid], cases[saved + 1].name, File(release, saved + 1, FALSE))
    BY <1>6, <2>1 DEF SaveOpen, TypeOK
  <2>3. Opened(files'[cid], release, cases, saved)
    BY <2>1, <2>2, PutOpens
  <2>. QED BY <1>6, <2>3 DEF SaveOpen, WriteInv, cases, Chips
<1>7. CASE SaveDump
  <2>1. saved \in Nat /\ cid \in Cids /\ Opened(files[cid], release, cases, saved)
    BY <1>7 DEF SaveDump, TypeOK, WriteInv
  <2>2. files'[cid] = Put(files[cid], cases[saved + 1].name, File(release, saved + 1, TRUE))
    BY <1>7, <2>1 DEF SaveDump, TypeOK
  <2>3. Prefix(files'[cid], release, cases, saved + 1)
    BY <2>1, <2>2, DumpFills
  <2>. QED BY <1>7, <2>3 DEF SaveDump, WriteInv, cases, Chips
<1>8. CASE ListOpen
  BY <1>8 DEF ListOpen, WriteInv, cases, Chips
<1>9. ASSUME NEW c \in Cids, NEW f, RunDirectory(c, f) \/ RunList(c, f) PROVE WriteInv'
  BY <1>9 DEF RunDirectory, RunList, Run, WriteInv
<1>10. ASSUME NEW r \in Releases, Install(r) PROVE WriteInv'
  BY <1>10 DEF Install, WriteInv
<1>. QED
  BY <1>1, <1>2, <1>3, <1>4, <1>5, <1>6, <1>7, <1>8, <1>9, <1>10 DEF Next
-----------------------------------------------------------------------------
\* A directory is in order after each step: the one that is written by WriteInv, the others
\* are left alone.
LEMMA DirStep == TypeOK /\ WriteInv /\ WriteInv' /\ DirInv /\ [Next]_vars => DirInv'
<1>. SUFFICES ASSUME TypeOK, WriteInv, WriteInv', DirInv, [Next]_vars PROVE DirInv'
  OBVIOUS
<1>1. ASSUME files' = files PROVE DirInv'
  BY <1>1 DEF DirInv
<1>2. CASE RemoveTree
  <2>1. Ordered(NoFiles)
    BY DEF Ordered, NoFiles
  <2>. QED BY <1>2, <2>1 DEF RemoveTree, DirInv, TypeOK
<1>3. CASE RemoveDies
  <2>1. PICK left \in SUBSET DOMAIN files[cid] :
          files' = [files EXCEPT ![cid] = [name \in left |-> files[cid][name]]]
    BY <1>3, PartsOfSubset DEF RemoveDies
  <2>2. cid \in Cids
    BY <1>3 DEF RemoveDies, TypeOK
  <2>3. Ordered([name \in left |-> files[cid][name]])
    BY <2>2, RemovedOrdered DEF DirInv
  <2>. QED BY <2>1, <2>2, <2>3 DEF DirInv, TypeOK
<1>4. CASE SaveOpen
  <2>1. saved \in Nat /\ saved' = saved /\ cid \in Cids /\ cid' = cid
    BY <1>4 DEF SaveOpen, TypeOK
  <2>2. Opened(files'[cid], release', cases', saved)
    BY <1>4, <2>1 DEF SaveOpen, WriteInv
  <2>3. Ordered(files'[cid])
    BY <2>1, <2>2, OpenedOrdered
  <2>. QED BY <1>4, <2>1, <2>3 DEF SaveOpen, DirInv, TypeOK
<1>5. CASE SaveDump
  <2>1. saved + 1 \in Nat /\ saved' = saved + 1 /\ cid \in Cids /\ cid' = cid
    BY <1>5 DEF SaveDump, TypeOK
  <2>2. Prefix(files'[cid], release', cases', saved + 1)
    BY <1>5, <2>1 DEF SaveDump, WriteInv
  <2>3. Ordered(files'[cid])
    BY <2>1, <2>2, PrefixOrdered
  <2>. QED BY <1>5, <2>1, <2>3 DEF SaveDump, DirInv, TypeOK
<1>. QED
  BY <1>1, <1>2, <1>3, <1>4, <1>5
  DEF Next, vars, MakeCases, UnknownChip, CaseGen, GoldenMissing, ListOpen, ListWrite, ListDies, Die,
      RunDirectory, RunList, Run, RunEnds, Install

\* What is claimed of one cid.
MadeAt(c) ==
  complete[c] # None =>
    /\ \E chip \in cid_chip_dict(c) : DOMAIN files[c] = NamesOf(case_gen[complete[c]][chip])
    /\ list[c] = DOMAIN files[c]
    /\ \A name \in DOMAIN files[c] : files[c][name].release = complete[c] /\ files[c][name].whole
    /\ pc = "run" /\ cid = c => loaded \subseteq DOMAIN files[c]

\* A process that is writing touches what belongs to its cid alone.
LEMMA MadeElsewhere ==
  ASSUME NEW c \in Cids, MadeAt(c), pc' # "run",
         files'[c] = files[c], list'[c] = list[c], complete'[c] = complete[c]
  PROVE  MadeAt(c)'
BY DEF MadeAt

\* When the list is written, it and the directory name the cases of the chip.
LEMMA MadeByWriting ==
  ASSUME TypeOK, WriteInv, ListWrite, NEW c \in Cids, c = cid
  PROVE  MadeAt(c)'
<1>1. /\ pc = "list" /\ files' = files /\ pc' = "idle"
      /\ list'[c] = DOMAIN files[c] /\ complete'[c] = release
  BY DEF ListWrite, Exit, TypeOK
<1>2. Prefix(files[c], release, cases, Len(cases)) /\ Chips # {}
  BY <1>1 DEF WriteInv
<1>3. /\ DOMAIN cases = 1 .. Len(cases)
      /\ \E chip \in cid_chip_dict(c) : cases = case_gen[release][chip]
  BY <1>2, CasesFacts DEF TypeOK, cases, Chips, ChipsOf
<1>4. DOMAIN files[c] = NamesOf(cases)
  BY <1>2, <1>3 DEF Prefix, NamesOf
<1>5. \E chip \in cid_chip_dict(c) : DOMAIN files[c] = NamesOf(case_gen[release][chip])
  BY <1>3, <1>4
<1>6. ASSUME NEW name \in DOMAIN files[c]
      PROVE  files[c][name].release = release /\ files[c][name].whole
  <2>1. PICK x \in 1 .. Len(cases) : files[c][name] = File(release, x, TRUE)
    BY <1>2 DEF Prefix, Wholly
  <2>. QED BY <2>1 DEF File
<1>. QED BY <1>1, <1>5, <1>6 DEF MadeAt

LEMMA MadeStep == TypeOK /\ WriteInv /\ LoadsWhatWasMade /\ [Next]_vars => LoadsWhatWasMade'
<1>. SUFFICES ASSUME TypeOK, WriteInv, LoadsWhatWasMade, [Next]_vars, NEW c \in Cids
              PROVE  MadeAt(c)'
  BY DEF LoadsWhatWasMade, MadeAt
<1>0. MadeAt(c)
  BY DEF LoadsWhatWasMade, MadeAt
<1>1. CASE UNCHANGED vars \/ \E r \in Releases : Install(r)
  BY <1>0, <1>1 DEF vars, Install, MadeAt
<1>2. ASSUME NEW d \in Cids, MakeCases(d) PROVE MadeAt(c)'
  <2>1. CASE c = d
    BY <1>2, <2>1 DEF MakeCases, TypeOK, MadeAt
  <2>2. CASE c # d
    BY <1>0, <1>2, <2>2, MadeElsewhere DEF MakeCases
  <2>. QED BY <2>1, <2>2
<1>3. CASE ListWrite
  <2>1. CASE c = cid
    BY <1>3, <2>1, MadeByWriting
  <2>2. CASE c # cid
    BY <1>0, <1>3, <2>2, MadeElsewhere DEF ListWrite, Exit
  <2>. QED BY <2>1, <2>2
<1>4. CASE RemoveTree \/ RemoveDies \/ CaseGen \/ SaveOpen \/ SaveDump \/ ListOpen \/ ListDies
  <2>1. pc \in {"remove", "maker", "case", "dump", "list"} /\ pc' # "run" /\ complete' = complete
    BY <1>4 DEF RemoveTree, RemoveDies, CaseGen, SaveOpen, SaveDump, ListOpen, ListDies, Exit
  <2>2. CASE c = cid
    BY <2>1, <2>2 DEF WriteInv, MadeAt
  <2>3. CASE c # cid
    <3>1. files'[c] = files[c] /\ list'[c] = list[c]
      BY <1>4, <2>3 DEF RemoveTree, RemoveDies, CaseGen, SaveOpen, SaveDump, ListOpen, ListDies, TypeOK
    <3>. QED BY <1>0, <2>1, <3>1, MadeElsewhere
  <2>. QED BY <2>2, <2>3
<1>5. CASE UnknownChip \/ GoldenMissing \/ Die \/ RunEnds
  BY <1>0, <1>5, MadeElsewhere DEF UnknownChip, GoldenMissing, Die, RunEnds, Exit
<1>6. ASSUME NEW d \in Cids, NEW f \in Filters, RunDirectory(d, f) \/ RunList(d, f) PROVE MadeAt(c)'
  <2>1. cid' = d /\ complete' = complete /\ files' = files /\ list' = list
    BY <1>6 DEF RunDirectory, RunList, Run
  <2>2. ASSUME c = d, complete[c] # None PROVE loaded' \subseteq DOMAIN files[c]
    BY <1>0, <1>6, <2>2 DEF RunDirectory, RunList, Run, case_filter, MadeAt
  <2>. QED BY <1>0, <2>1, <2>2 DEF MadeAt
<1>. QED
  BY <1>1, <1>2, <1>3, <1>4, <1>5, <1>6 DEF Next

\* The invariant is inductive.
LEMMA IInvCorrect == Spec => []IInv
<1>1. IInv /\ [Next]_vars => IInv'
  BY TypeStep, WriteStep, DirStep, MadeStep DEF IInv
<1>. QED BY InitInv, <1>1, PTL DEF Spec
-----------------------------------------------------------------------------
(* The theorems.                                                           *)

\* Type correctness of the generation and of what it leaves.
THEOREM TypeCorrect == Spec => []TypeOK
<1>1. IInv => TypeOK
  BY DEF IInv
<1>. QED BY IInvCorrect, <1>1, PTL

\* What the runner loads for a cid after a generation that came to its end (dtest.py:83-94,
\* maker.py:87-122) is of that generation and whole, and the directory and the list name
\* exactly its cases, with whatever processes killed and releases installed before and after.
THEOREM LoadsMade == Spec => []LoadsWhatWasMade
<1>1. IInv => LoadsWhatWasMade
  BY DEF IInv
<1>. QED BY IInvCorrect, <1>1, PTL

\* Wherever a process was killed (dtest.py:75-77, maker.py:54-57, 118-122), a directory
\* holds files of one release, and none but the one written last is torn.
THEOREM TornLast == Spec => []OnlyLastTorn
<1>1. ASSUME IInv PROVE OnlyLastTorn
  <2>1. ASSUME NEW c \in Cids
        PROVE  Cardinality({files[c][name].release : name \in DOMAIN files[c]}) <= 1
    <3>. DEFINE installed == {files[c][name].release : name \in DOMAIN files[c]}
    <3>1. ASSUME DOMAIN files[c] = {} PROVE Cardinality(installed) <= 1
      <4>1. installed = {}
        BY <3>1
      <4>. HIDE DEF installed
      <4>2. Cardinality(installed) = 0
        BY <4>1, FS_EmptySet
      <4>. QED BY <4>2
    <3>2. ASSUME DOMAIN files[c] # {} PROVE Cardinality(installed) <= 1
      <4>1. PICK name \in DOMAIN files[c] : TRUE
        BY <3>2
      <4>2. installed = {files[c][name].release}
        BY <4>1, <1>1 DEF IInv, DirInv, Ordered
      <4>. HIDE DEF installed
      <4>3. Cardinality(installed) = 1
        BY <4>2, FS_Singleton
      <4>. QED BY <4>3
    <3>3. Cardinality(installed) <= 1
      BY <3>1, <3>2
    <3>. QED BY <3>3
  <2>2. ASSUME NEW c \in Cids, NEW a \in DOMAIN files[c], ~files[c][a].whole,
               NEW b \in DOMAIN files[c], a # b
        PROVE  files[c][b].case < files[c][a].case
    BY <1>1, <2>2 DEF IInv, DirInv, Ordered
  <2>. QED BY <2>1, <2>2 DEF OnlyLastTorn
<1>2. IInv => OnlyLastTorn
  BY <1>1
<1>. QED BY IInvCorrect, <1>2, PTL

\* No two cases that a release makes for a cid have the same name.
DistinctNames ==
  \A r \in Releases, c \in Cids : \A x, y \in DOMAIN CasesFor(r, c) :
    CasesFor(r, c)[x].name = CasesFor(r, c)[y].name => x = y

\* No file is lost between the making of the first case and the writing of the list
\* (maker.py:118-122) for any other reason than two cases of the same name.
THEOREM NoneOverwritten == ASSUME DistinctNames PROVE Spec => []NothingOverwritten
<1>1. ASSUME IInv, pc = "list", NEW x \in DOMAIN cases
      PROVE  /\ cases[x].name \in DOMAIN files[cid]
             /\ files[cid][cases[x].name] = File(release, x, TRUE)
  <2>1. Prefix(files[cid], release, cases, Len(cases)) /\ release \in Releases /\ cid \in Cids
    BY <1>1 DEF IInv, WriteInv, TypeOK
  <2>2. DOMAIN cases = 1 .. Len(cases)
    BY <2>1, CasesFacts DEF cases
  <2>3. cases[x].name \in DOMAIN files[cid]
    BY <1>1, <2>1, <2>2 DEF Prefix
  <2>4. PICK y \in 1 .. Len(cases) : files[cid][cases[x].name] = File(release, y, TRUE)
                                     /\ cases[y].name = cases[x].name
    BY <2>1, <2>3 DEF Prefix, Wholly
  <2>5. x = y
    BY <1>1, <2>1, <2>2, <2>4, DistinctNames DEF DistinctNames, cases
  <2>. QED BY <2>3, <2>4, <2>5
<1>2. IInv => NothingOverwritten
  BY <1>1 DEF NothingOverwritten
<1>. QED BY IInvCorrect, <1>2, PTL
-----------------------------------------------------------------------------
(* The case that is being written is one of those that are made.           *)

LEMMA CurrentMade == IInv /\ Written => current \in CasesMade
<1>. SUFFICES ASSUME IInv, Written PROVE current \in CasesMade
  OBVIOUS
<1>1. pc = "dump" /\ saved \in Nat /\ saved < Len(cases) /\ Chips # {} /\ release \in Releases
  BY CasesFacts DEF Written, IInv, TypeOK, WriteInv, cases
<1>2. PICK chip \in ChipsOf(release, cid) : cases = case_gen[release][chip]
  BY <1>1, CasesFacts DEF cases, Chips
<1>3. DOMAIN cases = 1 .. Len(cases) /\ Len(cases) \in Nat
  BY <1>1, CasesFacts DEF cases
<1>4. saved + 1 \in DOMAIN case_gen[release][chip] /\ chip \in infos(release)
  BY <1>1, <1>2, <1>3 DEF ChipsOf
<1>. QED BY <1>1, <1>2, <1>4 DEF current, CasesMade
-----------------------------------------------------------------------------
(* Stripes.                                                                *)

\* The sum of a function that is constant on a finite set.
LEMMA EqualParts ==
  ASSUME NEW fun, IsFiniteSet(DOMAIN fun), NEW a \in Nat, \A x \in DOMAIN fun : fun[x] = a
  PROVE  FoldFunction(+, 0, fun) = a * Cardinality(DOMAIN fun)
<1> DEFINE set == DOMAIN fun
           choice(t) == CHOOSE x \in t : TRUE
           step(g, t) == IF t = {} THEN 0 ELSE fun[choice(t)] + g[t \ {choice(t)}]
           total == [t \in SUBSET set |-> a * Cardinality(t)]
           sum == CHOOSE g : g = [t \in SUBSET set |-> step(g, t)]
<1>1. FoldFunction(+, 0, fun) = sum[set]
  BY DEF FoldFunction, FoldFunctionOnSet, MapThenFoldSet
<1>2. ASSUME NEW t \in SUBSET set
      PROVE  /\ IsFiniteSet(t) /\ Cardinality(t) \in Nat
             /\ t = {} => Cardinality(t) = 0
             /\ t # {} => /\ choice(t) \in t /\ t \ {choice(t)} \in SUBSET set
                          /\ Cardinality(t \ {choice(t)}) = Cardinality(t) - 1
  <2>1. IsFiniteSet(t) /\ Cardinality(t) \in Nat
    BY FS_Subset, FS_CardinalityType
  <2>2. t = {} => Cardinality(t) = 0
    BY FS_EmptySet
  <2>3. t # {} => choice(t) \in t /\ t \ {choice(t)} \in SUBSET set
    OBVIOUS
  <2> HIDE DEF choice
  <2>4. t # {} => Cardinality(t \ {choice(t)}) = Cardinality(t) - 1
    BY <2>1, <2>3, FS_RemoveElement
  <2> QED
    BY <2>1, <2>2, <2>3, <2>4
<1> HIDE DEF set, choice
<1>a. \A t \in SUBSET set : Cardinality(t) \in Nat
  BY <1>2
<1>b. a * 0 = 0 /\ \A n \in Nat : a * n = a + a * (n - 1)
  OBVIOUS
\* The totals are what the definition asks for, ...
<1>3. total = [t \in SUBSET set |-> step(total, t)]
  <2> SUFFICES ASSUME NEW t \in SUBSET set PROVE a * Cardinality(t) = step(total, t)
    OBVIOUS
  <2>1. CASE t = {}
    <3>1. Cardinality(t) = 0 /\ step(total, t) = 0
      BY <1>2, <2>1
    <3> HIDE DEF step
    <3> QED
      BY <1>b, <3>1
  <2>2. CASE t # {}
    <3>1. fun[choice(t)] = a /\ total[t \ {choice(t)}] = a * (Cardinality(t) - 1)
      BY <1>2, <2>2 DEF set
    <3>2. a * Cardinality(t) = a + a * (Cardinality(t) - 1)
      BY <1>a, <1>b
    <3> HIDE DEF total
    <3> QED
      BY <2>2, <3>1, <3>2
  <2> QED
    BY <2>1, <2>2
<1>4. sum = [t \in SUBSET set |-> step(sum, t)]
  <2> HIDE DEF total, step
  <2> QED
    BY <1>3
\* ... and nothing else is: a smallest set where the sum is another would have a smaller one.
<1> HIDE DEF sum, total
<1>5. \A t \in SUBSET set : sum[t] = a * Cardinality(t)
  <2> DEFINE wrong == {t \in SUBSET set : sum[t] # a * Cardinality(t)}
             sizes == {Cardinality(t) : t \in wrong}
  <2> SUFFICES ASSUME wrong # {} PROVE FALSE
    OBVIOUS
  <2>1. sizes \subseteq Nat /\ sizes # {}
    BY <1>a
  <2> HIDE DEF sizes
  <2>2. PICK n \in sizes : \A m \in sizes : n <= m
    BY <2>1, Least
  <2>3. PICK t \in wrong : n = Cardinality(t)
    BY DEF sizes
  <2>4. sum[t] = step(sum, t)
    <3> HIDE DEF step
    <3> QED
      BY <1>4
  <2>5. t # {}
    <3>1. ASSUME t = {} PROVE FALSE
      <4>1. Cardinality(t) = 0 /\ sum[t] = 0
        BY <1>2, <2>4, <3>1
      <4> QED
        BY <1>b, <4>1
    <3> QED
      BY <3>1
  <2> DEFINE rest == t \ {choice(t)}
  <2>6. choice(t) \in set /\ rest \in SUBSET set /\ Cardinality(rest) = n - 1 /\ n \in Nat
    BY <1>2, <2>3, <2>5
  <2>7. rest \notin wrong
    BY <2>1, <2>2, <2>6 DEF sizes
  <2>8. sum[t] = a + a * (n - 1)
    BY <2>4, <2>5, <2>6, <2>7 DEF set
  <2>9. a + a * (n - 1) = a * n
    BY <1>b, <2>6
  <2> QED
    BY <2>3, <2>8, <2>9
<1> QED
  <2>1. set \in SUBSET set
    OBVIOUS
  <2> QED
    BY <1>1, <1>5, <2>1 DEF set

\* The parts that the frames of a case write.
StripesOf(case) == UNION {UNION {Stripes(c) : c \in f.connectors} : f \in case.frames}

\* What StripesTile says of one case.
TilesWhole(case) ==
  /\ \A f, g \in case.frames : \A c \in f.connectors, e \in g.connectors :
       \A r \in Stripes(c), s \in Stripes(e) : f # g => Disjoint(r, s)
  /\ \A f \in case.frames : \A c \in f.connectors : \A r \in Stripes(c) :
       /\ Inside(r, c.wb[1], c.wb[2])
       /\ \A p \in OnCrtc(f, c) : Src(p, "DMA_CONFIG") = {r}
       /\ c.wb[1] * c.wb[2] = FoldFunction(+, 0, [s \in StripesOf(case) |-> Area(s)])

LEMMA StripesOfCurrent == StripesTile <=> (Written => TilesWhole(current))
BY DEF StripesTile, AllStripes, TilesWhole, StripesOf

\* A frame that shows a part of its picture and writes it there in one of size w x h; one
\* that writes no part.
WritesPart(frame, roi, w, h) ==
  \E plane, conn : /\ frame.planes = {plane} /\ frame.connectors = {conn}
                   /\ Stripes(conn) = {roi} /\ conn.wb = <<w, h>>
                   /\ Src(plane, "DMA_CONFIG") = {roi}
WritesNoPart(frame) == \E conn : frame.connectors = {conn} /\ Stripes(conn) = {}

LEMMA StripeFrame ==
  ASSUME NEW roi, NEW w, NEW h
  PROVE  WritesPart(stripe_frame(roi, w, h), roi, w, h)
<1> DEFINE crtc == Crtc(4, NoProps)
           plane == Plane(0, crtc, "AR30", w, h, Prop("DMA_CONFIG", <<roi>>, Full(roi.w, roi.h)))
           conn == WithWb(WithOther(WithProps(Connector(2, crtc, "AR30", roi.w, roi.h), On("WB_STRIPE_POS", <<roi>>)),
                                    compressed \cup {"WBWithStripe"}), w, h)
<1>1. stripe_frame(roi, w, h) = Frame({plane}, {conn})
  BY DEF stripe_frame
<1>2. conn.props = On("WB_STRIPE_POS", <<roi>>) /\ conn.wb = <<w, h>>
  BY DEF WithWb, WithOther, WithProps, Connector
<1>3. Members(<<roi>>) = {roi}
  BY DEF Members
<1>4. Stripes(conn) = {roi}
  <2> HIDE DEF conn
  <2>1. "WB_STRIPE_POS" \in DOMAIN conn.props /\ conn.props["WB_STRIPE_POS"].dst = <<roi>>
    BY <1>2 DEF On, Prop, Parts
  <2> QED
    BY <1>3, <2>1 DEF Stripes, Has, Dst
<1>5. Src(plane, "DMA_CONFIG") = {roi}
  BY <1>3 DEF Plane, Src, Prop, Parts
<1>6. stripe_frame(roi, w, h).planes = {plane} /\ stripe_frame(roi, w, h).connectors = {conn}
  <2> HIDE DEF conn, plane
  <2> QED
    BY <1>1 DEF Frame
<1> HIDE DEF conn, plane
<1> QED
  BY <1>2, <1>4, <1>5, <1>6 DEF WritesPart

LEMMA StripeLast ==
  ASSUME NEW w, NEW h
  PROVE  WritesNoPart(stripe_last(w, h))
<1> DEFINE crtc == Crtc(4, NoProps)
           plane == Plane(0, crtc, "AR30", w, h, Props({"DMA_CONFIG"}))
           conn == WithOther(WithProps(Connector(2, crtc, "AR30", w, h), Props({"WB_STRIPE_POS"})), compressed)
<1>1. stripe_last(w, h) = Frame({plane}, {conn})
  BY DEF stripe_last
<1>2. conn.props = Props({"WB_STRIPE_POS"})
  BY DEF WithOther, WithProps, Connector
<1>3. Stripes(conn) = {}
  <2> HIDE DEF conn
  <2> QED
    BY <1>2 DEF Stripes, Has, Dst, Props, Parts, Members
<1>4. stripe_last(w, h).connectors = {conn}
  <2> HIDE DEF conn, plane
  <2> QED
    BY <1>1 DEF Frame
<1> HIDE DEF conn, plane
<1> QED
  BY <1>3, <1>4 DEF WritesNoPart

\* Four parts of the same size that lie apart in a picture four times that size fill it.
Quarters(rois, w, h) ==
  /\ w \in Nat /\ h \in Nat
  /\ \E a \in Nat : w * h = a * 4 /\ \A k \in 1 .. 4 : Area(rois[k]) = a
  /\ \A k \in 1 .. 4 : Inside(rois[k], w, h)
  /\ \A k, l \in 1 .. 4 : k # l => Disjoint(rois[k], rois[l]) /\ rois[k] # rois[l]

LEMMA StripeCase ==
  ASSUME NEW rois, NEW w, NEW h, Quarters(rois, w, h)
  PROVE  TilesWhole(stripe_case(w, h, rois))
<1> DEFINE case == stripe_case(w, h, rois)
           pictures == [k \in 1 .. 5 |-> IF k = 5 THEN stripe_last(w, h) ELSE stripe_frame(rois[k], w, h)]
           unit(k) == DTestUnit("multiFrame.stripe_" \o S(w) \o "x" \o S(h), k - 1, pictures[k].planes, {},
                                pictures[k].connectors)
<1>1. case.frames = {unit(k) : k \in 1 .. 5}
  BY DEF stripe_case, Frames, DTestFrameUnit
<1>2. ASSUME NEW k \in 1 .. 4 PROVE WritesPart(unit(k), rois[k], w, h)
  <2>1. WritesPart(pictures[k], rois[k], w, h)
    <3>1. pictures[k] = stripe_frame(rois[k], w, h)
      OBVIOUS
    <3> HIDE DEF pictures
    <3> QED
      BY <3>1, StripeFrame
  <2>2. unit(k).planes = pictures[k].planes /\ unit(k).connectors = pictures[k].connectors
    BY DEF DTestUnit
  <2> HIDE DEF pictures, unit
  <2> QED
    BY <2>1, <2>2 DEF WritesPart
<1>3. WritesNoPart(unit(5))
  <2>1. WritesNoPart(pictures[5])
    <3>1. pictures[5] = stripe_last(w, h)
      OBVIOUS
    <3> HIDE DEF pictures
    <3> QED
      BY <3>1, StripeLast
  <2>2. unit(5).connectors = pictures[5].connectors
    BY DEF DTestUnit
  <2> HIDE DEF pictures, unit
  <2> QED
    BY <2>1, <2>2 DEF WritesNoPart
<1> HIDE DEF case, unit
\* Whatever is striped is one of the four.
<1>4. ASSUME NEW f \in case.frames, NEW c \in f.connectors, NEW r \in Stripes(c)
      PROVE  \E k \in 1 .. 4 : /\ f = unit(k) /\ r = rois[k] /\ c.wb = <<w, h>>
                               /\ \A p \in f.planes : Src(p, "DMA_CONFIG") = {r}
  <2>1. PICK k \in 1 .. 5 : f = unit(k)
    BY <1>1
  <2>2. k # 5
    BY <1>3, <2>1 DEF WritesNoPart
  <2>3. k \in 1 .. 4
    BY <2>2
  <2>4. PICK plane, conn : /\ unit(k).planes = {plane} /\ unit(k).connectors = {conn}
                           /\ Stripes(conn) = {rois[k]} /\ conn.wb = <<w, h>>
                           /\ Src(plane, "DMA_CONFIG") = {rois[k]}
    BY <1>2, <2>3 DEF WritesPart
  <2> QED
    BY <2>1, <2>3, <2>4
<1>5. StripesOf(case) = {rois[k] : k \in 1 .. 4}
  <2>1. \A k \in 1 .. 4 : rois[k] \in StripesOf(case)
    BY <1>1, <1>2 DEF StripesOf, WritesPart
  <2>2. \A r \in StripesOf(case) : \E k \in 1 .. 4 : r = rois[k]
    BY <1>4 DEF StripesOf
  <2> QED
    BY <2>1, <2>2
<1>6. PICK a \in Nat : w * h = a * 4 /\ \A k \in 1 .. 4 : Area(rois[k]) = a
  BY DEF Quarters
<1>7. FoldFunction(+, 0, [s \in StripesOf(case) |-> Area(s)]) = w * h
  <2> DEFINE areas == [s \in StripesOf(case) |-> Area(s)]
             part == [k \in 1 .. 4 |-> rois[k]]
  <2>1. IsFiniteSet(1 .. 4) /\ Cardinality(1 .. 4) = 4
    <3>1. 1 \in Int /\ 4 \in Int
      OBVIOUS
    <3>2. IsFiniteSet(1 .. 4)
      BY <3>1, FS_Interval
    <3>3. Cardinality(1 .. 4) = IF 1 > 4 THEN 0 ELSE 4 - 1 + 1
      BY <3>1, FS_Interval, Zenon
    <3> QED
      BY <3>2, <3>3
  <2>2. part \in Bijection(1 .. 4, StripesOf(case))
    <3>1. part \in [1 .. 4 -> StripesOf(case)]
      BY <1>5
    <3>2. \A k, l \in 1 .. 4 : part[k] = part[l] => k = l
      BY DEF Quarters
    <3>3. \A s \in StripesOf(case) : \E k \in 1 .. 4 : part[k] = s
      BY <1>5
    <3> HIDE DEF part
    <3> QED
      BY <3>1, <3>2, <3>3, Fun_IsBij
  <2>3. IsFiniteSet(StripesOf(case)) /\ Cardinality(StripesOf(case)) = 4
    BY <2>1, <2>2, Fun_ExistsBij, FS_Bijection
  <2>4. DOMAIN areas = StripesOf(case) /\ \A s \in DOMAIN areas : areas[s] = a
    BY <1>5, <1>6
  <2> HIDE DEF areas
  <2>5. FoldFunction(+, 0, areas) = a * 4
    BY <2>3, <2>4, EqualParts
  <2> QED
    BY <1>6, <2>5 DEF areas
<1>8. ASSUME NEW f \in case.frames, NEW g \in case.frames, NEW c \in f.connectors, NEW e \in g.connectors,
             NEW r \in Stripes(c), NEW s \in Stripes(e), f # g
      PROVE  Disjoint(r, s)
  <2>1. PICK k \in 1 .. 4 : f = unit(k) /\ r = rois[k]
    BY <1>4
  <2>2. PICK l \in 1 .. 4 : g = unit(l) /\ s = rois[l]
    BY <1>4
  <2> QED
    BY <1>8, <2>1, <2>2 DEF Quarters
<1>9. ASSUME NEW f \in case.frames, NEW c \in f.connectors, NEW r \in Stripes(c)
      PROVE  /\ Inside(r, c.wb[1], c.wb[2]) /\ \A p \in OnCrtc(f, c) : Src(p, "DMA_CONFIG") = {r}
             /\ c.wb[1] * c.wb[2] = w * h
  BY <1>4 DEF Quarters, OnCrtc
<1> QED
  BY <1>7, <1>8, <1>9 DEF TilesWhole, case

\* The parts of the two cases of stripe, of any size.
LEMMA ColumnsFill ==
  ASSUME NEW w \in Nat \ {0}, NEW h \in Nat \ {0}
  PROVE  Quarters(columns(w, h), 4 * w, h)
<1>1. \A k \in 1 .. 4 : columns(w, h)[k] = Rect(w * (k - 1), 0, w, h)
  BY DEF columns
<1>2. w * 0 = 0 /\ w * 1 = w /\ w * 2 = 2 * w /\ w * 3 = 3 * w
  OBVIOUS
<1>3. /\ columns(w, h)[1] = Rect(0, 0, w, h) /\ columns(w, h)[2] = Rect(w, 0, w, h)
      /\ columns(w, h)[3] = Rect(2 * w, 0, w, h) /\ columns(w, h)[4] = Rect(3 * w, 0, w, h)
  BY <1>1, <1>2
<1>4. 4 * w \in Nat /\ w * h \in Nat /\ (4 * w) * h = (w * h) * 4
  OBVIOUS
<1>5. \A k \in 1 .. 4 : k = 1 \/ k = 2 \/ k = 3 \/ k = 4
  OBVIOUS
<1>6. \A k \in 1 .. 4 : Area(columns(w, h)[k]) = w * h
  BY <1>1 DEF Area, Rect
<1>7. \A k \in 1 .. 4 : Inside(columns(w, h)[k], 4 * w, h)
  BY <1>3, <1>5 DEF Inside, Rect
<1>8. \A k, l \in 1 .. 4 : k # l => /\ Disjoint(columns(w, h)[k], columns(w, h)[l])
                                   /\ columns(w, h)[k] # columns(w, h)[l]
  BY <1>3, <1>5 DEF Disjoint, Rect
<1> QED
  BY <1>4, <1>6, <1>7, <1>8 DEF Quarters

LEMMA QuartersFill ==
  ASSUME NEW w \in Nat \ {0}, NEW h \in Nat \ {0}
  PROVE  Quarters(quarters(w, h), 2 * w, 2 * h)
<1>1. /\ quarters(w, h)[1] = Rect(0, 0, w, h) /\ quarters(w, h)[2] = Rect(w, 0, w, h)
      /\ quarters(w, h)[3] = Rect(0, h, w, h) /\ quarters(w, h)[4] = Rect(w, h, w, h)
  BY DEF quarters
<1>4. 2 * w \in Nat /\ 2 * h \in Nat /\ w * h \in Nat /\ (2 * w) * (2 * h) = (w * h) * 4
  OBVIOUS
<1>5. \A k \in 1 .. 4 : k = 1 \/ k = 2 \/ k = 3 \/ k = 4
  OBVIOUS
<1>6. \A k \in 1 .. 4 : Area(quarters(w, h)[k]) = w * h
  BY <1>1, <1>5 DEF Area, Rect
<1>7. \A k \in 1 .. 4 : Inside(quarters(w, h)[k], 2 * w, 2 * h)
  BY <1>1, <1>5 DEF Inside, Rect
<1>8. \A k, l \in 1 .. 4 : k # l => /\ Disjoint(quarters(w, h)[k], quarters(w, h)[l])
                                   /\ quarters(w, h)[k] # quarters(w, h)[l]
  BY <1>1, <1>5 DEF Disjoint, Rect
<1> QED
  BY <1>4, <1>6, <1>7, <1>8 DEF Quarters

LEMMA StripesRight == \A case \in stripe : TilesWhole(case)
<1>1. TilesWhole(stripe_case(2048, 1080, columns(512, 1080)))
  <2>1. Quarters(columns(512, 1080), 2048, 1080)
    <3>1. Quarters(columns(512, 1080), 4 * 512, 1080)
      BY ColumnsFill
    <3> QED
      BY <3>1
  <2> QED
    BY <2>1, StripeCase
<1>2. TilesWhole(stripe_case(4096, 2160, quarters(2048, 1080)))
  <2>1. Quarters(quarters(2048, 1080), 4096, 2160)
    <3>1. Quarters(quarters(2048, 1080), 2 * 2048, 2 * 1080)
      BY QuartersFill
    <3> QED
      BY <3>1
  <2> QED
    BY <2>1, StripeCase
<1> QED
  BY <1>1, <1>2 DEF stripe

\* The frames of a case that is written back in stripes (connector/feature/stripe/stripe.py:30-124)
\* write parts of one picture that do not overlap and fill it, each the part it shows.
THEOREM StripesFill == ASSUME OnlyStriped PROVE Spec => []StripesTile
<1>1. ASSUME IInv, Written PROVE TilesWhole(current)
  <2>1. CASE Striped(current)
    BY <1>1, <2>1, OnlyStriped, CurrentMade, StripesRight DEF OnlyStriped
  <2>2. CASE ~Striped(current)
    <3>1. \A f \in current.frames : \A c \in f.connectors : Stripes(c) = {}
      BY <2>2 DEF Striped, Stripes
    <3> QED
      BY <3>1 DEF TilesWhole
  <2> QED
    BY <2>1, <2>2
<1>2. IInv => StripesTile
  BY <1>1, StripesOfCurrent
<1> QED
  BY IInvCorrect, <1>2, PTL
-----------------------------------------------------------------------------
(* Scalers.                                                                *)

\* What the rounded scale says of the exact one.
LEMMA TenthsBounds ==
  ASSUME NEW s \in Nat \ {0}, NEW d \in Nat, Tenths(d, s) \in 3 .. 80
  PROVE  s <= 4 * d /\ 20 * d <= 161 * s
<1> DEFINE low == (10 * d) \div s
           rest == (10 * d) % s
<1>1. /\ low \in Nat /\ rest \in Nat /\ rest < s
      /\ 10 * d = s * low + rest
  OBVIOUS
<1>2. \/ Tenths(d, s) = low + 1 /\ (2 * rest > s \/ (2 * rest = s /\ (low % 2 = 1 \/ low = 4)))
      \/ Tenths(d, s) = low /\ 2 * rest <= s
  BY <1>1 DEF Tenths
<1> HIDE DEF low, rest
<1>3. \A n \in Nat : (low >= n => s * low >= s * n) /\ (low <= n => s * low <= s * n)
  BY <1>1
<1>4. s <= 4 * d
  <2>1. CASE low >= 3
    <3>1. s * low >= s * 3
      BY <1>3, <2>1
    <3> QED
      BY <1>1, <3>1
  <2>2. CASE low < 3
    <3>1. low = 2 /\ 2 * rest >= s
      BY <1>1, <1>2, <2>2
    <3>2. s * low = s * 2
      BY <3>1
    <3> QED
      BY <1>1, <3>1, <3>2
  <2> QED
    BY <1>1, <2>1, <2>2
<1>5. 20 * d <= 161 * s
  <2>1. CASE low <= 79
    <3>1. s * low <= s * 79
      BY <1>3, <2>1
    <3> QED
      BY <1>1, <3>1
  <2>2. CASE low > 79
    <3>1. low = 80 /\ 2 * rest <= s
      BY <1>1, <1>2, <2>2
    <3>2. s * low = s * 80
      BY <3>1
    <3> QED
      BY <1>1, <3>1, <3>2
  <2> QED
    BY <1>1, <2>1, <2>2
<1> QED
  BY <1>4, <1>5

ScalesBound(o) ==
  Has(o, "SCALER") =>
    \A s \in Src(o, "SCALER"), d \in Dst(o, "SCALER") :
      /\ 4 * d.w >= s.w /\ d.w <= 8 * s.w
      /\ 4 * d.h >= s.h /\ d.h <= 8 * s.h
PlaneFits(p) ==
  Has(p, "SCALER") =>
    \A s \in Src(p, "SCALER"), d \in Dst(p, "SCALER") :
      SizeOf(s) = <<p.w, p.h>> /\ SizeOf(d) = SizeOf(p.at)
ConnFits(conn) ==
  Has(conn.crtc, "SCALER") =>
    \A d \in Dst(conn.crtc, "SCALER") : SizeOf(d) = <<conn.w, conn.h>>
ScalersRight(f) ==
  /\ \A p \in f.planes : PlaneFits(p)
  /\ \A conn \in f.connectors : ConnFits(conn)
  /\ \A o \in f.planes \cup crtcs(f) : ScalesBound(o)

LEMMA ScalersOfCurrent == ScalersAgree <=> (Written => \A f \in current.frames : ScalersRight(f))
BY DEF ScalersAgree, ScalersRight, PlaneFits, ConnFits, ScalesBound

\* Pairs of sizes that a scaler can do.
Sizes == (Nat \ {0}) \X (Nat \ {0})
Scale(s, d) ==
  /\ s \in Sizes /\ d \in Sizes
  /\ 4 * d[1] >= s[1] /\ d[1] <= 8 * s[1]
  /\ 4 * d[2] >= s[2] /\ d[2] <= 8 * s[2]

LEMMA PairsScale ==
  ASSUME NEW modes, modes \subseteq Sizes,
         \A m, n \in modes : m[1] <= 8 * n[1] /\ m[2] <= 8 * n[2],
         NEW p \in ScalePairs(modes)
  PROVE  Scale(p[1], p[2])
<1>1. /\ p[1] \in modes /\ p[2] \in modes
      /\ Tenths(p[2][1], p[1][1]) \in 3 .. 80 /\ Tenths(p[2][2], p[1][2]) \in 3 .. 80
  BY DEF ScalePairs
<1>2. p[1] \in Sizes /\ p[2] \in Sizes
  BY <1>1
<1>3. p[1][1] <= 4 * p[2][1] /\ p[1][2] <= 4 * p[2][2]
  BY <1>1, <1>2, TenthsBounds DEF Sizes
<1> QED
  BY <1>1, <1>2, <1>3 DEF Scale, Sizes

\* What a scaler gets and makes.
ScalesTo(o, s, d) ==
  LET scaler == Scaler(s[1], s[2], d[1], d[2])
  IN  o.props = scaler \/ \E names : o.props = Also(scaler, names)

LEMMA ScalerEnds ==
  ASSUME NEW o, NEW s, NEW d, ScalesTo(o, s, d)
  PROVE  Src(o, "SCALER") = {Rect(0, 0, s[1], s[2])} /\ Dst(o, "SCALER") = {Rect(0, 0, d[1], d[2])}
<1>1. /\ Members(<<Rect(0, 0, s[1], s[2])>>) = {Rect(0, 0, s[1], s[2])}
      /\ Members(<<Rect(0, 0, d[1], d[2])>>) = {Rect(0, 0, d[1], d[2])}
  BY DEF Members
<1>2. o.props["SCALER"] = Parts(<<Rect(0, 0, s[1], s[2])>>, <<Rect(0, 0, d[1], d[2])>>)
  BY DEF ScalesTo, Scaler, Also, Prop, Full
<1>3. /\ o.props["SCALER"].src = <<Rect(0, 0, s[1], s[2])>>
      /\ o.props["SCALER"].dst = <<Rect(0, 0, d[1], d[2])>>
  BY <1>2 DEF Parts
<1> QED
  BY <1>1, <1>3 DEF Src, Dst

LEMMA ScalerBound ==
  ASSUME NEW o, NEW s, NEW d, Scale(s, d), ScalesTo(o, s, d)
  PROVE  ScalesBound(o)
<1>1. Src(o, "SCALER") = {Rect(0, 0, s[1], s[2])} /\ Dst(o, "SCALER") = {Rect(0, 0, d[1], d[2])}
  BY ScalerEnds
<1> QED
  BY <1>1 DEF ScalesBound, Scale, Rect

LEMMA PlaneScaled ==
  ASSUME NEW p, NEW s, NEW d, Scale(s, d), ScalesTo(p, s, d), p.w = s[1], p.h = s[2], p.at.w = d[1], p.at.h = d[2]
  PROVE  PlaneFits(p) /\ ScalesBound(p)
<1>1. Src(p, "SCALER") = {Rect(0, 0, s[1], s[2])} /\ Dst(p, "SCALER") = {Rect(0, 0, d[1], d[2])}
  BY ScalerEnds
<1>2. PlaneFits(p)
  BY <1>1 DEF PlaneFits, SizeOf, Rect
<1> QED
  BY <1>2, ScalerBound

\* What has no scaler.
LEMMA Unscaled ==
  ASSUME NEW o, ~Has(o, "SCALER")
  PROVE  PlaneFits(o) /\ ScalesBound(o)
BY DEF PlaneFits, ScalesBound

LEMMA PlainProps == ASSUME NEW o, NEW names, o.props = Props(names), "SCALER" \notin names PROVE ~Has(o, "SCALER")
BY DEF Has, Props

\* A unit of such planes, CRTCs and connectors.
LEMMA UnitRight ==
  ASSUME NEW f, \A p \in f.planes : PlaneFits(p) /\ ScalesBound(p) /\ ScalesBound(p.crtc),
         \A conn \in f.connectors : ConnFits(conn) /\ ScalesBound(conn.crtc)
  PROVE  ScalersRight(f)
BY DEF ScalersRight, crtcs, crtcsOf

LEMMA SimpleRight ==
  ASSUME NEW name, NEW plane, NEW conn, PlaneFits(plane), ScalesBound(plane), ScalesBound(plane.crtc),
         conn.crtc = plane.crtc, ConnFits(conn)
  PROVE  \A f \in Simple(name, plane, conn).frames : ScalersRight(f)
<1> SUFFICES ASSUME NEW f, f = DTestUnit(name, 0, {plane}, {}, {conn}) PROVE ScalersRight(f)
  BY DEF Simple, Case, DTestFrameUnit
<1>1. f.planes = {plane} /\ f.connectors = {conn}
  BY DEF DTestUnit
<1> QED
  BY <1>1, UnitRight

LEMMA ScaledRight ==
  ASSUME NEW i, NEW label, NEW s, NEW d, Scale(s, d)
  PROVE  \A f \in Scaled(i, label, s, d).frames : ScalersRight(f)
<1> DEFINE plane == PlaneAt(Plane(i, Crtc0, "AR24", s[1], s[2], Scaler(s[1], s[2], d[1], d[2])), 0, 0, d[1], d[2])
           conn == Connector(0, plane.crtc, "AR30", d[1], d[2])
           name == feature(i, "scaler" \o label \o in_out(s, d))
<1>1. Scaled(i, label, s, d) = Simple(name, plane, conn)
  BY DEF Scaled, OnAr30
<1>2. /\ plane.w = s[1] /\ plane.h = s[2] /\ plane.at.w = d[1] /\ plane.at.h = d[2] /\ plane.crtc = Crtc0
      /\ plane.props = Scaler(s[1], s[2], d[1], d[2])
  BY DEF PlaneAt, Plane, Rect
<1>3. conn.crtc = plane.crtc
  BY DEF Connector
<1> HIDE DEF plane, conn, name
<1>4. PlaneFits(plane) /\ ScalesBound(plane)
  BY <1>2, PlaneScaled DEF ScalesTo
<1>5. ~Has(Crtc0, "SCALER")
  BY PlainProps DEF Crtc0, Crtc, NoProps
<1>6. ScalesBound(plane.crtc) /\ ConnFits(conn)
  BY <1>2, <1>3, <1>5, Unscaled DEF ConnFits
<1> QED
  BY <1>1, <1>3, <1>4, <1>6, SimpleRight

LEMMA CrtcScaledRight ==
  ASSUME NEW c, NEW label, NEW s, NEW d, Scale(s, d)
  PROVE  \A f \in CrtcScaled(c, label, s, d).frames : ScalersRight(f)
<1> DEFINE crtc == Crtc(c, Scaler(s[1], s[2], d[1], d[2]))
           plane == Plane(0, crtc, "AR24", s[1], s[2], NoProps)
           conn == Connector(0, crtc, "AR30", d[1], d[2])
           name == crtc_feature(c, "scaler" \o label \o in_out(s, d))
<1>1. CrtcScaled(c, label, s, d) = Simple(name, plane, conn)
  BY DEF CrtcScaled
<1>2. crtc.props = Scaler(s[1], s[2], d[1], d[2])
  BY DEF Crtc
<1>3. plane.crtc = crtc /\ plane.props = NoProps
  BY DEF Plane
<1>4. conn.crtc = crtc /\ conn.w = d[1] /\ conn.h = d[2]
  BY DEF Connector
<1> HIDE DEF crtc, plane, conn, name
<1>5. PlaneFits(plane) /\ ScalesBound(plane)
  BY <1>3, PlainProps, Unscaled DEF NoProps
<1>6. ScalesBound(crtc)
  BY <1>2, ScalerBound DEF ScalesTo
<1>7. ConnFits(conn)
  <2>1. Dst(crtc, "SCALER") = {Rect(0, 0, d[1], d[2])}
    BY <1>2, ScalerEnds DEF ScalesTo
  <2> QED
    BY <1>4, <2>1 DEF ConnFits, SizeOf, Rect
<1> QED
  BY <1>1, <1>3, <1>4, <1>5, <1>6, <1>7, SimpleRight

\* A plane with a place and a rate of its own.
LEMMA PlacedFields ==
  ASSUME NEW i, NEW crtc, NEW format, NEW w, NEW h, NEW properties, NEW x, NEW y, NEW dw, NEW dh, NEW zpos, NEW hz
  PROVE  LET p == At(PlaneAt(Plane(i, crtc, format, w, h, properties), x, y, dw, dh), zpos, hz)
         IN  /\ p.w = w /\ p.h = h /\ p.at.w = dw /\ p.at.h = dh
             /\ p.crtc = crtc /\ p.props = properties
<1> DEFINE placed == PlaneAt(Plane(i, crtc, format, w, h, properties), x, y, dw, dh)
<1>1. /\ placed.w = w /\ placed.h = h /\ placed.crtc = crtc /\ placed.props = properties
      /\ placed.at.w = dw /\ placed.at.h = dh
  BY DEF Plane, PlaneAt, Rect
<1>2. DOMAIN placed = {"id", "crtc", "format", "w", "h", "hz", "at", "zpos", "turned", "props"}
  BY DEF Plane, PlaneAt
<1> DEFINE p == At(placed, zpos, hz)
<1>3. p.w = placed.w /\ p.h = placed.h /\ p.at = placed.at /\ p.crtc = placed.crtc /\ p.props = placed.props
  <2> HIDE DEF placed
  <2> QED
    BY <1>2 DEF At, WithZpos, WithRate
<1> HIDE DEF p, placed
<1> QED
  BY <1>1, <1>3 DEF p, placed

\* The same of a plane whose picture is scaled on the way to its place.
LEMMA PlacedScaled ==
  ASSUME NEW i, NEW crtc, NEW format, NEW sw, NEW sh, NEW dw, NEW dh, NEW properties, NEW zpos, NEW hz,
         Scale(<<sw, sh>>, <<dw, dh>>), ~Has(crtc, "SCALER"),
         \/ properties = Scaler(sw, sh, dw, dh)
         \/ \E names : properties = Also(Scaler(sw, sh, dw, dh), names)
  PROVE  LET p == At(PlaneAt(Plane(i, crtc, format, sw, sh, properties), 0, 0, dw, dh), zpos, hz)
         IN  PlaneFits(p) /\ ScalesBound(p) /\ ScalesBound(p.crtc) /\ p.crtc = crtc
<1> DEFINE p == At(PlaneAt(Plane(i, crtc, format, sw, sh, properties), 0, 0, dw, dh), zpos, hz)
           s == <<sw, sh>>
           d == <<dw, dh>>
<1>1. s[1] = sw /\ s[2] = sh /\ d[1] = dw /\ d[2] = dh /\ Scale(s, d)
  OBVIOUS
<1>2. p.w = sw /\ p.h = sh /\ p.at.w = dw /\ p.at.h = dh /\ p.crtc = crtc /\ p.props = properties
  BY PlacedFields
<1> HIDE DEF p, s, d
<1>3. ScalesTo(p, s, d)
  BY <1>1, <1>2 DEF ScalesTo
<1>4. PlaneFits(p) /\ ScalesBound(p)
  BY <1>1, <1>2, <1>3, PlaneScaled
<1>5. ScalesBound(p.crtc)
  BY <1>2, Unscaled
<1> QED
  BY <1>2, <1>4, <1>5 DEF p

LEMMA ByHand ==
  /\ Scale(<<1024, 768>>, <<1920, 1080>>) /\ Scale(<<2560, 1080>>, <<3840, 2160>>)
  /\ Scale(<<1920, 1080>>, <<2560, 1080>>)
  /\ Scale(<<640, 480>>, <<960, 240>>) /\ Scale(<<2032, 1356>>, <<1344, 2992>>)
  /\ Scale(<<640, 480>>, <<1280, 720>>) /\ Scale(<<1280, 720>>, <<640, 480>>)
BY DEF Scale, Sizes

LEMMA PlainCrtc == ASSUME NEW c PROVE ~Has(Crtc(c, NoProps), "SCALER")
BY PlainProps DEF Crtc, NoProps

LEMMA Scenario1Right == \A case \in scenario1 : \A f \in case.frames : ScalersRight(f)
<1> DEFINE scaler == Scaler(1024, 768, 1920, 1080)
           plane == At(PlaneAt(Plane(0, Crtc0, "AR24", 1024, 768, scaler), 0, 0, 1920, 1080), 0, 60)
           conn == Connector(0, Crtc0, "AR30", 1920, 1080)
           cursor == Cursor(0, Crtc0, Rect(0, 0, 8, 8))
           name == "scenario_case1_1x1024x768_60hz_2surfaces_no_rotate"
           unit == DTestUnit(name, 0, {plane}, {cursor}, {conn})
<1>1. scenario1 = {DTestFrameUnit(name, {unit})}
  BY DEF scenario1, One
<1>2. unit.planes = {plane} /\ unit.connectors = {conn}
  BY DEF DTestUnit
<1>3. PlaneFits(plane) /\ ScalesBound(plane) /\ ScalesBound(plane.crtc)
  <2>1. ~Has(Crtc0, "SCALER")
    BY PlainCrtc DEF Crtc0
  <2> HIDE DEF scaler
  <2> QED
    BY <2>1, ByHand, PlacedScaled DEF scaler
<1>4. ConnFits(conn) /\ ScalesBound(conn.crtc)
  <2>1. conn.crtc = Crtc0
    BY DEF Connector
  <2> HIDE DEF conn
  <2> QED
    BY <2>1, PlainCrtc, Unscaled DEF ConnFits, Crtc0
<1> HIDE DEF unit, plane, conn
<1>5. ScalersRight(unit)
  BY <1>2, <1>3, <1>4, UnitRight
<1> QED
  BY <1>1, <1>5 DEF DTestFrameUnit

\* The frame that the larger scenarios show first.
LEMMA SmallRight ==
  ASSUME NEW i, NEW c, NEW name, NEW k
  PROVE  ScalersRight(Cursored(name, k, Small(i, c), {}))
<1> DEFINE crtc == Crtc(c, NoProps)
           plane == Plane(i, crtc, "AR24", 640, 480, NoProps)
           conn == Connector(0, crtc, "AR30", 640, 480)
           unit == Cursored(name, k, Small(i, c), {})
<1>1. unit.planes = {plane} /\ unit.connectors = {conn}
  BY DEF Cursored, Small, Frame, DTestUnit
<1>2. plane.crtc = crtc /\ plane.props = NoProps /\ conn.crtc = crtc
  BY DEF Plane, Connector
<1>3. ~Has(crtc, "SCALER")
  BY PlainCrtc
<1> HIDE DEF crtc, plane, conn, unit
<1>4. ~Has(plane, "SCALER")
  BY <1>2, PlainProps DEF NoProps
<1>5. ScalersRight(unit)
  BY <1>1, <1>2, <1>3, <1>4, Unscaled, UnitRight DEF ConnFits
<1> QED
  BY <1>5 DEF unit

LEMMA Scenario3Right == \A case \in scenario3 : \A f \in case.frames : ScalersRight(f)
<1> DEFINE below(crtc, i) ==
             At(PlaneAt(Plane(i, crtc, "AR30", 2560, 1080, Scaler(2560, 1080, 3840, 2160)), 0, 0, 3840, 2160), 0, 120)
           scaler == Also(Scaler(1920, 1080, 2560, 1080), {"UP_SAMPLE"})
           above(crtc, i) ==
             At(PlaneAt(Plane(i, crtc, "NV12", 1920, 1080, scaler), 0, 0, 2560, 1080), 1, 120)
           conn(id, crtc) == OfifoIn(WithRate(Connector(id, crtc, "AR30", 3840, 2160), 120))
           crtc2 == Crtc(2, NoProps)
           name == "scenario_case3_2x2560x1080_120hz_4surfaces_rotate180"
           shown == {below(Crtc0, 0), above(Crtc0, 2)} \cup {below(crtc2, 6), above(crtc2, 8)}
           written == {conn(0, Crtc0), conn(1, crtc2)}
           cursors == {Cursor(c.id, c, Rect(0, 0, 16, 16)) : c \in {Crtc0, crtc2}}
           first == Cursored(name, 0, Small(0, 0), {})
           second == Cursored(name, 1, Frame(shown, written), cursors)
<1>1. scenario3 = {DTestFrameUnit(name, {first, second})}
  BY DEF scenario3, AfterSmall
<1>2. ~Has(Crtc0, "SCALER") /\ ~Has(crtc2, "SCALER")
  BY PlainCrtc DEF Crtc0
<1>3. ASSUME NEW crtc, NEW i, ~Has(crtc, "SCALER")
      PROVE  /\ PlaneFits(below(crtc, i)) /\ ScalesBound(below(crtc, i)) /\ ScalesBound(below(crtc, i).crtc)
             /\ PlaneFits(above(crtc, i)) /\ ScalesBound(above(crtc, i)) /\ ScalesBound(above(crtc, i).crtc)
  <2> HIDE DEF scaler
  <2>1. \E names : scaler = Also(Scaler(1920, 1080, 2560, 1080), names)
    BY DEF scaler
  <2>2. PlaneFits(below(crtc, i)) /\ ScalesBound(below(crtc, i)) /\ ScalesBound(below(crtc, i).crtc)
    BY <1>3, ByHand, PlacedScaled
  <2>3. PlaneFits(above(crtc, i)) /\ ScalesBound(above(crtc, i)) /\ ScalesBound(above(crtc, i).crtc)
    BY <1>3, <2>1, ByHand, PlacedScaled
  <2> HIDE DEF below, above
  <2> QED
    BY <2>2, <2>3
<1>4. ASSUME NEW crtc, NEW i, ~Has(crtc, "SCALER")
      PROVE  ConnFits(conn(i, crtc)) /\ ScalesBound(conn(i, crtc).crtc)
  <2> DEFINE it == conn(i, crtc)
  <2>1. it.crtc = crtc
    BY DEF Connector, WithRate, OfifoIn, WithProps
  <2> HIDE DEF it
  <2>2. ConnFits(it) /\ ScalesBound(it.crtc)
    BY <1>4, <2>1, Unscaled DEF ConnFits
  <2> QED
    BY <2>2 DEF it
<1>5. second.planes = shown /\ second.connectors = written
  BY DEF Cursored, Frame, DTestUnit
<1> HIDE DEF below, above, conn, second, first
<1>6. ScalersRight(second)
  <2>1. \A p \in shown : PlaneFits(p) /\ ScalesBound(p) /\ ScalesBound(p.crtc)
    BY <1>2, <1>3
  <2>2. \A c \in written : ConnFits(c) /\ ScalesBound(c.crtc)
    BY <1>2, <1>4
  <2> HIDE DEF shown, written
  <2> QED
    BY <1>5, <2>1, <2>2, UnitRight
<1>7. ScalersRight(first)
  BY SmallRight DEF first
<1> QED
  BY <1>1, <1>6, <1>7 DEF DTestFrameUnit


\* The scaled planes on a display of another size.
LEMMA OtherSizesRight == \A case \in scaler_scaler : \A f \in case.frames : ScalersRight(f)
<1> DEFINE plane(i, s, d) ==
             PlaneAt(Plane(i, Crtc0, "AR24", s[1], s[2], Scaler(s[1], s[2], d[1], d[2])), 0, 0, d[1], d[2])
           conn(i, s, d, size) == Connector(0, plane(i, s, d).crtc, "AR30", size[1], size[2])
<1>1. ASSUME NEW case \in scaler_scaler
      PROVE  \E i, s, d, name, size : Scale(s, d) /\ case = Simple(name, plane(i, s, d), conn(i, s, d, size))
  <2> DEFINE modes == SubSeq(display_mode_list, 1, 2) \o <<<<1080, 2340>>>> \o SubSeq(display_mode_list, 3, 9)
             get_case(i, s, d) == Simple(feature(i, "scaler" \o scales(s, d) \o in_out(s, d)), plane(i, s, d),
                                         conn(i, s, d, FirstFit(modes, d[1], d[2])))
  <2>1. scaler_scaler = {get_case(0, <<640, 480>>, <<960, 240>>), get_case(1, <<2032, 1356>>, <<1344, 2992>>)}
    BY DEF scaler_scaler, OnAr30
  <2>2. \E i, s, d : Scale(s, d) /\ case = get_case(i, s, d)
    <3> HIDE DEF get_case
    <3> QED
      BY <1>1, <2>1, ByHand
  <2> HIDE DEF plane, conn
  <2> QED
    BY <2>2
<1>2. ASSUME NEW i, NEW s, NEW d, NEW name, NEW size, Scale(s, d)
      PROVE  \A f \in Simple(name, plane(i, s, d), conn(i, s, d, size)).frames : ScalersRight(f)
  <2> DEFINE p == plane(i, s, d)
             c == conn(i, s, d, size)
  <2>1. /\ p.w = s[1] /\ p.h = s[2] /\ p.at.w = d[1] /\ p.at.h = d[2] /\ p.crtc = Crtc0
        /\ p.props = Scaler(s[1], s[2], d[1], d[2])
    BY DEF PlaneAt, Plane, Rect
  <2>2. c.crtc = p.crtc
    BY DEF Connector
  <2> HIDE DEF p, c
  <2>3. PlaneFits(p) /\ ScalesBound(p)
    BY <1>2, <2>1, PlaneScaled DEF ScalesTo
  <2>4. ScalesBound(p.crtc) /\ ConnFits(c)
    BY <2>1, <2>2, PlainCrtc, Unscaled DEF ConnFits, Crtc0
  <2>5. \A f \in Simple(name, p, c).frames : ScalersRight(f)
    BY <2>2, <2>3, <2>4, SimpleRight
  <2> QED
    BY <2>5 DEF p, c
<1> HIDE DEF plane, conn
<1> QED
  BY <1>1, <1>2

\* The pairs of the modes that the generators scale between.
LEMMA ModesScale ==
  /\ \A p \in ScalePairs(display_modes) : Scale(p[1], p[2])
  /\ \A p \in ScalePairs({<<640, 480>>, <<3840, 2160>>}) : Scale(p[1], p[2])
<1> DEFINE Modes == {m \in Sizes : 480 <= m[1] /\ m[1] <= 3840 /\ 480 <= m[2] /\ m[2] <= 3840}
<1>0. ASSUME NEW a \in Nat, NEW b \in Nat, 480 <= a, a <= 3840, 480 <= b, b <= 3840
      PROVE  <<a, b>> \in Modes
  <2>1. a \in Nat \ {0} /\ b \in Nat \ {0}
    BY <1>0
  <2>2. <<a, b>> \in Sizes
    BY <2>1 DEF Sizes
  <2> QED
    BY <1>0, <2>2
<1>1. display_modes \subseteq Modes
  <2>1. \A x \in DOMAIN display_mode_list : x \in 1 .. 9
    BY DEF display_mode_list
  <2>2. /\ display_mode_list[1] = <<640, 480>> /\ display_mode_list[2] = <<1280, 720>> /\ display_mode_list[3] = <<1920, 1080>>
        /\ display_mode_list[4] = <<1440, 3520>> /\ display_mode_list[5] = <<2700, 2600>> /\ display_mode_list[6] = <<2500, 2820>>
        /\ display_mode_list[7] = <<2340, 3404>> /\ display_mode_list[8] = <<3200, 1920>> /\ display_mode_list[9] = <<3840, 2160>>
    BY DEF display_mode_list
  <2>3. \A x \in 1 .. 9 : x = 1 \/ x = 2 \/ x = 3 \/ x = 4 \/ x = 5 \/ x = 6 \/ x = 7 \/ x = 8 \/ x = 9
    OBVIOUS
  <2>4. /\ display_mode_list[1] \in Modes /\ display_mode_list[2] \in Modes /\ display_mode_list[3] \in Modes
        /\ display_mode_list[4] \in Modes /\ display_mode_list[5] \in Modes /\ display_mode_list[6] \in Modes
        /\ display_mode_list[7] \in Modes /\ display_mode_list[8] \in Modes /\ display_mode_list[9] \in Modes
    <3> HIDE DEF Modes
    <3> QED
      BY <1>0, <2>2
  <2> HIDE DEF Modes
  <2>5. \A x \in 1 .. 9 : display_mode_list[x] \in Modes
    BY <2>3, <2>4
  <2> QED
    BY <2>1, <2>5 DEF display_modes
<1>2. {<<640, 480>>, <<3840, 2160>>} \subseteq Modes
  <2> HIDE DEF Modes
  <2> QED
    BY <1>0
<1>3. Modes \subseteq Sizes
  OBVIOUS
<1>4. ASSUME NEW m \in Modes, NEW n \in Modes PROVE m[1] <= 8 * n[1] /\ m[2] <= 8 * n[2]
  <2>1. m[1] \in Nat /\ m[2] \in Nat /\ n[1] \in Nat /\ n[2] \in Nat
    BY DEF Sizes
  <2> QED
    BY <2>1
<1> HIDE DEF Modes
<1>5. ASSUME NEW modes, modes \subseteq Modes, NEW p \in ScalePairs(modes)
      PROVE  Scale(p[1], p[2])
  <2>1. modes \subseteq Sizes /\ \A m, n \in modes : m[1] <= 8 * n[1] /\ m[2] <= 8 * n[2]
    BY <1>3, <1>4, <1>5
  <2> QED
    BY <2>1, <1>5, PairsScale
<1> QED
  BY <1>1, <1>2, <1>5

LEMMA ScaledPairsRight ==
  \A case \in scaler_baseScaler \cup scaler_filter84 \cup postpq_scaler : \A f \in case.frames : ScalersRight(f)
<1> SUFFICES ASSUME NEW case \in scaler_baseScaler \cup scaler_filter84 \cup postpq_scaler
             PROVE  \E i, label, s, d : /\ Scale(s, d)
                                        /\ case = Scaled(i, label, s, d) \/ case = CrtcScaled(i, label, s, d)
  BY ScaledRight, CrtcScaledRight
<1>1. CASE case \in scaler_baseScaler
  BY <1>1, ModesScale, ByHand DEF scaler_baseScaler
<1>2. CASE case \in scaler_filter84
  BY <1>2, ModesScale DEF scaler_filter84
<1>3. CASE case \in postpq_scaler
  BY <1>3, ModesScale, ByHand DEF postpq_scaler
<1> QED
  BY <1>1, <1>2, <1>3

\* Every scaler of a case (plane/feature/scaler, crtc/feature/postpq/scaler.py, scenario) gets
\* the picture that is there, makes the one that is needed, and stays within its limits.
\* That no side shrinks to less than a quarter follows from the check of the rounded scale;
\* the check lets a growth of 8.05 pass, so that eightfold is due to the sizes of the modes.
THEOREM ScalersFit == ASSUME OnlyScaled PROVE Spec => []ScalersAgree
<1>1. ASSUME IInv, Written, NEW f \in current.frames PROVE ScalersRight(f)
  <2>1. CASE Scaling(current)
    <3>1. current \in Scalers
      BY <1>1, <2>1, OnlyScaled, CurrentMade DEF OnlyScaled
    <3> QED
      BY <1>1, <3>1, ScaledPairsRight, OtherSizesRight, Scenario1Right, Scenario3Right DEF Scalers
  <2>2. CASE ~Scaling(current)
    <3>1. \A o \in f.planes \cup crtcsOf(f.planes \cup f.connectors) : ~Has(o, "SCALER")
      BY <1>1, <2>2 DEF Scaling
    <3>2. \A p \in f.planes : ~Has(p, "SCALER") /\ ~Has(p.crtc, "SCALER")
      BY <3>1 DEF crtcsOf
    <3>3. \A conn \in f.connectors : ~Has(conn.crtc, "SCALER")
      BY <3>1 DEF crtcsOf
    <3> QED
      BY <3>2, <3>3, Unscaled, UnitRight DEF ConnFits
  <2> QED
    BY <2>1, <2>2
<1>2. IInv => ScalersAgree
  BY <1>1, ScalersOfCurrent
<1> QED
  BY IInvCorrect, <1>2, PTL
-----------------------------------------------------------------------------
(* What obj_gen writes of a frame.                                         *)

\* The property crtcs has every CRTC of a frame exactly if those of its planes are among
\* those of its connectors, or the other way round.
LEMMA CrtcsPicked == ASSUME NEW f PROVE Nested(f) <=> crtcs(f) = crtcsOf(f.planes \cup f.connectors)
<1>1. crtcsOf(f.planes \cup f.connectors) = crtcsOf(f.planes) \cup crtcsOf(f.connectors)
  BY DEF crtcsOf
<1> QED
  BY <1>1 DEF Nested, crtcs

\* If the generators make such frames, of objects with ids of their own, obj_gen
\* (helper.py:219-243) writes every object and every CRTC that something is on.
THEOREM WritesInFull == ASSUME OnlyNested PROVE Spec => []WrittenInFull
<1>1. ASSUME IInv, Written PROVE OwnObjects(current)
  BY <1>1, OnlyNested, CurrentMade DEF OnlyNested
<1>2. ASSUME IInv, Written, NEW f \in current.frames
      PROVE  crtcs(f) = crtcsOf(f.planes \cup f.connectors)
  BY <1>1, <1>2, CrtcsPicked DEF OwnObjects
<1>3. IInv => WrittenInFull
  BY <1>1, <1>2 DEF WrittenInFull, OwnObjects
<1> QED
  BY IInvCorrect, <1>3, PTL
=============================================================================
