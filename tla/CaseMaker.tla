----------------------------- MODULE CaseMaker -----------------------------
(***************************************************************************)
(* script/dtest.py --generate --cid <cid> writes the cases of a chip to    *)
(* auto_cases/<cid>, one file each, and their names to list_<cid>.txt;     *)
(* script/dtest.py --case-dir, with or without --list, loads them for the  *)
(* runner.  One process runs at a time.  It can be killed at any step, and *)
(* between two processes another release of the scripts can be installed.  *)
(***************************************************************************)
EXTENDS CaseObjects, Functions

CONSTANTS
  CasesOf,   \* [release -> [chip -> sequence of cases]], the cases the generators return
  GoldenOf,  \* [release -> set of <<chip, kind>>], its golden files
  Upgrades,  \* pairs of releases, the second of which can replace the first
  CidsOf,    \* [release -> set], what is passed as --cid
  Filters,   \* what is passed as --filter: "" for none, else how a name begins
  DieAt,     \* bound, [release -> set]: a process that writes is killed after so many cases
  OnlyOnce,  \* bound: releases that make no cases where they have made a list already
  MaxParts   \* bound: of at most so many files, any part can be left by a killed process

Releases == DOMAIN CasesOf
\* DTestCasesServer.case_gen.  (TLC evaluates a definition once, the value of a constant
\* that a definition stands for at each use.)
case_gen == CasesOf
Cids == UNION {CidsOf[r] : r \in Releases}
infos(r) == DOMAIN case_gen[r]

\* A release has a list of cases for each of its chips.
ASSUME CasesAssumption ==
  \A r \in Releases : \A chip \in infos(r) :
    case_gen[r][chip] \in Seq({case_gen[r][chip][x] : x \in DOMAIN case_gen[r][chip]})

\* Releases are named, not by the word for none.
ASSUME ReleaseAssumption == "none" \notin Releases \cup Cids

VARIABLES
  release,   \* the scripts that are installed
  pc,        \* where the process is, "idle" if there is none
  cid,       \* its --cid
  saved,     \* how many cases it has written
  files,     \* files[c]: the files of auto_cases/<c>, by name
  list,      \* list[c]: the names in list_<c>.txt
  loaded,    \* the cases the runner is given
  complete   \* history: the release that completed the cases of c, if nothing happened to them since

vars == <<release, pc, cid, saved, files, list, loaded, complete>>
-----------------------------------------------------------------------------
None == "none"
NoList == {None}
NoFiles == [name \in {} |-> None]
Starts(s, t) == Len(t) <= Len(s) /\ SubSeq(s, 1, Len(t)) = t

\* Maker.cid_chip_dict.
ChipCids ==
  [dc8200 |-> {"0x311", "0x31b", "0x325", "0x331", "0x333", "0x335", "0x20000008"},
   dc9400 |-> {"0x316", "0x32a", "0x323", "0x334", "0x2000000a", "0x20000005", "0x20000014", "0x20000015",
               "0x2000000b"},
   dc9400_g8 |-> {"0x326", "0x327", "0x329"},
   dc9000nano |-> {"0x20000003"},
   dc9000sr |-> {"0x20000007", "0x40000003"}]
cid_chip_dict(c) == {chip \in DOMAIN ChipCids : c \in ChipCids[chip]}

\* Connector.get_golden_unify: the file the digests are looked up in.
fusa_cid_list == {"0x31b", "0x333", "0x20000008", "0x325"}
HasGolden(r, chip, c) ==
  IF c \in fusa_cid_list THEN <<chip, "fs">> \in GoldenOf[r]
                         ELSE <<chip, c>> \in GoldenOf[r] \/ <<chip, "common">> \in GoldenOf[r]

\* The cases of the process, none if its cid or its chip is unknown.
ChipsOf(r, c) == cid_chip_dict(c) \cap infos(r)
CasesFor(r, c) == IF ChipsOf(r, c) = {} THEN <<>> ELSE case_gen[r][CHOOSE chip \in ChipsOf(r, c) : TRUE]
Chips == ChipsOf(release, cid)
cases == CasesFor(release, cid)
GoldenFound == \E chip \in Chips : HasGolden(release, chip, cid)

\* A file holds a case of a release, wholly or in part.
File(r, x, whole) == [release |-> r, case |-> x, whole |-> whole]
Put(directory, name, file) ==
  [n \in DOMAIN directory \cup {name} |-> IF n = name THEN file ELSE directory[n]]

PartsOf(set) == IF Cardinality(set) <= MaxParts THEN SUBSET set ELSE {{}}

Exit == pc' = "idle" /\ cid' = None /\ saved' = 0

Init ==
  /\ release \in Releases
  /\ pc = "idle" /\ cid = None /\ saved = 0
  /\ files = [c \in Cids |-> NoFiles]
  /\ list = [c \in Cids |-> NoList]
  /\ loaded = {}
  /\ complete = [c \in Cids |-> None]
-----------------------------------------------------------------------------
(* The generation.                                                         *)

MakeCases(c) ==
  /\ pc = "idle" /\ c \in CidsOf[release]
  /\ release \in OnlyOnce => list[c] = NoList
  /\ pc' = "remove" /\ cid' = c
  /\ complete' = [complete EXCEPT ![c] = None]
  /\ UNCHANGED <<release, saved, files, list, loaded>>

\* Mutant: the files of an earlier generation stay.
RemoveTree_Keeps ==
  /\ pc = "remove"
  /\ pc' = "maker"
  /\ UNCHANGED <<release, cid, saved, files, list, loaded, complete>>

\* shutil.rmtree; the directory is made again, empty, by the maker.
RemoveTree ==
  /\ pc = "remove"
  /\ files' = [files EXCEPT ![cid] = NoFiles]
  /\ pc' = "maker"
  /\ UNCHANGED <<release, cid, saved, list, loaded, complete>>

RemoveDies ==
  /\ pc = "remove"
  /\ \E left \in PartsOf(DOMAIN files[cid]) :
       files' = [files EXCEPT ![cid] = [name \in left |-> files[cid][name]]]
  /\ Exit
  /\ UNCHANGED <<release, list, loaded, complete>>

\* An unknown cid, or a chip whose scripts are not in the release.
UnknownChip ==
  /\ pc = "maker" /\ Chips = {}
  /\ Exit
  /\ UNCHANGED <<release, files, list, loaded, complete>>

CaseGen ==
  /\ pc = "maker" /\ Chips # {}
  /\ pc' = "case" /\ saved' = 0
  /\ UNCHANGED <<release, cid, files, list, loaded, complete>>

\* obj_gen, which looks for the digest of every connector, runs before the file is opened.
GoldenMissing ==
  /\ pc = "case" /\ saved < Len(cases) /\ ~GoldenFound
  /\ Exit
  /\ UNCHANGED <<release, files, list, loaded, complete>>

\* _save_json: open(path, 'w') leaves an empty file of the name of the case ...
SaveOpen ==
  /\ pc = "case" /\ saved < Len(cases) /\ GoldenFound
  /\ files' = [files EXCEPT ![cid] = Put(files[cid], cases[saved + 1].name, File(release, saved + 1, FALSE))]
  /\ pc' = "dump"
  /\ UNCHANGED <<release, cid, saved, list, loaded, complete>>

\* Mutants: the file is not closed before the next one is opened; a case is passed over.
SaveDump_LeavesOpen ==
  /\ pc = "dump"
  /\ saved' = saved + 1 /\ pc' = "case"
  /\ UNCHANGED <<release, cid, files, list, loaded, complete>>
SaveDump_PassesOver ==
  /\ pc = "dump"
  /\ files' = [files EXCEPT ![cid] = Put(files[cid], cases[saved + 1].name, File(release, saved + 1, TRUE))]
  /\ saved' = saved + 2 /\ pc' = "case"
  /\ UNCHANGED <<release, cid, list, loaded, complete>>

\* ... which json.dump fills.
SaveDump ==
  /\ pc = "dump"
  /\ files' = [files EXCEPT ![cid] = Put(files[cid], cases[saved + 1].name, File(release, saved + 1, TRUE))]
  /\ saved' = saved + 1 /\ pc' = "case"
  /\ UNCHANGED <<release, cid, list, loaded, complete>>

ListOpen ==
  /\ pc = "case" /\ saved = Len(cases)
  /\ list' = [list EXCEPT ![cid] = {}]
  /\ pc' = "list"
  /\ UNCHANGED <<release, cid, saved, files, loaded, complete>>

ListWrite ==
  /\ pc = "list"
  /\ list' = [list EXCEPT ![cid] = DOMAIN files[cid]]
  /\ complete' = [complete EXCEPT ![cid] = release]
  /\ Exit
  /\ UNCHANGED <<release, files, loaded>>

ListDies ==
  /\ pc = "list"
  /\ \E part \in PartsOf(DOMAIN files[cid]) : list' = [list EXCEPT ![cid] = part]
  /\ Exit
  /\ UNCHANGED <<release, files, loaded, complete>>

Die ==
  /\ pc \in {"maker", "case", "dump"} /\ saved \in DieAt[release]
  /\ Exit
  /\ UNCHANGED <<release, files, list, loaded, complete>>
-----------------------------------------------------------------------------
(* The runner: load_cases and case_filter.                                 *)

case_filter(names, f) == {name \in names : Starts(name, f)}

Run(c, names, f) ==
  /\ pc = "idle"
  /\ loaded' = case_filter(names, f)
  /\ pc' = "run" /\ cid' = c
  /\ UNCHANGED <<release, saved, files, list, complete>>

RunDirectory(c, f) == Run(c, DOMAIN files[c], f)
RunList(c, f) == list[c] # NoList /\ Run(c, list[c], f)

RunEnds ==
  /\ pc = "run"
  /\ loaded' = {}
  /\ Exit
  /\ UNCHANGED <<release, files, list, complete>>

Install(r) ==
  /\ pc = "idle" /\ <<release, r>> \in Upgrades
  /\ release' = r
  /\ UNCHANGED <<pc, cid, saved, files, list, loaded, complete>>

Next ==
  \/ \E c \in Cids : MakeCases(c)
  \/ RemoveTree \/ RemoveDies \/ UnknownChip \/ CaseGen
  \/ GoldenMissing \/ SaveOpen \/ SaveDump
  \/ ListOpen \/ ListWrite \/ ListDies \/ Die
  \/ \E c \in Cids, f \in Filters : RunDirectory(c, f) \/ RunList(c, f)
  \/ RunEnds
  \/ \E r \in Releases : Install(r)

Spec == Init /\ [][Next]_vars
-----------------------------------------------------------------------------
(* What holds of the directories and lists.                                *)

Contents == [release : Releases, case : Nat \ {0}, whole : BOOLEAN]

\* Type invariant; only a process that writes cases counts them.
TypeOK ==
  /\ release \in Releases
  /\ pc \in {"idle", "remove", "maker", "case", "dump", "list", "run"}
  /\ cid \in Cids \cup {None} /\ (cid = None <=> pc = "idle")
  /\ saved \in 0 .. Len(cases)
  /\ pc = "dump" => saved < Len(cases)
  /\ pc \notin {"case", "dump", "list"} => saved = 0
  /\ DOMAIN files = Cids /\ DOMAIN list = Cids
  /\ \A c \in Cids : \A name \in DOMAIN files[c] : files[c][name] \in Contents
  /\ complete \in [Cids -> Releases \cup {None}]

NamesOf(list_of_cases) == {list_of_cases[x].name : x \in DOMAIN list_of_cases}

\* When the list is written (maker.py:118-122), each case has a whole file of its own: no
\* generator chose a name that another one, or the same, had already used.
NothingOverwritten ==
  pc = "list" => \A x \in DOMAIN cases : /\ cases[x].name \in DOMAIN files[cid]
                                         /\ files[cid][cases[x].name] = File(release, x, TRUE)

\* After a generation that came to its end, and until the next one for the same cid, the
\* directory and the list both name exactly the cases of its release, whose files are
\* whole, and so does what the runner loads from either (dtest.py:83-94).
LoadsWhatWasMade ==
  \A c \in Cids : complete[c] # None =>
    /\ \E chip \in cid_chip_dict(c) : DOMAIN files[c] = NamesOf(case_gen[complete[c]][chip])
    /\ list[c] = DOMAIN files[c]
    /\ \A name \in DOMAIN files[c] : files[c][name].release = complete[c] /\ files[c][name].whole
    /\ pc = "run" /\ cid = c => loaded \subseteq DOMAIN files[c]

\* Whenever a process was killed, the files of a directory are of one release, and at most
\* the one written last is torn.
OnlyLastTorn ==
  \A c \in Cids :
    LET torn == {name \in DOMAIN files[c] : ~files[c][name].whole}
    IN  /\ Cardinality({files[c][name].release : name \in DOMAIN files[c]}) <= 1
        /\ \A name \in torn : \A other \in DOMAIN files[c] :
             name # other => files[c][other].case < files[c][name].case
-----------------------------------------------------------------------------
(* What holds of the case that is being written.                           *)

Written == pc = "dump"
current == cases[saved + 1]

\* A golden file has lines for dumps of the cases of a chip.
GoldenLines ==
  [r \in Releases |-> [chip \in infos(r) |->
     UNION {UNION {{[dump |-> dump_name(f, c), case |-> x, connector |-> c.id] : c \in f.connectors}
                   : f \in case_gen[r][chip][x].frames} : x \in DOMAIN case_gen[r][chip]}]]

\* get_golden_unify takes the first line that begins with the name of the dump, which may
\* be longer (helper.py:186-188).  Whatever lines the golden file has, the one taken is of the same
\* case and the same connector.
GoldenOfOwnCase ==
  Written => \A f \in current.frames : \A c \in f.connectors : \A chip \in Chips :
    \A line \in GoldenLines[release][chip] :
      Starts(line.dump, dump_name(f, c)) => line.case = saved + 1 /\ line.connector = c.id

ById(objects) == \A a, b \in objects : a.id = b.id => a = b

\* obj_gen writes frames, planes, cursors, connectors and CRTCs under their ids, and those
\* CRTCs that the property crtcs picks (helper.py:219-243).  None is lost that way, and every CRTC something is
\* on is described, as it is there.
WrittenInFull ==
  Written =>
    /\ ById(current.frames)
    /\ \A f \in current.frames :
         /\ ById(f.planes) /\ ById(f.cursors) /\ ById(f.connectors) /\ ById(crtcs(f))
         /\ crtcsOf(f.planes \cup f.connectors) \subseteq crtcs(f)
         /\ \A cursor \in f.cursors : cursor.crtc \in crtcs(f)

Inside(r, w, h) == r.x >= 0 /\ r.y >= 0 /\ r.x + r.w <= w /\ r.y + r.h <= h
Members(seq) == {seq[x] : x \in DOMAIN seq}
SizeOf(r) == <<r.w, r.h>>
Has(object, name) == name \in DOMAIN object.props
Src(object, name) == Members(object.props[name].src)
Dst(object, name) == Members(object.props[name].dst)

\* What a CRTC composes: the input of its scaler or its panel crop, else what is displayed.
Composed(crtc, conn) ==
  LET inputs == UNION {Src(crtc, name) : name \in {"SCALER", "PANEL_CROP"} \cap DOMAIN crtc.props}
  IN  IF inputs = {} THEN <<conn.w, conn.h>> ELSE SizeOf(CHOOSE r \in inputs : TRUE)
ShownParts(plane) ==
  IF Has(plane, "DMA_CONFIG") /\ Dst(plane, "DMA_CONFIG") # {} THEN Dst(plane, "DMA_CONFIG") ELSE {plane.at}
OnCrtc(unit, conn) == {p \in unit.planes : p.crtc = conn.crtc}

\* Every plane, or the parts of it that are fetched, lies in the picture its CRTC composes;
\* the parts are taken from the plane's own picture; the regions a feature of the CRTC is
\* confined to lie in the picture.
OnDisplay ==
  Written => \A f \in current.frames : \A conn \in f.connectors :
    LET area == Composed(conn.crtc, conn)
    IN  /\ \A p \in OnCrtc(f, conn) :
             /\ \A r \in ShownParts(p) : Inside(r, area[1], area[2])
             /\ \A name \in {"DMA_CONFIG", "LAYER_CROP"} \cap DOMAIN p.props :
                  \A r \in Src(p, name) : Inside(r, p.w, p.h)
        /\ \A name \in DOMAIN conn.crtc.props :
             /\ \A r \in Src(conn.crtc, name) : Inside(r, area[1], area[2])
             /\ \A r \in Dst(conn.crtc, name) : Inside(r, conn.w, conn.h)

\* A scaler gets the picture that is there and makes the one that is needed: that of a plane
\* from the plane's size to its place on the display, that of a CRTC to the size of the
\* connector; and no side shrinks to less than a quarter or grows more than eightfold.
ScalersAgree ==
  Written => \A f \in current.frames :
    /\ \A p \in f.planes : Has(p, "SCALER") =>
         \A s \in Src(p, "SCALER"), d \in Dst(p, "SCALER") :
           SizeOf(s) = <<p.w, p.h>> /\ SizeOf(d) = SizeOf(p.at)
    /\ \A conn \in f.connectors : Has(conn.crtc, "SCALER") =>
         \A d \in Dst(conn.crtc, "SCALER") : SizeOf(d) = <<conn.w, conn.h>>
    /\ \A o \in f.planes \cup crtcs(f) : Has(o, "SCALER") =>
         \A s \in Src(o, "SCALER"), d \in Dst(o, "SCALER") :
           /\ 4 * d.w >= s.w /\ d.w <= 8 * s.w
           /\ 4 * d.h >= s.h /\ d.h <= 8 * s.h

Stripes(conn) == IF Has(conn, "WB_STRIPE_POS") THEN Dst(conn, "WB_STRIPE_POS") ELSE {}
AllStripes == UNION {UNION {Stripes(c) : c \in f.connectors} : f \in current.frames}
Area(r) == r.w * r.h
Disjoint(r, s) == r.x + r.w <= s.x \/ s.x + s.w <= r.x \/ r.y + r.h <= s.y \/ s.y + s.h <= r.y

\* The frames of a case written back in stripes fill one picture: each writes the part of it
\* that it shows, no two parts overlap, and together they are the whole.
StripesTile ==
  Written =>
    /\ \A f, g \in current.frames : \A c \in f.connectors, e \in g.connectors :
         \A r \in Stripes(c), s \in Stripes(e) : f # g => Disjoint(r, s)
    /\ \A f \in current.frames : \A c \in f.connectors : \A r \in Stripes(c) :
         /\ Inside(r, c.wb[1], c.wb[2])
         /\ \A p \in OnCrtc(f, c) : Src(p, "DMA_CONFIG") = {r}
         /\ c.wb[1] * c.wb[2] = FoldFunction(+, 0, [s \in AllStripes |-> Area(s)])
=============================================================================
