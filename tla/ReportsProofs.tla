--------------------------- MODULE ReportsProofs ---------------------------
(***************************************************************************)
(* Theorems about Reports, for any number of processes, folders and parts. *)
(* Processes meet in the files only, so the inductive invariant says of    *)
(* each process what it may rely on, and a step of another one keeps it    *)
(* because files only grow: no step takes a key or a part away, nor the    *)
(* process a report belongs to.                                            *)
(***************************************************************************)
EXTENDS Reports, TLAPS

Saving    == {"write", "list", "compare", "next", "exited"}
Comparing == {"list", "compare"}

\* From the moment it is opened, the report is the process's own, in its current
\* folder; once closed, it is whole.
OwnReport(r) ==
  pc[r] \in Saving =>
    /\ mine[r] \in DOMAIN files
    /\ mine[r].folder = Folder(r)
    /\ files[mine[r]].run = r
    /\ pc[r] # "write" => Whole(files[mine[r]])

\* The reports of the modes behind it are there.
EarlierStages(r) == \A i \in 1 .. stage[r] - 1 : HasReport(r, i)

\* While it compares, what was readable when it listed is still readable, and none
\* of it has been passed over.
Looking(r) ==
  pc[r] = "compare" =>
    /\ todo[r] \subseteq Earlier(r) \ {mine[r]}
    /\ used[r] = Nothing
    /\ listed[r] \subseteq todo[r]
    /\ \A k \in listed[r] : Comparable(r, files[k])

\* Only text reports are compared, and what one was compared with stays in the
\* folder, so that no report opened later has its key.
Compared(r) ==
  /\ method[r] = "json" => pc[r] \notin Comparing /\ used[r] = Nothing
  /\ used[r] # Nothing =>
       /\ used[r].key \in DOMAIN files
       /\ used[r].key # mine[r]
       /\ Config[used[r].run] = Config[r]
       /\ pc[r] \in {"compare", "next", "exited"} => used[r].key.folder = Folder(r)

Newest(r) ==
  pc[r] \in {"next", "exited"} /\ method[r] = "txt" =>
    \A k \in listed[r] : used[r] # Nothing /\ k.time <= used[r].key.time

ProcessInv(r) ==
  /\ OwnReport(r)
  /\ EarlierStages(r)
  /\ Looking(r)
  /\ Compared(r)
  /\ Newest(r)

\* A name that has been made is its process's alone until it is opened.
Unopened(r) ==
  pc[r] = "open" =>
    /\ mine[r] # Nothing
    /\ mine[r].folder = Folder(r)
    /\ mine[r] \notin DOMAIN files
    /\ \A x \in Runs \ {r} : mine[x] # mine[r]

ReportsInv ==
  /\ TypeOK
  /\ stage \in [Runs -> Nat \ {0}]
  /\ \A r \in Runs : Unopened(r)
  /\ \A r \in Runs : ProcessInv(r)

-----------------------------------------------------------------------------
(* What a step does to the files, and to the processes that do not take it. *)

\* Reports stay, of the process that wrote them, and what was whole or could be
\* read still is.
FilesGrow ==
  \A k \in DOMAIN files :
    /\ k \in DOMAIN files'
    /\ files'[k].run = files[k].run
    /\ Whole(files[k]) => Whole(files'[k])
    /\ Readable(files[k]) => Readable(files'[k])

\* What the invariant of process r speaks of, but for the files.
Keeps(r) ==
  /\ method'[r] = method[r]
  /\ pc'[r] = pc[r]
  /\ stage'[r] = stage[r]
  /\ mine'[r] = mine[r]
  /\ todo'[r] = todo[r]
  /\ used'[r] = used[r]
  /\ listed'[r] = listed[r]

LEMMA OpenGrows ==
  ASSUME ReportsInv, NEW x \in Runs, Open(x)
  PROVE  FilesGrow
BY DEF Open, Goto, FilesGrow, ReportsInv, Unopened

LEMMA FlushGrows ==
  ASSUME ReportsInv, NEW x \in Runs, Flush(x)
  PROVE  /\ FilesGrow
         /\ DOMAIN files' = DOMAIN files
         /\ \A k \in DOMAIN files : files'[k] \in File
<1> DEFINE old == files[mine[x]]
<1>1. PICK n \in old.parts .. Parts, c \in BOOLEAN :
        /\ n > old.parts \/ (c /\ ~old.cut)
        /\ n = Parts => ~c
        /\ files' = [files EXCEPT ![mine[x]].parts = n, ![mine[x]].cut = c]
  BY DEF Flush
<1>2. /\ mine[x] \in DOMAIN files
      /\ \A k \in DOMAIN files : files[k] \in File
  BY DEF Flush, ReportsInv, ProcessInv, OwnReport, Saving, TypeOK
<1>3. Measured \in Nat \ {0}
  BY ReportsAssumption
<1>4. /\ old.run \in Runs
      /\ old.parts \in 0 .. Parts
      /\ old.cut \in BOOLEAN
  BY <1>2 DEF File
<1>5. DOMAIN files' = DOMAIN files
  BY <1>1
<1>6. \A k \in DOMAIN files : k # mine[x] => files'[k] = files[k]
  BY <1>1
<1>7. files'[mine[x]] = [run |-> old.run, parts |-> n, cut |-> c]
  <2>1. old = [run |-> old.run, parts |-> old.parts, cut |-> old.cut]
    BY <1>2 DEF File
  <2>2. files'[mine[x]] = [old EXCEPT !.parts = n, !.cut = c]
    BY <1>1, <1>2
  <2> QED
    BY <2>1, <2>2
<1>8. n \in 0 .. Parts
  BY <1>1, <1>3, <1>4 DEF Parts, Header
<1>9. \A k \in DOMAIN files : files'[k] \in File
  BY <1>1, <1>2, <1>4, <1>6, <1>7, <1>8 DEF File
<1>10. /\ Whole(old) => Whole(files'[mine[x]])
       /\ Readable(old) => Readable(files'[mine[x]])
  BY <1>1, <1>3, <1>4, <1>7 DEF Whole, Readable, Parts, Header
<1> QED
  BY <1>5, <1>6, <1>7, <1>9, <1>10 DEF FilesGrow

LEMMA OwnKept ==
  ASSUME FilesGrow, NEW r \in Runs, OwnReport(r),
         stage'[r] = stage[r], mine'[r] = mine[r],
         pc'[r] \in Saving => pc[r] \in Saving,
         pc'[r] \in Saving \ {"write"} => pc[r] # "write" \/ Whole(files[mine[r]])
  PROVE  OwnReport(r)'
BY DEF FilesGrow, OwnReport, Saving, Folder

LEMMA EarlierKept ==
  ASSUME FilesGrow, NEW r \in Runs, EarlierStages(r), stage'[r] = stage[r]
  PROVE  EarlierStages(r)'
<1> SUFFICES ASSUME NEW i \in 1 .. stage[r] - 1
             PROVE  HasReport(r, i)'
  BY DEF EarlierStages
<1>1. PICK k \in DOMAIN files :
        k.folder = FoldersOf[r][i] /\ files[k].run = r /\ Whole(files[k])
  BY DEF EarlierStages, HasReport
<1> QED
  BY <1>1 DEF FilesGrow, HasReport

LEMMA EarlierSeen ==
  ASSUME FilesGrow, NEW r \in Runs, stage'[r] = stage[r]
  PROVE  Earlier(r) \subseteq Earlier(r)'
BY DEF FilesGrow, Earlier, Folder

LEMMA ComparableKept ==
  ASSUME FilesGrow, NEW r \in Runs, NEW k \in DOMAIN files,
         Comparable(r, files[k])
  PROVE  Comparable(r, files'[k])
BY DEF FilesGrow, Comparable

LEMMA ProcessKept ==
  ASSUME FilesGrow, NEW r \in Runs, ProcessInv(r), Keeps(r)
  PROVE  ProcessInv(r)'
<1>1. OwnReport(r)'
  BY OwnKept DEF ProcessInv, Keeps
<1>2. EarlierStages(r)'
  BY EarlierKept DEF ProcessInv, Keeps
<1>3. Looking(r)'
  <2> SUFFICES ASSUME pc[r] = "compare"
               PROVE  /\ todo[r] \subseteq Earlier(r)' \ {mine[r]}
                      /\ used[r] = Nothing
                      /\ listed[r] \subseteq todo[r]
                      /\ \A k \in listed[r] : Comparable(r, files'[k])
    BY DEF Looking, Keeps
  <2>1. /\ todo[r] \subseteq Earlier(r) \ {mine[r]}
        /\ used[r] = Nothing
        /\ listed[r] \subseteq todo[r]
        /\ \A k \in listed[r] : Comparable(r, files[k])
    BY DEF ProcessInv, Looking
  <2>2. Earlier(r) \subseteq Earlier(r)' /\ Earlier(r) \subseteq DOMAIN files
    BY EarlierSeen DEF Earlier, Keeps
  <2>3. ASSUME NEW k \in listed[r]
        PROVE  Comparable(r, files'[k])
    BY <2>1, <2>2, <2>3, ComparableKept
  <2> QED
    BY <2>1, <2>2, <2>3
<1>4. Compared(r)'
  BY DEF ProcessInv, Compared, Keeps, FilesGrow, Folder
<1>5. Newest(r)'
  BY DEF ProcessInv, Newest, Keeps
<1> QED
  BY <1>1, <1>2, <1>3, <1>4, <1>5 DEF ProcessInv

\* A step of a process leaves what the others hold alone.
LEMMA OthersKept ==
  ASSUME ReportsInv, NEW x \in Runs, NEW r \in Runs \ {x},
         Save(x) \/ Compare(x) \/ NextStage(x) \/ Exit(x) \/ Kill(x)
  PROVE  Keeps(r)
BY DEF ReportsInv, TypeOK, Keeps, Goto, Save, Compare, Measure, Fails, MakeFolder,
       CheckFolder, CreateFolder, Name, Open, Flush, Close, List, Accept, Skip,
       NoneComparable, CannotOpen, CompareFails, NextStage, Exit, Kill

-----------------------------------------------------------------------------
(* Types.                                                                  *)

LEMMA ConstantsTyped ==
  ASSUME NEW r \in Runs
  PROVE  /\ FoldersOf[r] \in Seq(AllFolders)
         /\ FoldersOf[r] # <<>>
         /\ DOMAIN FoldersOf[r] = 1 .. Len(FoldersOf[r])
         /\ Len(FoldersOf[r]) \in Nat \ {0}
         /\ \A i \in DOMAIN FoldersOf[r] : FoldersOf[r][i] \in AllFolders
<1>1. FoldersOf[r] \in Seq(AllFolders) /\ FoldersOf[r] # <<>>
  BY ReportsAssumption
<1> QED
  BY <1>1

LEMMA InitTyped == Init => TypeOK /\ stage \in [Runs -> Nat \ {0}]
<1> SUFFICES ASSUME Init
             PROVE  TypeOK /\ stage \in [Runs -> Nat \ {0}]
  OBVIOUS
<1>1. \A r \in Runs : stage[r] \in DOMAIN FoldersOf[r]
  BY ConstantsTyped DEF Init
<1>2. clock \in 0 .. MaxClock
  BY ReportsAssumption DEF Init
<1> QED
  BY <1>1, <1>2 DEF Init, TypeOK

\* Where only the control point of a process changes, it stays a control point.
LEMMA GotoTyped ==
  ASSUME ReportsInv, NEW x \in Runs, NEW from, NEW to, Goto(x, from, to),
         to \in {"exited", "failed", "measure", "folder", "create", "name", "open",
                 "write", "list", "compare", "next"}
  PROVE  pc' \in [Runs -> Final \cup {"measure", "folder", "create", "name", "open",
                                      "write", "list", "compare", "next"}]
BY DEF ReportsInv, TypeOK, Goto, Final

\* What is to be opened has a name.
LEMMA NamedTyped ==
  ASSUME ReportsInv, NEW x \in Runs, pc[x] = "open"
  PROVE  mine[x] \in Keys
<1>1. mine[x] # Nothing
  BY DEF ReportsInv, Unopened
<1> QED
  BY <1>1 DEF ReportsInv, TypeOK

LEMMA SaveTyped ==
  ASSUME ReportsInv, NEW x \in Runs, Save(x)
  PROVE  TypeOK' /\ UNCHANGED stage
<1> USE DEF ReportsInv
<1>1. CASE Measure(x)
  BY <1>1, GotoTyped DEF Measure, TypeOK
<1>2. CASE Fails(x)
  BY <1>2 DEF Fails, TypeOK, Final
<1>3. Folder(x) \in AllFolders
  BY ConstantsTyped DEF TypeOK, Folder
<1>4. CASE MakeFolder(x)
  BY <1>3, <1>4, GotoTyped DEF MakeFolder, TypeOK
<1>5. CASE CheckFolder(x)
  BY <1>5, GotoTyped DEF CheckFolder, TypeOK
<1>6. CASE CreateFolder(x)
  BY <1>3, <1>6, GotoTyped DEF CreateFolder, TypeOK
<1>7. CASE Name(x)
  <2> DEFINE key == [folder |-> Folder(x), method |-> method[x], time |-> clock]
  <2>1. key \in Keys
    BY <1>3 DEF TypeOK, Keys
  <2>2. mine' \in [Runs -> Keys \cup {Nothing}]
    BY <1>7, <2>1 DEF Name, TypeOK
  <2> QED
    BY <1>7, <2>2, GotoTyped DEF Name, TypeOK
<1>8. CASE Open(x)
  <2>1. [run |-> x, parts |-> 0, cut |-> FALSE] \in File
    BY ReportsAssumption DEF File, Parts, Header
  <2>2. DOMAIN files' = DOMAIN files \cup {mine[x]} /\ mine[x] \in Keys
    BY <1>8, NamedTyped DEF Open, Goto
  <2>3. \A k \in DOMAIN files' : files'[k] \in File
    BY <1>8, <2>1 DEF Open, TypeOK
  <2> QED
    BY <1>8, <2>2, <2>3, GotoTyped DEF Open, TypeOK
<1>9. CASE Flush(x)
  <2>1. UNCHANGED <<method, clock, folders, pc, stage, mine, todo, used, faults, listed>>
    BY <1>9 DEF Flush
  <2>2. DOMAIN files' = DOMAIN files /\ \A k \in DOMAIN files : files'[k] \in File
    BY <1>9, FlushGrows
  <2> QED
    BY <2>1, <2>2 DEF TypeOK
<1>10. CASE Close(x)
  BY <1>10, GotoTyped DEF Close, TypeOK
<1> QED
  BY <1>1, <1>2, <1>4, <1>5, <1>6, <1>7, <1>8, <1>9, <1>10 DEF Save

LEMMA CompareTyped ==
  ASSUME ReportsInv, NEW x \in Runs, Compare(x)
  PROVE  TypeOK' /\ UNCHANGED stage
<1> USE DEF ReportsInv
<1>1. CASE List(x)
  <2>1. Earlier(x) \subseteq Keys
    BY DEF Earlier, TypeOK
  <2>2. /\ todo' \in [Runs -> SUBSET Keys]
        /\ listed' \in [Runs -> SUBSET Keys]
        /\ used' \in [Runs -> [key : Keys, run : Runs, cut : BOOLEAN] \cup {Nothing}]
    BY <1>1, <2>1 DEF List, TypeOK
  <2> QED
    BY <1>1, <2>2, GotoTyped DEF List, TypeOK
<1>2. CASE Accept(x)
  <2>1. PICK k \in todo[x] :
          /\ Comparable(x, files[k])
          /\ used' = [used EXCEPT ![x] =
                        [key |-> k, run |-> files[k].run,
                         cut |-> files[k].parts = 2 * Measured]]
    BY <1>2 DEF Accept
  <2>2. k \in DOMAIN files
    BY <1>2, <2>1 DEF Accept, Goto, ProcessInv, Looking, Earlier
  <2>3. k \in Keys /\ files[k].run \in Runs
    BY <2>2 DEF TypeOK, File
  <2> DEFINE new == [key |-> k, run |-> files[k].run,
                     cut |-> files[k].parts = 2 * Measured]
  <2>4. new \in [key : Keys, run : Runs, cut : BOOLEAN]
    BY <2>3
  <2>5. used' \in [Runs -> [key : Keys, run : Runs, cut : BOOLEAN] \cup {Nothing}]
    <3> HIDE DEF new
    <3> QED
      BY <2>1, <2>4 DEF TypeOK, new
  <2> QED
    BY <1>2, <2>5, GotoTyped DEF Accept, TypeOK
<1>3. CASE Skip(x)
  BY <1>3 DEF Skip, TypeOK
<1>4. CASE NoneComparable(x)
  BY <1>4, GotoTyped DEF NoneComparable, TypeOK
<1>5. CASE CannotOpen(x)
  BY <1>5 DEF CannotOpen, TypeOK
<1>6. CASE CompareFails(x)
  BY <1>6 DEF CompareFails, TypeOK
<1> QED
  BY <1>1, <1>2, <1>3, <1>4, <1>5, <1>6 DEF Compare

LEMMA TypesKept ==
  ASSUME ReportsInv, [Next]_vars
  PROVE  TypeOK' /\ stage' \in [Runs -> Nat \ {0}]
<1> USE DEF ReportsInv
<1>1. CASE Tick
  BY <1>1, ReportsAssumption DEF Tick, TypeOK
<1>2. ASSUME NEW x \in Runs, Save(x)
      PROVE  TypeOK' /\ stage' \in [Runs -> Nat \ {0}]
  BY <1>2, SaveTyped
<1>3. ASSUME NEW x \in Runs, Compare(x)
      PROVE  TypeOK' /\ stage' \in [Runs -> Nat \ {0}]
  BY <1>3, CompareTyped
<1>4. ASSUME NEW x \in Runs, NextStage(x)
      PROVE  TypeOK' /\ stage' \in [Runs -> Nat \ {0}]
  <2>1. /\ stage' = [stage EXCEPT ![x] = stage[x] + 1]
        /\ stage[x] + 1 \in 1 .. Len(FoldersOf[x])
    BY <1>4, ConstantsTyped DEF NextStage, TypeOK
  <2>2. \A r \in Runs : stage'[r] \in DOMAIN FoldersOf[r]
    BY <2>1, ConstantsTyped DEF TypeOK
  <2>3. stage' \in [Runs -> Nat \ {0}]
    BY <2>1
  <2> QED
    BY <1>4, <2>2, <2>3, GotoTyped DEF NextStage, TypeOK
<1>5. ASSUME NEW x \in Runs, Exit(x)
      PROVE  TypeOK' /\ stage' \in [Runs -> Nat \ {0}]
  BY <1>5, GotoTyped DEF Exit, TypeOK
<1>6. ASSUME NEW x \in Runs, Kill(x)
      PROVE  TypeOK' /\ stage' \in [Runs -> Nat \ {0}]
  BY <1>6 DEF Kill, TypeOK, Final
<1>7. CASE UNCHANGED vars
  BY <1>7 DEF vars, TypeOK
<1> QED
  BY <1>1, <1>2, <1>3, <1>4, <1>5, <1>6, <1>7 DEF Next, Finished

-----------------------------------------------------------------------------
(* The process that takes the step.                                        *)

\* Of the actions of save_report, only Open and Flush touch the files.
LEMMA UnchangedGrows ==
  ASSUME UNCHANGED files
  PROVE  FilesGrow
BY DEF FilesGrow

LEMMA BeforeWriteKept ==
  ASSUME ReportsInv, NEW x \in Runs,
         Measure(x) \/ Fails(x) \/ MakeFolder(x) \/ CheckFolder(x) \/ CreateFolder(x)
           \/ Kill(x)
  PROVE  FilesGrow /\ ProcessInv(x)'
<1>1. /\ UNCHANGED <<method, files, stage, mine, todo, used, listed>>
      /\ pc'[x] \in Final \cup {"folder", "create", "name"}
      /\ pc'[x] # "exited"
  BY DEF Measure, Fails, MakeFolder, CheckFolder, CreateFolder, Kill, Goto, Final,
         ReportsInv, TypeOK
<1>2. FilesGrow
  BY <1>1, UnchangedGrows
<1>3. pc'[x] \notin Saving \cup Comparing
  BY <1>1 DEF Final, Saving, Comparing
<1>4. OwnReport(x)' /\ Looking(x)' /\ Newest(x)'
  BY <1>3 DEF OwnReport, Looking, Newest, Saving, Comparing
<1>5. EarlierStages(x)'
  BY <1>1, <1>2, EarlierKept DEF ReportsInv, ProcessInv
<1>6. Compared(x)'
  BY <1>1, <1>3 DEF ReportsInv, ProcessInv, Compared, Saving, Comparing
<1> QED
  BY <1>2, <1>4, <1>5, <1>6 DEF ProcessInv

LEMMA NameKept ==
  ASSUME ReportsInv, NEW x \in Runs, Name(x)
  PROVE  FilesGrow /\ ProcessInv(x)'
<1> DEFINE key == [folder |-> Folder(x), method |-> method[x], time |-> clock]
<1>1. /\ key \notin DOMAIN files
      /\ pc'[x] = "open"
      /\ mine'[x] = key
      /\ UNCHANGED <<method, files, stage, used>>
  BY DEF Name, Goto, ReportsInv, TypeOK
<1>2. FilesGrow
  BY <1>1, UnchangedGrows
<1>3. OwnReport(x)' /\ Looking(x)' /\ Newest(x)'
  BY <1>1 DEF OwnReport, Looking, Newest, Saving
<1>4. EarlierStages(x)'
  BY <1>1, <1>2, EarlierKept DEF ReportsInv, ProcessInv
<1>5. Compared(x)'
  <2>1. method' = method
    BY DEF Name
  <2> HIDE DEF key
  <2> QED
    BY <1>1, <2>1 DEF ReportsInv, ProcessInv, Compared, Comparing
<1> QED
  BY <1>2, <1>3, <1>4, <1>5 DEF ProcessInv

LEMMA OpenKept ==
  ASSUME ReportsInv, NEW x \in Runs, Open(x)
  PROVE  FilesGrow /\ ProcessInv(x)'
<1>1. /\ pc[x] = "open" /\ pc'[x] = "write"
      /\ mine[x] \in DOMAIN files'
      /\ files'[mine[x]].run = x
      /\ UNCHANGED <<method, stage, mine, used>>
  BY DEF Open, Goto, ReportsInv, TypeOK
<1>2. FilesGrow
  BY OpenGrows
<1>3. OwnReport(x)' /\ Looking(x)' /\ Newest(x)'
  BY <1>1 DEF OwnReport, Looking, Newest, Folder, ReportsInv, Unopened
<1>4. EarlierStages(x)'
  BY <1>1, <1>2, EarlierKept DEF ReportsInv, ProcessInv
<1>5. Compared(x)'
  BY <1>1, <1>2 DEF ReportsInv, ProcessInv, Compared, Comparing, FilesGrow
<1> QED
  BY <1>2, <1>3, <1>4, <1>5 DEF ProcessInv

LEMMA FlushKept ==
  ASSUME ReportsInv, NEW x \in Runs, Flush(x)
  PROVE  FilesGrow /\ ProcessInv(x)'
BY FlushGrows, ProcessKept DEF ReportsInv, Flush, Keeps

LEMMA CloseKept ==
  ASSUME ReportsInv, NEW x \in Runs, Close(x)
  PROVE  FilesGrow /\ ProcessInv(x)'
<1>1. /\ UNCHANGED <<method, files, stage, mine, todo, used, listed>>
      /\ pc[x] = "write"
      /\ pc'[x] = IF method[x] = "txt" THEN "list" ELSE "next"
      /\ Whole(files[mine[x]])
  BY DEF Close, Goto, ReportsInv, TypeOK
<1>2. FilesGrow
  BY <1>1, UnchangedGrows
<1>3. OwnReport(x)'
  BY <1>1, <1>2, OwnKept DEF ReportsInv, ProcessInv, Saving
<1>4. EarlierStages(x)'
  BY <1>1, <1>2, EarlierKept DEF ReportsInv, ProcessInv
<1>5. Looking(x)' /\ Newest(x)'
  BY <1>1 DEF Looking, Newest
<1>6. Compared(x)'
  BY <1>1 DEF ReportsInv, TypeOK, ProcessInv, Compared, Comparing
<1> QED
  BY <1>2, <1>3, <1>4, <1>5, <1>6 DEF ProcessInv

LEMMA ListKept ==
  ASSUME ReportsInv, NEW x \in Runs, List(x)
  PROVE  FilesGrow /\ ProcessInv(x)'
<1>1. /\ UNCHANGED <<method, files, stage, mine>>
      /\ pc[x] = "list" /\ pc'[x] = "compare"
      /\ todo'[x] = Earlier(x) \ {mine[x]}
      /\ used'[x] = Nothing
      /\ listed'[x] = {k \in Earlier(x) \ {mine[x]} : Comparable(x, files[k])}
  BY DEF List, Goto, ReportsInv, TypeOK
<1>2. FilesGrow
  BY <1>1, UnchangedGrows
<1>3. OwnReport(x)'
  BY <1>1, <1>2, OwnKept DEF ReportsInv, ProcessInv, Saving
<1>4. EarlierStages(x)'
  BY <1>1, <1>2, EarlierKept DEF ReportsInv, ProcessInv
<1>5. Earlier(x)' = Earlier(x)
  BY <1>1 DEF Earlier, Folder
<1>6. Looking(x)' /\ Newest(x)'
  BY <1>1, <1>5 DEF Looking, Newest
<1>7. Compared(x)'
  BY <1>1 DEF ReportsInv, TypeOK, ProcessInv, Compared, Comparing
<1> QED
  BY <1>2, <1>3, <1>4, <1>6, <1>7 DEF ProcessInv

LEMMA AcceptKept ==
  ASSUME ReportsInv, NEW x \in Runs, Accept(x)
  PROVE  FilesGrow /\ ProcessInv(x)'
<1>1. PICK k \in todo[x] :
        /\ First(k, todo[x])
        /\ Comparable(x, files[k])
        /\ used' = [used EXCEPT ![x] =
                      [key |-> k, run |-> files[k].run,
                       cut |-> files[k].parts = 2 * Measured]]
  BY DEF Accept
<1>2. /\ UNCHANGED <<method, files, stage, mine, listed>>
      /\ pc[x] = "compare" /\ pc'[x] = "next"
      /\ used'[x].key = k
      /\ used'[x].run = files[k].run
  BY <1>1 DEF Accept, Goto, ReportsInv, TypeOK
<1>3. FilesGrow
  BY <1>2, UnchangedGrows
<1>4. /\ todo[x] \subseteq Earlier(x) \ {mine[x]}
      /\ listed[x] \subseteq todo[x]
      /\ method[x] = "txt"
  BY <1>2 DEF ReportsInv, TypeOK, ProcessInv, Looking, Compared, Comparing
<1>5. OwnReport(x)'
  BY <1>2, <1>3, OwnKept DEF ReportsInv, ProcessInv, Saving
<1>6. EarlierStages(x)'
  BY <1>2, <1>3, EarlierKept DEF ReportsInv, ProcessInv
<1>7. Looking(x)'
  BY <1>2 DEF Looking
<1>8. Compared(x)'
  BY <1>1, <1>2, <1>4 DEF Compared, Comparing, Comparable, Earlier, Folder
<1>9. Newest(x)'
  <2>1. used'[x] # Nothing
    <3>1. used'[x] \in [key : Keys, run : Runs, cut : BOOLEAN]
      <4>1. k \in Keys /\ files[k].run \in Runs
        BY <1>1, <1>4 DEF Earlier, ReportsInv, TypeOK, File
      <4> DEFINE new == [key |-> k, run |-> files[k].run,
                         cut |-> files[k].parts = 2 * Measured]
      <4>2. new \in [key : Keys, run : Runs, cut : BOOLEAN]
        BY <4>1
      <4> HIDE DEF new
      <4> QED
        BY <1>1, <4>2 DEF ReportsInv, TypeOK, new
    <3> QED
      BY <3>1, ReportsAssumption
  <2> QED
    BY <1>1, <1>2, <1>4, <2>1 DEF Newest, First
<1> QED
  BY <1>3, <1>5, <1>6, <1>7, <1>8, <1>9 DEF ProcessInv

LEMMA SkipKept ==
  ASSUME ReportsInv, NEW x \in Runs, Skip(x)
  PROVE  FilesGrow /\ ProcessInv(x)'
<1>1. PICK k \in todo[x] :
        ~Comparable(x, files[k]) /\ todo' = [todo EXCEPT ![x] = @ \ {k}]
  BY DEF Skip
<1>2. /\ UNCHANGED <<method, files, pc, stage, mine, used, listed>>
      /\ pc[x] = "compare"
      /\ todo'[x] = todo[x] \ {k}
  BY <1>1 DEF Skip, ReportsInv, TypeOK
<1>3. FilesGrow
  BY <1>2, UnchangedGrows
<1>4. OwnReport(x)' /\ EarlierStages(x)'
  BY <1>2, <1>3, OwnKept, EarlierKept DEF ReportsInv, ProcessInv
<1>5. Earlier(x)' = Earlier(x)
  BY <1>2 DEF Earlier, Folder
<1>6. Looking(x)'
  BY <1>1, <1>2, <1>5 DEF ReportsInv, ProcessInv, Looking
<1>7. Compared(x)' /\ Newest(x)'
  BY <1>2 DEF ReportsInv, ProcessInv, Compared, Newest, Folder
<1> QED
  BY <1>3, <1>4, <1>6, <1>7 DEF ProcessInv

LEMMA NoneComparableKept ==
  ASSUME ReportsInv, NEW x \in Runs, NoneComparable(x)
  PROVE  FilesGrow /\ ProcessInv(x)'
<1>1. /\ UNCHANGED <<method, files, stage, mine, todo, used, listed>>
      /\ pc[x] = "compare" /\ pc'[x] = "next"
      /\ todo[x] = {}
  BY DEF NoneComparable, Goto, ReportsInv, TypeOK
<1>2. FilesGrow
  BY <1>1, UnchangedGrows
<1>3. OwnReport(x)'
  BY <1>1, <1>2, OwnKept DEF ReportsInv, ProcessInv, Saving
<1>4. EarlierStages(x)'
  BY <1>1, <1>2, EarlierKept DEF ReportsInv, ProcessInv
<1>5. Looking(x)' /\ Compared(x)' /\ Newest(x)'
  BY <1>1 DEF ReportsInv, ProcessInv, Looking, Compared, Newest, Comparing
<1> QED
  BY <1>2, <1>3, <1>4, <1>5 DEF ProcessInv

LEMMA CannotOpenKept ==
  ASSUME ReportsInv, NEW x \in Runs, CannotOpen(x)
  PROVE  FilesGrow /\ ProcessInv(x)'
<1>1. PICK k \in todo[x] :
        /\ todo' = [todo EXCEPT ![x] = @ \ {k}]
        /\ listed' = [listed EXCEPT ![x] = @ \ {k}]
  BY DEF CannotOpen
<1>2. /\ UNCHANGED <<method, files, pc, stage, mine, used>>
      /\ pc[x] = "compare"
      /\ todo'[x] = todo[x] \ {k}
      /\ listed'[x] = listed[x] \ {k}
  BY <1>1 DEF CannotOpen, ReportsInv, TypeOK
<1>3. FilesGrow
  BY <1>2, UnchangedGrows
<1>4. OwnReport(x)' /\ EarlierStages(x)'
  BY <1>2, <1>3, OwnKept, EarlierKept DEF ReportsInv, ProcessInv
<1>5. Earlier(x)' = Earlier(x)
  BY <1>2 DEF Earlier, Folder
<1>6. Looking(x)'
  BY <1>2, <1>5 DEF ReportsInv, ProcessInv, Looking
<1>7. Compared(x)' /\ Newest(x)'
  BY <1>2 DEF ReportsInv, ProcessInv, Compared, Newest, Folder
<1> QED
  BY <1>3, <1>4, <1>6, <1>7 DEF ProcessInv

LEMMA CompareFailsKept ==
  ASSUME ReportsInv, NEW x \in Runs, CompareFails(x)
  PROVE  FilesGrow /\ ProcessInv(x)'
<1>1. /\ UNCHANGED <<method, files, stage, mine>>
      /\ pc[x] \in {"list", "compare"} /\ pc'[x] = "next"
      /\ used'[x] = Nothing
      /\ listed'[x] = {}
  BY DEF CompareFails, ReportsInv, TypeOK
<1>2. FilesGrow
  BY <1>1, UnchangedGrows
<1>3. OwnReport(x)'
  BY <1>1, <1>2, OwnKept DEF ReportsInv, ProcessInv, Saving
<1>4. EarlierStages(x)'
  BY <1>1, <1>2, EarlierKept DEF ReportsInv, ProcessInv
<1>5. Looking(x)' /\ Compared(x)' /\ Newest(x)'
  BY <1>1 DEF Looking, Compared, Newest, Comparing
<1> QED
  BY <1>2, <1>3, <1>4, <1>5 DEF ProcessInv

LEMMA NextStageKept ==
  ASSUME ReportsInv, NEW x \in Runs, NextStage(x)
  PROVE  FilesGrow /\ ProcessInv(x)'
<1>1. /\ UNCHANGED <<method, files, mine, todo, used, listed>>
      /\ pc[x] = "next" /\ pc'[x] = "measure"
      /\ stage'[x] = stage[x] + 1
      /\ stage[x] \in Nat \ {0}
  BY DEF NextStage, Goto, ReportsInv, TypeOK
<1>2. FilesGrow
  BY <1>1, UnchangedGrows
<1>3. OwnReport(x)' /\ Looking(x)' /\ Newest(x)'
  BY <1>1 DEF OwnReport, Looking, Newest, Saving
<1>4. HasReport(x, stage[x])
  BY <1>1 DEF ReportsInv, ProcessInv, OwnReport, HasReport, Saving, Folder
<1>5. EarlierStages(x)'
  <2> SUFFICES ASSUME NEW i \in 1 .. stage[x]
               PROVE  HasReport(x, i)'
    BY <1>1 DEF EarlierStages
  <2>1. HasReport(x, i)
    <3>1. i = stage[x] \/ i \in 1 .. stage[x] - 1
      BY <1>1
    <3> QED
      BY <1>4, <3>1 DEF ReportsInv, ProcessInv, EarlierStages
  <2> QED
    BY <1>1, <2>1 DEF HasReport
<1>6. Compared(x)'
  BY <1>1 DEF ReportsInv, ProcessInv, Compared, Comparing
<1> QED
  BY <1>2, <1>3, <1>5, <1>6 DEF ProcessInv

LEMMA ExitKept ==
  ASSUME ReportsInv, NEW x \in Runs, Exit(x)
  PROVE  FilesGrow /\ ProcessInv(x)'
<1>1. /\ UNCHANGED <<method, files, stage, mine, todo, used, listed>>
      /\ pc[x] = "next" /\ pc'[x] = "exited"
  BY DEF Exit, Goto, ReportsInv, TypeOK
<1>2. FilesGrow
  BY <1>1, UnchangedGrows
<1>3. OwnReport(x)'
  BY <1>1, <1>2, OwnKept DEF ReportsInv, ProcessInv, Saving
<1>4. EarlierStages(x)'
  BY <1>1, <1>2, EarlierKept DEF ReportsInv, ProcessInv
<1>5. Looking(x)' /\ Compared(x)' /\ Newest(x)'
  BY <1>1 DEF ReportsInv, ProcessInv, Looking, Compared, Newest, Comparing, Folder
<1> QED
  BY <1>2, <1>3, <1>4, <1>5 DEF ProcessInv

-----------------------------------------------------------------------------
(* The theorems.                                                           *)

LEMMA ReportsInvInitially == Init => ReportsInv
<1> SUFFICES ASSUME Init
             PROVE  ReportsInv
  OBVIOUS
<1>1. ASSUME NEW r \in Runs
      PROVE  ProcessInv(r)
  BY DEF Init, ProcessInv, OwnReport, EarlierStages, Looking, Compared, Newest,
         Saving, Comparing
<1>2. ASSUME NEW r \in Runs
      PROVE  Unopened(r)
  BY DEF Init, Unopened
<1> QED
  BY <1>1, <1>2, InitTyped DEF ReportsInv

LEMMA StepKept ==
  ASSUME ReportsInv, NEW x \in Runs,
         Save(x) \/ Compare(x) \/ NextStage(x) \/ Exit(x) \/ Kill(x)
  PROVE  FilesGrow /\ \A r \in Runs : ProcessInv(r)'
<1>1. FilesGrow /\ ProcessInv(x)'
  BY BeforeWriteKept, NameKept, OpenKept, FlushKept, CloseKept, ListKept, AcceptKept,
     SkipKept, NoneComparableKept, CannotOpenKept, CompareFailsKept, NextStageKept, ExitKept DEF Save, Compare
<1>2. ASSUME NEW r \in Runs \ {x}
      PROVE  ProcessInv(r)'
  <2>1. Keeps(r)
    BY OthersKept
  <2> QED
    BY <1>1, <2>1, ProcessKept DEF ReportsInv
<1> QED
  BY <1>1, <1>2

\* No step takes the name of a report that is about to be opened.
LEMMA NamesKept ==
  ASSUME ReportsInv, NEW x \in Runs,
         Save(x) \/ Compare(x) \/ NextStage(x) \/ Exit(x) \/ Kill(x)
  PROVE  \A r \in Runs : Unopened(r)'
<1> USE DEF ReportsInv
<1>1. CASE Name(x)
  <2> DEFINE key == [folder |-> Folder(x), method |-> method[x], time |-> clock]
  <2>1. /\ key \notin DOMAIN files
        /\ \A r \in Runs : mine[r] # key
        /\ pc[x] = "name" /\ pc' = [pc EXCEPT ![x] = "open"]
        /\ mine' = [mine EXCEPT ![x] = key]
        /\ UNCHANGED <<files, stage>>
    BY <1>1 DEF Name, Goto
  <2>2. key.folder = Folder(x) /\ key # Nothing
    <3>1. key \in Keys
      BY ConstantsTyped DEF TypeOK, Folder, Keys
    <3> QED
      BY <3>1, ReportsAssumption
  <2> HIDE DEF key
  <2>3. Unopened(x)'
    BY <2>1, <2>2 DEF Unopened, Folder, TypeOK
  <2>4. ASSUME NEW r \in Runs \ {x}
        PROVE  Unopened(r)'
    BY <2>1, <2>4 DEF Unopened, Folder, TypeOK
  <2> QED
    BY <2>3, <2>4
<1>2. CASE Open(x)
  <2>1. /\ pc[x] = "open" /\ pc' = [pc EXCEPT ![x] = "write"]
        /\ DOMAIN files' = DOMAIN files \cup {mine[x]}
        /\ UNCHANGED <<mine, stage>>
    BY <1>2 DEF Open, Goto
  <2> QED
    BY <2>1 DEF Unopened, Folder, TypeOK
<1>3. CASE ~Name(x) /\ ~Open(x)
  <2>1. UNCHANGED mine /\ DOMAIN files' = DOMAIN files
    BY <1>3, FlushGrows
       DEF Save, Compare, Measure, Fails, MakeFolder, CheckFolder, CreateFolder, Close,
           List, Accept, Skip, NoneComparable, CannotOpen, CompareFails, NextStage,
           Exit, Kill, Flush
  <2>2. pc'[x] # "open"
    <3>1. CASE Flush(x) \/ Skip(x) \/ CannotOpen(x)
      BY <3>1 DEF Flush, Skip, CannotOpen
    <3>2. CASE ~(Flush(x) \/ Skip(x) \/ CannotOpen(x))
      BY <1>3, <3>2
         DEF Save, Compare, Measure, Fails, MakeFolder, CheckFolder, CreateFolder,
             Close, List, Accept, NoneComparable, CompareFails, NextStage, Exit, Kill,
             Goto, TypeOK
    <3> QED
      BY <3>1, <3>2
  <2>3. ASSUME NEW r \in Runs \ {x}
        PROVE  Unopened(r)'
    <3>1. Keeps(r)
      BY OthersKept
    <3> QED
      BY <2>1, <3>1 DEF Unopened, Keeps, Folder
  <2> QED
    BY <2>2, <2>3 DEF Unopened
<1> QED
  BY <1>1, <1>2, <1>3

LEMMA ReportsInvKept ==
  ASSUME ReportsInv, [Next]_vars
  PROVE  FilesGrow /\ ReportsInv'
<1>1. FilesGrow /\ \A r \in Runs : ProcessInv(r)'
  <2>1. CASE Tick \/ UNCHANGED vars
    <3>1. FilesGrow
      BY <2>1, UnchangedGrows DEF Tick, vars
    <3>2. ASSUME NEW r \in Runs
          PROVE  ProcessInv(r)'
      <4>1. Keeps(r)
        BY <2>1 DEF Tick, vars, Keeps
      <4> QED
        BY <3>1, <4>1, ProcessKept DEF ReportsInv
    <3> QED
      BY <3>1, <3>2
  <2>2. ASSUME NEW x \in Runs,
               Save(x) \/ Compare(x) \/ NextStage(x) \/ Exit(x) \/ Kill(x)
        PROVE  FilesGrow /\ \A r \in Runs : ProcessInv(r)'
    BY <2>2, StepKept
  <2> QED
    BY <2>1, <2>2 DEF Next, Finished
<1>2. TypeOK' /\ stage' \in [Runs -> Nat \ {0}]
  BY TypesKept
<1>3. \A r \in Runs : Unopened(r)'
  <2>1. CASE Tick \/ UNCHANGED vars
    BY <2>1 DEF Tick, vars, ReportsInv, Unopened, Folder
  <2> QED
    BY <2>1, NamesKept DEF Next, Finished
<1> QED
  BY <1>1, <1>2, <1>3 DEF ReportsInv

LEMMA ReportsInvariance == Spec => []ReportsInv
<1>1. ReportsInv /\ [Next]_vars => ReportsInv'
  BY ReportsInvKept
<1> QED
  BY <1>1, ReportsInvInitially, PTL DEF Spec

\* The variables keep their types, whatever the processes, folders and parts.
THEOREM ReportsTypeCorrect == Spec => []TypeOK
<1>1. ReportsInv => TypeOK
  BY DEF ReportsInv
<1> QED
  BY <1>1, ReportsInvariance, PTL

\* A process has its report of a mode whole on the disk before it goes on to the
\* next mode or exits with 0, and nothing that any process does afterwards takes
\* it away: save_report throws before run_cli can go on, and no report is opened
\* under the name of one that is there.
THEOREM SavedOnGoingOn == Spec => []SavedBeforeGoingOn
<1>1. ReportsInv => SavedBeforeGoingOn
  <2> SUFFICES ASSUME ReportsInv, NEW r \in Runs
               PROVE  /\ \A i \in 1 .. stage[r] - 1 : HasReport(r, i)
                      /\ pc[r] \in {"list", "compare", "next", "exited"} =>
                           HasReport(r, stage[r])
    BY DEF SavedBeforeGoingOn
  <2> QED
    BY DEF ReportsInv, ProcessInv, OwnReport, EarlierStages, HasReport, Saving, Folder
<1> QED
  BY <1>1, ReportsInvariance, PTL

\* compare_with_previous takes a report of the same configuration, from the folder
\* of its mode, and not the one it has just written.
THEOREM LikeWithLike == Spec => []ComparesLikeWithLike
<1>1. ReportsInv => ComparesLikeWithLike
  BY DEF ReportsInv, ProcessInv, Compared, ComparesLikeWithLike
<1> QED
  BY <1>1, ReportsInvariance, PTL

\* It takes the newest of those that could be read when it listed the folder:
\* what it passes over is incomplete or of another configuration, and what other
\* processes write meanwhile makes no readable report unreadable.
THEOREM NewestUsed == Spec => []NewestIsUsed
<1>1. ReportsInv => NewestIsUsed
  BY DEF ReportsInv, ProcessInv, Newest, NewestIsUsed
<1> QED
  BY <1>1, ReportsInvariance, PTL

\* No step of any process, killed or failing ones included, removes a report,
\* gives it to another process, or makes one that was whole, or that could be read
\* for a comparison, cease to be.
THEOREM ReportsOnlyGrow == Spec => [][FilesGrow]_vars
<1>1. ReportsInv /\ [Next]_vars => [FilesGrow]_vars
  BY ReportsInvKept
<1> QED
  BY <1>1, ReportsInvariance, PTL DEF Spec

=============================================================================
