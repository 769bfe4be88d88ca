------------------------------ MODULE Reports ------------------------------
(***************************************************************************)
(* Saved reports: processes of the program that measure, save a report in  *)
(* the folder of their mode, and, for text reports, compare it with the    *)
(* newest earlier report of the same configuration in that folder.         *)
(*                                                                         *)
(* Processes share nothing but the folders.  Any of them can be killed at  *)
(* any moment, a disk can fill up, and a reader can meet a report that     *)
(* another process is still writing.  What a report holds is abstracted to *)
(* how many of its parts have reached the file: its header, a Score and a  *)
(* Time line for each of the Measured benchmarks, and the rest.            *)
(***************************************************************************)
EXTENDS Integers, Sequences, FiniteSets

CONSTANTS
  Runs,        \* processes
  Methods,     \* what each may be given as --saveMethod, "txt", "json" or both
  Config,      \* run configuration and hardware of each
  FoldersOf,   \* folders each saves to, one after the other: two in mode both
  Measured,    \* scored benchmarks of a report
  MaxClock,    \* bound: readings of the clock in file names
  Nothing      \* no file: no report begun, or none to compare with

VARIABLES
  method,   \* --saveMethod of each process
  clock,    \* the time file names are made from
  folders,  \* folders that exist
  files,    \* the files by folder, method and time
  pc,       \* control point of each process
  stage,    \* index of its current folder
  mine,     \* key of the report it is writing or has written
  todo,     \* earlier reports it has yet to look at
  used,     \* what it compared its report with, in its latest comparison
  faults,   \* history: processes that met an error of their own
  listed    \* history: reports that were readable when it listed, without those
            \* that the file system then refused

vars == <<method, clock, folders, files, pc, stage, mine, todo, used, faults, listed>>

AllFolders == UNION {{FoldersOf[r][i] : i \in DOMAIN FoldersOf[r]} : r \in Runs}
Keys       == [folder : AllFolders, method : {"txt", "json"}, time : 0 .. MaxClock]

ASSUME ReportsAssumption ==
  /\ Methods \in [Runs -> SUBSET {"txt", "json"} \ {{}}]
  /\ \A r \in Runs : FoldersOf[r] \in Seq(AllFolders) \ {<<>>}
  /\ Measured \in Nat \ {0}
  /\ MaxClock \in Nat
  /\ Nothing \notin Keys \cup [key : Keys, run : Runs, cut : BOOLEAN]

Header == 1
Parts  == Header + 2 * Measured + 1

\* `cut`: the part after the last whole one has reached the file in part, and
\* if it is a number its first digits read as a positive one.
File == [run : Runs, parts : 0 .. Parts, cut : BOOLEAN]

Whole(f) == f.parts = Parts
Folder(r) == FoldersOf[r][stage[r]]

Final == {"exited", "failed", "killed"}

TypeOK ==
  /\ method \in [Runs -> {"txt", "json"}]
  /\ clock \in 0 .. MaxClock
  /\ folders \subseteq AllFolders
  /\ DOMAIN files \subseteq Keys
  /\ \A k \in DOMAIN files : files[k] \in File
  /\ pc \in [Runs -> Final \cup {"measure", "folder", "create", "name", "open",
                                 "write", "list", "compare", "next"}]
  /\ \A r \in Runs : stage[r] \in DOMAIN FoldersOf[r]
  /\ mine \in [Runs -> Keys \cup {Nothing}]
  /\ todo \in [Runs -> SUBSET Keys]
  /\ used \in [Runs -> [key : Keys, run : Runs, cut : BOOLEAN] \cup {Nothing}]
  /\ faults \subseteq Runs
  /\ listed \in [Runs -> SUBSET Keys]

Init ==
  /\ method \in [Runs -> {"txt", "json"}]
  /\ \A r \in Runs : method[r] \in Methods[r]
  /\ clock = 0
  /\ folders = {}
  /\ files = [k \in {} |-> Nothing]
  /\ pc = [r \in Runs |-> "measure"]
  /\ stage = [r \in Runs |-> 1]
  /\ mine = [r \in Runs |-> Nothing]
  /\ todo = [r \in Runs |-> {}]
  /\ used = [r \in Runs |-> Nothing]
  /\ faults = {}
  /\ listed = [r \in Runs |-> {}]

Goto(r, from, to) == pc[r] = from /\ pc' = [pc EXCEPT ![r] = to]

-----------------------------------------------------------------------------
(* The environment.                                                        *)

Tick ==
  /\ clock < MaxClock
  /\ clock' = clock + 1
  /\ UNCHANGED <<method, folders, files, pc, stage, mine, todo, used, faults, listed>>

\* Outside the stress test SIGINT has its default effect.
Kill(r) ==
  /\ pc[r] \notin Final
  /\ pc' = [pc EXCEPT ![r] = "killed"]
  /\ UNCHANGED <<method, clock, folders, files, stage, mine, todo, used, faults, listed>>

-----------------------------------------------------------------------------
(* run_cli, one mode, and save_report, which throws when nothing was saved. *)

Measure(r) ==
  /\ Goto(r, "measure", "folder")
  /\ UNCHANGED <<method, clock, folders, files, stage, mine, todo, used, faults, listed>>

\* The suite throws, or the file system refuses a folder, a file or the data.
\* What has reached the disk stays there.
Fails(r) ==
  /\ pc[r] \in {"measure", "folder", "create", "open", "write"}
  /\ pc' = [pc EXCEPT ![r] = "failed"]
  /\ faults' = faults \cup {r}
  /\ UNCHANGED <<method, clock, folders, files, stage, mine, todo, used, listed>>

\* write_txt ignores whether the folder was already there.
MakeFolder(r) ==
  /\ method[r] = "txt"
  /\ Goto(r, "folder", "name")
  /\ folders' = folders \cup {Folder(r)}
  /\ UNCHANGED <<method, clock, files, stage, mine, todo, used, faults, listed>>

\* ensure_directory: exists, then create_directories, whose result is false
\* when the folder is there by now.
CheckFolder(r) ==
  /\ method[r] = "json"
  /\ Goto(r, "folder", IF Folder(r) \in folders THEN "name" ELSE "create")
  /\ UNCHANGED <<method, clock, folders, files, stage, mine, todo, used, faults, listed>>

CreateFolder(r) ==
  /\ Goto(r, "create", IF Folder(r) \in folders THEN "failed" ELSE "name")
  /\ folders' = folders \cup {Folder(r)}
  /\ UNCHANGED <<method, clock, files, stage, mine, todo, used, faults, listed>>

\* The name holds the time in microseconds: no two reports are named in the same
\* one.  It may be opened only when others, named later, are already there.
Name(r) ==
  LET key == [folder |-> Folder(r), method |-> method[r], time |-> clock] IN
  /\ key \notin DOMAIN files
  /\ \A x \in Runs : mine[x] # key
  /\ Goto(r, "name", "open")
  /\ mine' = [mine EXCEPT ![r] = key]
  /\ UNCHANGED <<method, clock, folders, files, stage, todo, used, faults, listed>>

\* What may be there under the name is lost.
Open(r) ==
  /\ Goto(r, "open", "write")
  /\ files' = [k \in DOMAIN files \cup {mine[r]} |->
                 IF k = mine[r] THEN [run |-> r, parts |-> 0, cut |-> FALSE]
                                ELSE files[k]]
  /\ UNCHANGED <<method, clock, folders, stage, mine, todo, used, faults, listed>>

\* The stream flushes its buffer when that is full, wherever a line may be, and
\* when it is closed.
Flush(r) ==
  LET old == files[mine[r]] IN
  /\ pc[r] = "write"
  /\ \E n \in old.parts .. Parts, c \in BOOLEAN :
       /\ n > old.parts \/ (c /\ ~old.cut)
       /\ n = Parts => ~c
       /\ files' = [files EXCEPT ![mine[r]].parts = n, ![mine[r]].cut = c]
  /\ UNCHANGED <<method, clock, folders, pc, stage, mine, todo, used, faults, listed>>

\* Fault: the state of the stream is not looked at after close.
CloseUnchecked(r) ==
  /\ Goto(r, "write", IF method[r] = "txt" THEN "list" ELSE "next")
  /\ UNCHANGED <<method, clock, folders, files, stage, mine, todo, used, faults, listed>>

Close(r) ==
  /\ Goto(r, "write", IF method[r] = "txt" THEN "list" ELSE "next")
  /\ Whole(files[mine[r]])
  /\ UNCHANGED <<method, clock, folders, files, stage, mine, todo, used, faults, listed>>

-----------------------------------------------------------------------------
(* compare_with_previous.                                                  *)

\* parse_file and the check for completeness: a number for every Score and
\* Time line. Nothing after the last of them is looked at.
Readable(f) ==
  f.parts >= Header + 2 * Measured \/ (f.parts = 2 * Measured /\ f.cut)

\* Fault: the configuration is not compared.
ComparableAnyConfig(r, f) == Readable(f)

Comparable(r, f) == Readable(f) /\ Config[f.run] = Config[r]

Earlier(r) ==
  {k \in DOMAIN files : k.folder = Folder(r) /\ k.method = "txt"}

List(r) ==
  /\ Goto(r, "list", "compare")
  /\ todo' = [todo EXCEPT ![r] = Earlier(r) \ {mine[r]}]
  /\ used' = [used EXCEPT ![r] = Nothing]
  /\ listed' = [listed EXCEPT ![r] =
                  {k \in Earlier(r) \ {mine[r]} : Comparable(r, files[k])}]
  /\ UNCHANGED <<method, clock, folders, files, stage, mine, faults>>

\* The folder cannot be listed, or looking at it meets another exception: it is
\* caught, and the process goes on without a comparison.
CompareFails(r) ==
  /\ pc[r] \in {"list", "compare"}
  /\ pc' = [pc EXCEPT ![r] = "next"]
  /\ todo' = [todo EXCEPT ![r] = {}]
  /\ used' = [used EXCEPT ![r] = Nothing]
  /\ listed' = [listed EXCEPT ![r] = {}]
  /\ UNCHANGED <<method, clock, folders, files, stage, mine, faults>>

\* Fault: oldest first.
OldestFirst(k, keys) == \A o \in keys : k.time <= o.time

\* std::greater over the file names, which hold the time.
First(k, keys) == \A o \in keys : k.time >= o.time

Accept(r) ==
  /\ Goto(r, "compare", "next")
  /\ \E k \in todo[r] :
       /\ First(k, todo[r])
       /\ Comparable(r, files[k])
       /\ used' = [used EXCEPT ![r] =
                     [key |-> k, run |-> files[k].run,
                      cut |-> files[k].parts = 2 * Measured]]
  /\ todo' = [todo EXCEPT ![r] = {}]
  /\ UNCHANGED <<method, clock, folders, files, stage, mine, faults, listed>>

Skip(r) ==
  /\ pc[r] = "compare"
  /\ \E k \in todo[r] :
       /\ First(k, todo[r])
       /\ ~Comparable(r, files[k])
       /\ todo' = [todo EXCEPT ![r] = @ \ {k}]
  /\ UNCHANGED <<method, clock, folders, files, pc, stage, mine, used, faults, listed>>

\* A candidate that cannot be opened is passed over like one that is cut off.
CannotOpen(r) ==
  /\ pc[r] = "compare"
  /\ \E k \in todo[r] :
       /\ First(k, todo[r])
       /\ todo' = [todo EXCEPT ![r] = @ \ {k}]
       /\ listed' = [listed EXCEPT ![r] = @ \ {k}]
  /\ UNCHANGED <<method, clock, folders, files, pc, stage, mine, used, faults>>

NoneComparable(r) ==
  /\ todo[r] = {}
  /\ Goto(r, "compare", "next")
  /\ UNCHANGED <<method, clock, folders, files, stage, mine, todo, used, faults, listed>>

\* Fault: single-threaded mode falls through to the next case of the switch.
NextStageFallsThrough(r) ==
  /\ Goto(r, "next", "measure")
  /\ stage' = [stage EXCEPT ![r] = @ + 1]
  /\ UNCHANGED <<method, clock, folders, files, mine, todo, used, faults, listed>>

\* Mode both measures and saves again; otherwise the process returns 0.
NextStage(r) ==
  /\ stage[r] < Len(FoldersOf[r])
  /\ Goto(r, "next", "measure")
  /\ stage' = [stage EXCEPT ![r] = @ + 1]
  /\ UNCHANGED <<method, clock, folders, files, mine, todo, used, faults, listed>>

Exit(r) ==
  /\ stage[r] = Len(FoldersOf[r])
  /\ Goto(r, "next", "exited")
  /\ UNCHANGED <<method, clock, folders, files, stage, mine, todo, used, faults, listed>>

-----------------------------------------------------------------------------
Save(r) ==
  \/ Measure(r) \/ Fails(r)
  \/ MakeFolder(r) \/ CheckFolder(r) \/ CreateFolder(r)
  \/ Name(r) \/ Open(r) \/ Flush(r) \/ Close(r)

Compare(r) ==
  \/ List(r) \/ Accept(r) \/ Skip(r) \/ NoneComparable(r)
  \/ CannotOpen(r) \/ CompareFails(r)

Finished == (\A r \in Runs : pc[r] \in Final) /\ UNCHANGED vars

Next ==
  \/ Tick
  \/ \E r \in Runs : Save(r) \/ Compare(r) \/ NextStage(r) \/ Exit(r) \/ Kill(r)
  \/ Finished

Spec == Init /\ [][Next]_vars

-----------------------------------------------------------------------------
(* Properties.                                                             *)

HasReport(r, i) ==
  \E k \in DOMAIN files :
    k.folder = FoldersOf[r][i] /\ files[k].run = r /\ Whole(files[k])

\* A process goes on to its second mode, or exits with 0, only when the reports
\* of the modes behind it are on the disk, whole.
SavedBeforeGoingOn ==
  \A r \in Runs :
    /\ \A i \in 1 .. stage[r] - 1 : HasReport(r, i)
    /\ pc[r] \in {"list", "compare", "next", "exited"} => HasReport(r, stage[r])

\* A report is compared with one of the same configuration and hardware, in the
\* same folder, and never with itself.
ComparesLikeWithLike ==
  \A r \in Runs : used[r] # Nothing =>
    /\ Config[used[r].run] = Config[r]
    /\ used[r].key # mine[r]
    /\ pc[r] \in {"compare", "next", "exited"} => used[r].key.folder = Folder(r)

\* "Compare with the newest run that used the same workload": none that could
\* be read when the folder was listed is newer, whatever other processes write
\* in the meantime, but for those that the file system refuses to open.
NewestIsUsed ==
  \A r \in Runs : pc[r] \in {"next", "exited"} /\ method[r] = "txt" =>
    \A k \in listed[r] : used[r] # Nothing /\ k.time <= used[r].key.time

\* "comparison must reject incomplete saved measurements": no number that was
\* cut off is taken for an earlier measurement.
RejectsIncomplete ==
  \A r \in Runs : used[r] # Nothing => ~used[r].cut

\* "Results are saved in scores/": a process fails only by an error of its own
\* or of the file system.
ResultsAreSaved == \A r \in Runs : pc[r] = "failed" => r \in faults

=============================================================================
