----------------------------- MODULE Arguments -----------------------------
(***************************************************************************)
(* From the command line to the suites that run: parse_arguments::parse,   *)
(* the loading of a profile inside it, and the choice run_cli makes.  The  *)
(* settings have four sources: their defaults, options that notify stores, *)
(* the profile, and options that are stored after the profile.             *)
(*                                                                         *)
(* Numbers are abstracted to 0 .. MaxValue, where 0 stands for all that    *)
(* are not positive.  A weight or baseline option is acceptable or not.    *)
(***************************************************************************)
EXTENDS Integers, Sequences, FiniteSets

CONSTANTS
  Numbers,   \* the numeric settings considered
  MaxValue,  \* bound: largest value of a number
  MaxGiven,  \* bound: numbers given on the command line
  MaxLines   \* bound: lines of the profile

\* Options that po::notify stores, and one that is stored after the profile.
Notified == Numbers \cap {"thread_count", "iterations", "intensity_multiplier",
                          "matrix_multiply_size", "repeat_count", "num_runs"}
Late     == Numbers \cap {"memory_bandwidth_max_mib"}
Options  == Notified \cup Late

\* What a profile sets. Three of them have no option.
Profiled == Numbers \cap {"iterations", "repeat_count", "intensity_multiplier",
                          "matrix_multiply_size", "num_runs",
                          "memory_bandwidth_max_mib", "cache_sweep_min_kib",
                          "cache_sweep_max_kib", "cache_sweep_hops"}

ASSUME ArgumentsAssumption ==
  /\ {"thread_count", "iterations", "repeat_count"} \subseteq Numbers
  /\ Numbers = Options \cup Profiled
  /\ MaxValue \in Nat \ {0}
  /\ MaxGiven \in Nat
  /\ MaxLines \in Nat

Values == 0 .. MaxValue
Flags  == {"help", "singleThreaded", "multiThreaded", "infinite", "profile"}

\* The defaults of Settings and of benchmark_profile are the same numbers, and
\* iterations has one no smaller than any thread count considered.
Default == MaxValue

\* A value that std::stoi rejects, or a name that is no known benchmark.
Bad == -1

\* A line of a profile: a number, or how many benchmarks it names. Ignored is a
\* comment, an unknown key, or a key without a value.
Ignored == [key |-> "ignored", value |-> 0]
Lines   == [key : Profiled \cup {"benchmarks"}, value : Values \cup {Bad}]
             \cup {Ignored}

VARIABLES
  given,     \* numbers on the command line
  flags,     \* options without a number, and whether there is a profile
  pc,        \* control point of parse and run_cli
  settings,  \* the numbers of *settings_
  list,      \* length of settings_->profile.benchmarks
  temp,      \* temp_profile: its numbers and the length of its list
  file,      \* history: the lines of the profile read so far
  infinite,  \* settings_->infinite
  mode,      \* settings_->mode
  launched   \* the modes whose suites are run, over and over if infinite

vars == <<given, flags, pc, settings, list, temp, file, infinite, mode, launched>>

Modes == {"invalid", "none", "single", "multi", "both"}

TypeOK ==
  /\ DOMAIN given \subseteq Options
  /\ \A k \in DOMAIN given : given[k] \in Values
  /\ flags \subseteq Flags
  /\ pc \in {"store", "method", "open", "read", "late", "validate", "mode",
             "run", "done", "failed"}
  /\ settings \in [Numbers -> Values]
  /\ list \in Nat
  /\ temp \in [numbers : [Profiled -> Values], benchmarks : Nat]
  /\ file \in Seq(Lines)
  /\ infinite \in BOOLEAN
  /\ mode \in Modes
  /\ launched \in {<<>>, <<"single">>, <<"multi">>, <<"single", "multi">>}

Defaults == [numbers |-> [k \in Profiled |-> Default], benchmarks |-> 0]

\* At most MaxGiven of the options, each with some value.
CommandLines ==
  UNION {[ks -> Values] : ks \in {o \in SUBSET Options : Cardinality(o) <= MaxGiven}}

\* hardware_concurrency, the default of thread_count, can be 0.
Init ==
  /\ given \in CommandLines
  /\ flags \in SUBSET Flags
  /\ pc = "store"
  /\ \E hardware \in Values :
       settings = [k \in Numbers |-> IF k = "thread_count" THEN hardware ELSE Default]
  /\ list = 0
  /\ temp = Defaults
  /\ file = <<>>
  /\ infinite = FALSE
  /\ mode = "invalid"
  /\ launched = <<>>

-----------------------------------------------------------------------------
Goto(from, to) == pc = from /\ pc' = to

\* Nothing but the control point changes.
Decide(from, to) ==
  /\ Goto(from, to)
  /\ UNCHANGED <<given, flags, settings, list, temp, file, infinite, mode, launched>>

\* f where g says nothing, and g where it does.
Over(g, f) == [k \in DOMAIN f |-> IF k \in DOMAIN g THEN g[k] ELSE f[k]]

\* Those of the options ks that are given.
Given(ks) == [k \in DOMAIN given \cap ks |-> given[k]]

\* An unknown option, a value that is no number, or a method that is neither
\* json nor txt.
OptionRejected ==
  /\ \/ Decide("store", "failed")
     \/ Decide("method", "failed")

\* --help returns at once, with the other options stored.
Notify ==
  /\ Goto("store", IF "help" \in flags THEN "run" ELSE "method")
  /\ settings' = Over(Given(Notified), settings)
  /\ mode' = IF "help" \in flags THEN "none" ELSE mode
  /\ UNCHANGED <<given, flags, list, temp, file, infinite, launched>>

CheckMethod == Decide("method", IF "profile" \in flags THEN "open" ELSE "late")

\* Fault: the temporary profile starts without its defaults.
OpenProfileWithoutDefaults ==
  /\ Goto("open", "read")
  /\ temp' = [numbers |-> [k \in Profiled |-> Bad], benchmarks |-> 0]
  /\ UNCHANGED <<given, flags, settings, list, file, infinite, mode, launched>>

OpenProfile ==
  /\ Goto("open", "read")
  /\ temp' = Defaults
  /\ UNCHANGED <<given, flags, settings, list, file, infinite, mode, launched>>

ProfileUnreadable == Decide("open", "failed") \/ Decide("read", "failed")

\* What a line that is not bad does to a profile: numbers replace earlier ones,
\* benchmarks are appended.
Apply(line, profile) ==
  IF line.key = "benchmarks"
    THEN [profile EXCEPT !.benchmarks = @ + line.value]
    ELSE [profile EXCEPT !.numbers = Over([k \in {line.key} |-> line.value], @)]

\* Fault: the lines are applied to the settings as they are read.
ReadLineInPlace ==
  /\ Len(file) < MaxLines
  /\ \E line \in Lines :
       /\ Goto("read", IF line.value = Bad THEN "failed" ELSE "read")
       /\ file' = Append(file, line)
       /\ temp' = IF line.value = Bad THEN temp ELSE Apply(line, temp)
       /\ settings' = Over(temp'.numbers, settings)
  /\ UNCHANGED <<given, flags, list, infinite, mode, launched>>

ReadLine ==
  /\ Len(file) < MaxLines
  /\ \E line \in Lines :
       /\ Goto("read", IF line.value = Bad THEN "failed" ELSE "read")
       /\ file' = Append(file, line)
       /\ temp' = IF line.value = Bad THEN temp ELSE Apply(line, temp)
  /\ UNCHANGED <<given, flags, settings, list, infinite, mode, launched>>

\* Fault: a profile without benchmarks is accepted.
ApplyProfileEvenEmpty ==
  /\ Goto("read", "late")
  /\ settings' = Over(temp.numbers, settings)
  /\ list' = temp.benchmarks
  /\ UNCHANGED <<given, flags, temp, file, infinite, mode, launched>>

\* load_profile: all numbers are copied, those the file does not name too.
ApplyProfile ==
  /\ temp.benchmarks > 0
  /\ Goto("read", "late")
  /\ settings' = Over(temp.numbers, settings)
  /\ list' = temp.benchmarks
  /\ UNCHANGED <<given, flags, temp, file, infinite, mode, launched>>

\* Fault: the option for the memory limit is forgotten.
StoreLateForgotten ==
  /\ Goto("late", "validate")
  /\ infinite' = ("infinite" \in flags)
  /\ UNCHANGED <<given, flags, settings, list, temp, file, mode, launched>>

StoreLate ==
  /\ Goto("late", "validate")
  /\ settings' = Over(Given(Late), settings)
  /\ infinite' = ("infinite" \in flags)
  /\ UNCHANGED <<given, flags, list, temp, file, mode, launched>>

\* Malformed or unusable weights or baselines.
ScoringRejected == Decide("validate", "failed")

\* Fault: the thread count is only compared when --multiThreaded is given.
ValidateExplicitOnly ==
  Decide("validate",
         IF /\ \A k \in Options : settings[k] > 0
            /\ "multiThreaded" \in flags =>
                 settings["iterations"] >= settings["thread_count"]
           THEN "mode" ELSE "failed")

Validate ==
  Decide("validate",
         IF /\ \A k \in Options : settings[k] > 0
            /\ "singleThreaded" \notin flags =>
                 settings["iterations"] >= settings["thread_count"]
           THEN "mode" ELSE "failed")

\* Fault: both modes are the default of the stress test too.
DetermineModeBoth ==
  /\ Goto("mode", "run")
  /\ mode' = IF "singleThreaded" \in flags THEN "single"
             ELSE IF "multiThreaded" \in flags THEN "multi" ELSE "both"
  /\ settings' = IF infinite THEN [settings EXCEPT !["repeat_count"] = 1] ELSE settings
  /\ UNCHANGED <<given, flags, list, temp, file, infinite, launched>>

DetermineMode ==
  /\ Goto("mode", "run")
  /\ mode' = IF "singleThreaded" \in flags THEN "single"
             ELSE IF "multiThreaded" \in flags \/ infinite THEN "multi" ELSE "both"
  /\ settings' = IF infinite THEN [settings EXCEPT !["repeat_count"] = 1] ELSE settings
  /\ UNCHANGED <<given, flags, list, temp, file, infinite, launched>>

\* run_cli: nothing, one mode, both, or the stress test in one mode.
Launch ==
  /\ Goto("run", "done")
  /\ launched' = CASE mode = "none" -> <<>>
                   [] mode = "both" -> <<"single", "multi">>
                   [] OTHER -> <<mode>>
  /\ UNCHANGED <<given, flags, settings, list, temp, file, infinite, mode>>

Finished == pc \in {"done", "failed"} /\ UNCHANGED vars

Next ==
  \/ OptionRejected \/ Notify \/ CheckMethod
  \/ OpenProfile \/ ProfileUnreadable \/ ReadLine \/ ApplyProfile
  \/ StoreLate \/ ScoringRejected \/ Validate
  \/ DetermineMode \/ Launch
  \/ Finished

Spec == Init /\ [][Next]_vars

-----------------------------------------------------------------------------
(* Properties.                                                             *)

Launched == launched # <<>>

\* Whatever source a number came from, it was checked after its last change:
\* what run_specific_benchmarks starts with is positive, and in multi-threaded
\* mode every worker has an iteration to do.
OnlyValidSettingsRun ==
  Launched =>
    /\ \A k \in Options : settings[k] > 0
    /\ "multi" \in {launched[i] : i \in DOMAIN launched} =>
         settings["iterations"] >= settings["thread_count"]

\* The value the file gives k last, and whether it gives it one.
InFile(k)   == {i \in DOMAIN file : file[i].key = k}
LastLine(k) == file[CHOOSE i \in InFile(k) : \A j \in InFile(k) : j <= i].value

\* The stress test has no repeats of its own.
OneByStress(k) == infinite /\ k = "repeat_count"

\* An option stored after the profile beats it, a line of the profile beats the
\* options stored before and all lines before it, and an option is only ignored
\* because there is a profile.
LastSourceWins ==
  Launched => \A k \in Numbers : OneByStress(k) \/
    /\ k \in DOMAIN given \cap Late => settings[k] = given[k]
    /\ InFile(k) # {} /\ k \notin DOMAIN given \cap Late => settings[k] = LastLine(k)
    /\ k \in DOMAIN given /\ "profile" \notin flags => settings[k] = given[k]

\* "an invalid profile must fail without changing settings": until the file has
\* been read to its end, and is seen to name a benchmark, nothing is stored.
ProfileIsAllOrNothing ==
  [][pc = "read" =>
       \/ UNCHANGED <<settings, list>> /\ pc' # "late"
       \/ pc' = "late" /\ list' > 0]_vars

\* "an empty profile must not fall back to the default suite", and the default
\* suite runs only without a profile.
ProfileReplacesDefaultSuite ==
  Launched => ("profile" \in flags <=> list > 0)

\* --help runs nothing, the stress test runs in one mode and does not repeat,
\* and a mode that is asked for is the one that runs.
RunsTheModeAskedFor ==
  /\ "help" \in flags => ~Launched
  /\ Launched /\ infinite => Len(launched) = 1 /\ settings["repeat_count"] = 1
  /\ Launched /\ "singleThreaded" \in flags => launched = <<"single">>
  /\ Launched /\ "multiThreaded" \in flags /\ "singleThreaded" \notin flags =>
       launched = <<"multi">>

\* "Profiles, workload settings, and --numRuns still apply" in the stress test.
NumRunsApplies ==
  Launched /\ infinite /\ "num_runs" \in DOMAIN given =>
    settings["num_runs"] = given["num_runs"]

=============================================================================
