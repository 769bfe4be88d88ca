-------------------------- MODULE ArgumentsProofs --------------------------
(***************************************************************************)
(* Theorems about Arguments, for any numbers, command line and profile.    *)
(* What holds when the suites start was established at different places    *)
(* of parse: IInv says from which control point on each part holds.        *)
(***************************************************************************)
EXTENDS Arguments, TLAPS

\* parse has not decided on a mode.
Parsing == pc \in {"store", "method", "open", "read", "late", "validate", "mode"}

Usable ==
  /\ \A k \in Options : settings[k] > 0
  /\ "singleThreaded" \notin flags => settings["iterations"] >= settings["thread_count"]

\* After Validate only repeat_count changes, to 1.
ValidInv ==
  (pc = "mode" \/ (pc \in {"run", "done"} /\ "help" \notin flags)) => Usable

ListInv ==
  /\ "profile" \notin flags => list = 0 /\ pc \notin {"open", "read"}
  /\ "profile" \in flags /\ "help" \notin flags =>
       (pc \in {"late", "validate", "mode", "run", "done"} => list > 0)

Chosen ==
  IF "help" \in flags THEN "none"
  ELSE IF "singleThreaded" \in flags THEN "single"
  ELSE IF "multiThreaded" \in flags \/ "infinite" \in flags THEN "multi" ELSE "both"

ModeInv ==
  /\ Parsing => mode = "invalid"
  /\ pc # "done" => launched = <<>>
  /\ Parsing /\ pc # "store" => "help" \notin flags
  /\ pc \in {"store", "method", "open", "read", "late"} => ~infinite
  /\ pc \in {"validate", "mode"} => infinite = ("infinite" \in flags)
  /\ pc \in {"run", "done"} =>
       /\ mode = Chosen
       /\ infinite = ("infinite" \in flags /\ "help" \notin flags)
       /\ infinite => settings["repeat_count"] = 1
  /\ pc = "done" =>
       launched = CASE mode = "none" -> <<>>
                    [] mode = "both" -> <<"single", "multi">>
                    [] OTHER -> <<mode>>

\* The lines that give k a value have a last one, which temp_profile holds.
IsLast(i, k) == i \in InFile(k) /\ \A j \in InFile(k) : j <= i

FileInv ==
  pc \in {"read", "late", "validate", "mode", "run", "done"} =>
    \A k \in Profiled :
      InFile(k) # {} =>
        \E i \in DOMAIN file : IsLast(i, k) /\ temp.numbers[k] = file[i].value

\* Where a setting has its value from, once parse has collected them.
FromProfile(k) == k \in Profiled /\ "profile" \in flags

SourceInv ==
  /\ pc \in {"store", "method", "open"} => file = <<>>
  /\ "profile" \notin flags \/ "help" \in flags => file = <<>>
  /\ pc \in {"method", "open", "read", "late"} =>
       \A k \in DOMAIN given \cap Notified :
         (FromProfile(k) /\ pc = "late") \/ settings[k] = given[k]
  /\ pc = "late" => \A k \in Profiled :
       "profile" \in flags => settings[k] = temp.numbers[k]
  /\ pc \in {"validate", "mode"} \/ (pc \in {"run", "done"} /\ "help" \notin flags) =>
       \A k \in Numbers : (OneByStress(k) /\ pc \in {"run", "done"}) \/
         IF k \in DOMAIN given \cap Late THEN settings[k] = given[k]
         ELSE IF FromProfile(k) THEN settings[k] = temp.numbers[k]
         ELSE k \in DOMAIN given => settings[k] = given[k]

IInv == TypeOK /\ ValidInv /\ ListInv /\ ModeInv /\ FileInv /\ SourceInv

-----------------------------------------------------------------------------
(* Lemmas.                                                                 *)

\* Over keeps the domain, and the range when that of both arguments is V.
LEMMA OverType ==
  ASSUME NEW D, NEW V, NEW f \in [D -> V], NEW g,
         \A k \in DOMAIN g \cap D : g[k] \in V
  PROVE  Over(g, f) \in [D -> V]
  BY DEF Over

\* What Over holds at each place.
LEMMA OverValue ==
  ASSUME NEW D, NEW V, NEW f \in [D -> V], NEW g, NEW k \in D
  PROVE  Over(g, f)[k] = IF k \in DOMAIN g THEN g[k] ELSE f[k]
  BY DEF Over

\* The names of the settings, and the values they have by default.
LEMMA Names ==
  /\ Options \subseteq Numbers /\ Profiled \subseteq Numbers
  /\ Notified \subseteq Options /\ Late \subseteq Options
  /\ Options \subseteq Notified \cup Late /\ Notified \cap Late = {}
  /\ "thread_count" \in Options /\ "iterations" \in Options
  /\ "repeat_count" \in Notified
  /\ "thread_count" \in Numbers /\ "iterations" \in Numbers /\ "repeat_count" \in Numbers
  /\ Default \in Values
  /\ 1 \in Values /\ Values \subseteq Int /\ Bad \notin Values
  /\ "benchmarks" \notin Profiled /\ "ignored" \notin Profiled
BY ArgumentsAssumption DEF Options, Notified, Late, Profiled, Default, Values, Bad

\* A command line gives options values.
LEMMA CommandLineType ==
  ASSUME NEW g \in CommandLines
  PROVE  DOMAIN g \subseteq Options /\ \A k \in DOMAIN g : g[k] \in Values
<1>1. PICK ks \in SUBSET Options : g \in [ks -> Values]
  BY DEF CommandLines
<1> QED
  BY <1>1

\* The program starts with the types right.
LEMMA TypeInit == Init => TypeOK
<1> SUFFICES ASSUME Init PROVE TypeOK
  OBVIOUS
<1>1. DOMAIN given \subseteq Options /\ \A k \in DOMAIN given : given[k] \in Values
  BY CommandLineType DEF Init
<1>2. settings \in [Numbers -> Values]
  BY Names DEF Init
<1>3. temp \in [numbers : [Profiled -> Values], benchmarks : Nat]
  BY Names DEF Init, Defaults
<1>4. file \in Seq(Lines) /\ launched = <<>>
  BY DEF Init
<1> QED
  BY <1>1, <1>2, <1>3, <1>4 DEF Init, TypeOK, Modes

\* Applying a line keeps the type of a profile, and gives the number it names
\* its value.
LEMMA ApplyType ==
  ASSUME NEW profile \in [numbers : [Profiled -> Values], benchmarks : Nat],
         NEW line \in Lines, line.value # Bad
  PROVE  /\ Apply(line, profile) \in [numbers : [Profiled -> Values], benchmarks : Nat]
         /\ \A k \in Profiled :
              Apply(line, profile).numbers[k] =
                IF k = line.key THEN line.value ELSE profile.numbers[k]
<1>1. line.value \in Values
  BY ArgumentsAssumption DEF Lines, Ignored, Values
<1>2. CASE line.key = "benchmarks"
  BY <1>1, <1>2, Names DEF Apply, Values
<1>3. CASE line.key # "benchmarks"
  <2> DEFINE g == [k \in {line.key} |-> line.value]
  <2>1. /\ Over(g, profile.numbers) \in [Profiled -> Values]
        /\ \A k \in Profiled : Over(g, profile.numbers)[k] =
             IF k = line.key THEN line.value ELSE profile.numbers[k]
    BY <1>1 DEF Over
  <2>2. Apply(line, profile) = [profile EXCEPT !.numbers = Over(g, profile.numbers)]
    BY <1>3 DEF Apply
  <2> QED
    BY <2>1, <2>2
<1> QED
  BY <1>2, <1>3

\* One line more: the lines that name k, and the last of them.
LEMMA OneMoreLine ==
  ASSUME file \in Seq(Lines), NEW line \in Lines, file' = Append(file, line),
         NEW k
  PROVE  /\ line.key = k =>
              \E i \in DOMAIN file' : IsLast(i, k)' /\ file'[i] = line
         /\ line.key # k => InFile(k)' = InFile(k)
         /\ DOMAIN file \subseteq DOMAIN file'
         /\ \A i \in DOMAIN file : file'[i] = file[i]
<1>1. /\ DOMAIN file = 1 .. Len(file) /\ DOMAIN file' = 1 .. Len(file) + 1
      /\ \A i \in DOMAIN file : file'[i] = file[i]
      /\ file'[Len(file) + 1] = line
      /\ Len(file) \in Nat
  OBVIOUS
<1>2. InFile(k)' = InFile(k) \cup (IF line.key = k THEN {Len(file) + 1} ELSE {})
  BY <1>1 DEF InFile
<1>3. ASSUME line.key = k
      PROVE  \E i \in DOMAIN file' : IsLast(i, k)' /\ file'[i] = line
  <2>1. \A j \in InFile(k)' : j <= Len(file) + 1
    BY <1>1 DEF InFile
  <2> DEFINE n == 1 + Len(file)
  <2>2. n \in DOMAIN file' /\ n \in InFile(k)' /\ file'[n] = line
    BY <1>1, <1>2, <1>3
  <2> QED
    BY <2>1, <2>2, <1>1 DEF IsLast
<1> QED
  BY <1>1, <1>2, <1>3

-----------------------------------------------------------------------------
(* The invariant.                                                          *)

\* The invariant holds at the start.
LEMMA InvInit == Init => IInv
<1> SUFFICES ASSUME Init PROVE IInv
  OBVIOUS
<1>1. ValidInv /\ ListInv /\ ModeInv /\ FileInv
  BY DEF Init, ValidInv, ListInv, ModeInv, FileInv, Parsing
<1>2. SourceInv
  BY DEF Init, SourceInv
<1> QED
  BY <1>1, <1>2, TypeInit DEF IInv

\* The type invariant is inductive.
LEMMA TypeStep == TypeOK /\ ModeInv /\ [Next]_vars => TypeOK'
<1> SUFFICES ASSUME TypeOK, ModeInv, [Next]_vars PROVE TypeOK'
  OBVIOUS
<1> USE DEF TypeOK, Goto, Modes
<1>1. CASE OptionRejected \/ CheckMethod \/ ProfileUnreadable \/ ScoringRejected \/ Validate
  BY <1>1 DEF OptionRejected, CheckMethod, ProfileUnreadable, ScoringRejected,
     Validate, Decide
<1>2. CASE Notify
  <2>1. settings' \in [Numbers -> Values]
    BY <1>2, OverType DEF Notify, Given
  <2> QED
    BY <1>2, <2>1 DEF Notify
<1>3. CASE OpenProfile
  BY <1>3, Names DEF OpenProfile, Defaults
<1>4. CASE ReadLine
  <2>1. PICK line \in Lines :
          /\ pc' \in {"failed", "read"}
          /\ file' = Append(file, line)
          /\ temp' = IF line.value = Bad THEN temp ELSE Apply(line, temp)
    BY <1>4 DEF ReadLine
  <2>2. temp' \in [numbers : [Profiled -> Values], benchmarks : Nat]
    BY <2>1, ApplyType
  <2>3. file' \in Seq(Lines)
    BY <2>1
  <2> QED
    BY <1>4, <2>1, <2>2, <2>3 DEF ReadLine
<1>5. CASE ApplyProfile
  <2>1. settings' \in [Numbers -> Values]
    BY <1>5, OverType DEF ApplyProfile
  <2> QED
    BY <1>5, <2>1 DEF ApplyProfile
<1>6. CASE StoreLate
  <2>1. settings' \in [Numbers -> Values]
    BY <1>6, OverType DEF StoreLate, Given
  <2> QED
    BY <1>6, <2>1 DEF StoreLate
<1>7. CASE DetermineMode
  <2>1. settings' \in [Numbers -> Values]
    BY <1>7, Names DEF DetermineMode
  <2> QED
    BY <1>7, <2>1 DEF DetermineMode
<1>8. CASE Launch
  <2>1. mode \in {"none", "single", "multi", "both"}
    BY <1>8 DEF Launch, ModeInv, Chosen
  <2> QED
    BY <1>8, <2>1 DEF Launch
<1>9. CASE Finished \/ UNCHANGED vars
  BY <1>9 DEF Finished, vars
<1> QED
  BY <1>1, <1>2, <1>3, <1>4, <1>5, <1>6, <1>7, <1>8, <1>9 DEF Next

\* Modes, the profile's list and the settings that were validated.
LEMMA ModeStep ==
  TypeOK /\ ValidInv /\ ListInv /\ ModeInv /\ [Next]_vars =>
    ValidInv' /\ ListInv' /\ ModeInv'
<1> SUFFICES ASSUME TypeOK, ValidInv, ListInv, ModeInv, [Next]_vars
             PROVE  ValidInv' /\ ListInv' /\ ModeInv'
  OBVIOUS
<1> USE DEF ValidInv, Usable, ListInv, ModeInv, Parsing, Chosen, Goto
<1>1. CASE OptionRejected \/ CheckMethod \/ ProfileUnreadable \/ ScoringRejected
  BY <1>1 DEF OptionRejected, CheckMethod, ProfileUnreadable, ScoringRejected, Decide
<1>2. CASE Notify
  <2>1. infinite = FALSE /\ infinite' = FALSE
    BY <1>2 DEF Notify, TypeOK
  <2> QED
    BY <1>2, <2>1 DEF Notify
<1>3. CASE OpenProfile
  BY <1>3 DEF OpenProfile
<1>4. CASE ReadLine
  BY <1>4 DEF ReadLine
<1>5. CASE ApplyProfile
  BY <1>5 DEF ApplyProfile
<1>6. CASE StoreLate
  BY <1>6 DEF StoreLate
<1>7. CASE Validate
  BY <1>7 DEF Validate, Decide
<1>8. CASE DetermineMode
  <2>1. Usable'
    BY <1>8, Names DEF DetermineMode, TypeOK
  <2>2. infinite => settings'["repeat_count"] = 1
    BY <1>8, Names DEF DetermineMode, TypeOK
  <2>3. pc' = "run" /\ mode' = Chosen' /\ launched' = <<>>
    BY <1>8 DEF DetermineMode
  <2>4. infinite' = infinite /\ infinite = ("infinite" \in flags) /\ "help" \notin flags
    BY <1>8 DEF DetermineMode
  <2>5. ListInv'
    BY <1>8 DEF DetermineMode
  <2> HIDE DEF Usable, Chosen, ListInv
  <2> QED
    BY <1>8, <2>1, <2>2, <2>3, <2>4, <2>5 DEF DetermineMode
<1>9. CASE Launch
  BY <1>9 DEF Launch
<1>10. CASE Finished \/ UNCHANGED vars
  BY <1>10 DEF Finished, vars
<1> QED
  BY <1>1, <1>2, <1>3, <1>4, <1>5, <1>6, <1>7, <1>8, <1>9, <1>10 DEF Next

\* temp_profile agrees with the lines read.
LEMMA FileStep ==
  TypeOK /\ SourceInv /\ FileInv /\ [Next]_vars => FileInv'
<1> SUFFICES ASSUME TypeOK, SourceInv, FileInv, [Next]_vars PROVE FileInv'
  OBVIOUS
<1> USE DEF Goto
<1>1. CASE ReadLine
  <2>1. PICK line \in Lines :
          /\ pc = "read"
          /\ pc' = IF line.value = Bad THEN "failed" ELSE "read"
          /\ file' = Append(file, line)
          /\ temp' = IF line.value = Bad THEN temp ELSE Apply(line, temp)
    BY <1>1 DEF ReadLine
  <2>2. CASE line.value = Bad
    BY <2>1, <2>2 DEF FileInv
  <2>3. CASE line.value # Bad
    <3>1. SUFFICES ASSUME NEW k \in Profiled, InFile(k)' # {}
                   PROVE  \E i \in DOMAIN file' :
                            IsLast(i, k)' /\ temp'.numbers[k] = file'[i].value
      BY DEF FileInv
    <3>2. /\ temp' = Apply(line, temp)
          /\ temp'.numbers[k] = IF k = line.key THEN line.value ELSE temp.numbers[k]
      BY <2>1, <2>3, ApplyType DEF TypeOK
    <3>3. CASE line.key = k
      BY <2>1, <3>2, <3>3, OneMoreLine DEF TypeOK
    <3>4. CASE line.key # k
      <4>1. InFile(k)' = InFile(k)
        BY <2>1, <3>4, OneMoreLine DEF TypeOK
      <4>2. PICK i \in DOMAIN file : IsLast(i, k) /\ temp.numbers[k] = file[i].value
        BY <2>1, <3>1, <4>1 DEF FileInv
      <4>3. i \in DOMAIN file' /\ file'[i] = file[i]
        BY <2>1, <4>2, OneMoreLine DEF TypeOK
      <4> QED
        BY <3>2, <3>4, <4>1, <4>2, <4>3 DEF IsLast
    <3> QED
      BY <3>3, <3>4
  <2> QED
    BY <2>2, <2>3
<1>2. CASE OpenProfile
  BY <1>2 DEF OpenProfile, SourceInv, FileInv, InFile
<1>3. CASE Notify
  BY <1>3 DEF Notify, SourceInv, FileInv, InFile
<1>4. CASE CheckMethod
  BY <1>4 DEF CheckMethod, Decide, SourceInv, FileInv, InFile
<1>5. ASSUME UNCHANGED <<temp, file>>,
             pc \in {"read", "late", "validate", "mode", "run"} \/ pc' = pc \/ pc' = "failed"
      PROVE  FileInv'
  BY <1>5 DEF FileInv, IsLast, InFile
<1> QED
  BY <1>1, <1>2, <1>3, <1>4, <1>5
     DEF Next, OptionRejected, ProfileUnreadable, ApplyProfile, StoreLate,
         ScoringRejected, Validate, DetermineMode, Launch, Finished, Decide, vars

\* Every setting comes from the source that speaks last.
LEMMA SourceStep ==
  TypeOK /\ ListInv /\ ModeInv /\ SourceInv /\ [Next]_vars => SourceInv'
<1> SUFFICES ASSUME TypeOK, ListInv, ModeInv, SourceInv, [Next]_vars PROVE SourceInv'
  OBVIOUS
<1> USE DEF Goto, FromProfile, OneByStress
<1>1. CASE OptionRejected \/ ProfileUnreadable \/ ScoringRejected
  BY <1>1 DEF OptionRejected, ProfileUnreadable, ScoringRejected, Decide, SourceInv
<1>2. CASE Notify
  <2>1. \A k \in DOMAIN given \cap Notified : settings'[k] = given[k]
    BY <1>2, Names DEF Notify, Over, Given, TypeOK
  <2> QED
    BY <1>2, <2>1 DEF Notify, SourceInv
<1>3. CASE CheckMethod
  BY <1>3 DEF CheckMethod, Decide, SourceInv
<1>4. CASE OpenProfile
  BY <1>4 DEF OpenProfile, SourceInv
<1>5. CASE ReadLine
  BY <1>5 DEF ReadLine, SourceInv, ListInv, ModeInv, Parsing
<1>6. CASE ApplyProfile
  <2>1. \A k \in Numbers :
          settings'[k] = IF k \in Profiled THEN temp.numbers[k] ELSE settings[k]
    BY <1>6 DEF ApplyProfile, Over, TypeOK
  <2>2. "profile" \in flags
    BY <1>6 DEF ApplyProfile, ListInv
  <2>3. \A k \in Profiled : settings'[k] = temp'.numbers[k]
    BY <1>6, <2>1, Names DEF ApplyProfile
  <2>4. \A k \in DOMAIN given \cap Notified : k \in Profiled \/ settings'[k] = given[k]
    BY <1>6, <2>1, Names DEF ApplyProfile, SourceInv
  <2> QED
    BY <1>6, <2>2, <2>3, <2>4 DEF ApplyProfile, SourceInv
<1>7. CASE StoreLate
  <2>1. \A k \in Numbers :
          settings'[k] = IF k \in DOMAIN given \cap Late THEN given[k] ELSE settings[k]
    BY <1>7 DEF StoreLate, Over, Given, TypeOK
  <2>2. \A k \in Numbers :
          IF k \in DOMAIN given \cap Late THEN settings'[k] = given[k]
          ELSE IF FromProfile(k) THEN settings'[k] = temp.numbers[k]
          ELSE k \in DOMAIN given => settings'[k] = given[k]
    BY <1>7, <2>1, Names DEF StoreLate, SourceInv, TypeOK
  <2> QED
    BY <1>7, <2>2 DEF StoreLate, SourceInv
<1>8. CASE Validate
  BY <1>8 DEF Validate, Decide, SourceInv
<1>9. CASE DetermineMode
  <2>1. \A k \in Numbers : (infinite /\ k = "repeat_count") \/ settings'[k] = settings[k]
    BY <1>9 DEF DetermineMode, TypeOK
  <2> QED
    BY <1>9, <2>1 DEF DetermineMode, SourceInv
<1>10. CASE Launch
  BY <1>10 DEF Launch, SourceInv
<1>11. CASE Finished \/ UNCHANGED vars
  BY <1>11 DEF Finished, vars, SourceInv
<1> QED
  BY <1>1, <1>2, <1>3, <1>4, <1>5, <1>6, <1>7, <1>8, <1>9, <1>10, <1>11 DEF Next

\* IInv is an invariant of the specification.
THEOREM Invariance == Spec => []IInv
<1>1. IInv /\ [Next]_vars => IInv'
  BY TypeStep, ModeStep, FileStep, SourceStep DEF IInv
<1> QED
  BY InvInit, <1>1, PTL DEF Spec

-----------------------------------------------------------------------------
(* The theorems.                                                           *)

\* The variables keep their types, whatever the command line and the profile.
THEOREM TypeCorrect == Spec => []TypeOK
<1>1. IInv => TypeOK
  BY DEF IInv
<1> QED
  BY <1>1, Invariance, PTL

\* What a step of the launched program has: it is done, and was not asked for
\* help.
LEMMA WhenLaunched ==
  ASSUME IInv, Launched
  PROVE  /\ pc = "done" /\ "help" \notin flags /\ Usable
         /\ mode \in {"single", "multi", "both"} /\ mode = Chosen
         /\ launched = IF mode = "both" THEN <<"single", "multi">> ELSE <<mode>>
         /\ infinite = ("infinite" \in flags)
         /\ infinite => settings["repeat_count"] = 1
  BY DEF IInv, ModeInv, ValidInv, Launched, Chosen, Parsing

\* No suite starts with a number that was not checked after its last change.
THEOREM ChecksComeLast == Spec => []OnlyValidSettingsRun
<1>1. ASSUME IInv PROVE OnlyValidSettingsRun
  <2> SUFFICES ASSUME Launched PROVE OnlyValidSettingsRun
    BY DEF OnlyValidSettingsRun
  <2>1. "multi" \in {launched[i] : i \in DOMAIN launched} => "singleThreaded" \notin flags
    BY <1>1, WhenLaunched DEF Chosen
  <2> QED
    BY <1>1, <2>1, WhenLaunched DEF OnlyValidSettingsRun, Usable
<1> QED
  BY <1>1, Invariance, PTL

\* A late option beats the profile, and the profile's last line all before it.
THEOREM Precedence == Spec => []LastSourceWins
<1>1. ASSUME IInv PROVE LastSourceWins
  <2> SUFFICES ASSUME Launched, NEW k \in Numbers, ~OneByStress(k)
               PROVE  /\ k \in DOMAIN given \cap Late => settings[k] = given[k]
                      /\ InFile(k) # {} /\ k \notin DOMAIN given \cap Late =>
                           settings[k] = LastLine(k)
                      /\ k \in DOMAIN given /\ "profile" \notin flags =>
                           settings[k] = given[k]
    BY DEF LastSourceWins
  <2>1. /\ pc = "done" /\ "help" \notin flags
        /\ IF k \in DOMAIN given \cap Late THEN settings[k] = given[k]
           ELSE IF FromProfile(k) THEN settings[k] = temp.numbers[k]
           ELSE k \in DOMAIN given => settings[k] = given[k]
    BY <1>1, WhenLaunched DEF IInv, SourceInv
  <2>2. ASSUME InFile(k) # {}, k \notin DOMAIN given \cap Late
        PROVE  settings[k] = LastLine(k)
    <3>1. PICK i \in DOMAIN file : file[i].key = k
      BY <2>2 DEF InFile
    <3>2. file[i] \in Lines
      BY <1>1, <3>1 DEF IInv, TypeOK
    <3>3. k \in Profiled
      BY <3>1, <3>2, ArgumentsAssumption
         DEF Lines, Ignored, Options, Notified, Late, Profiled
    <3>4. "profile" \in flags
      BY <1>1, <3>1 DEF IInv, SourceInv
    <3>5. PICK n \in DOMAIN file : IsLast(n, k) /\ temp.numbers[k] = file[n].value
      BY <1>1, <2>1, <2>2, <3>3 DEF IInv, FileInv
    <3>6. \A m \in InFile(k) : (\A j \in InFile(k) : j <= m) => m = n
      <4>1. InFile(k) \subseteq Int
        BY <1>1 DEF IInv, TypeOK, InFile
      <4> QED
        BY <3>5, <4>1 DEF IsLast
    <3>7. n = CHOOSE m \in InFile(k) : \A j \in InFile(k) : j <= m
      BY <3>5, <3>6 DEF IsLast
    <3> QED
      BY <2>1, <2>2, <3>3, <3>4, <3>5, <3>7 DEF LastLine, FromProfile
  <2> QED
    BY <2>1, <2>2 DEF FromProfile
<1> QED
  BY <1>1, Invariance, PTL

\* A profile's benchmarks replace the default suite, always and only then.
THEOREM SuiteReplaced == Spec => []ProfileReplacesDefaultSuite
<1>1. IInv => ProfileReplacesDefaultSuite
  BY WhenLaunched DEF IInv, ListInv, TypeOK, ProfileReplacesDefaultSuite
<1> QED
  BY <1>1, Invariance, PTL

\* The mode asked for is the mode that runs; help runs none.
THEOREM RightMode == Spec => []RunsTheModeAskedFor
<1>1. IInv => RunsTheModeAskedFor
  BY WhenLaunched DEF Chosen, RunsTheModeAskedFor
<1> QED
  BY <1>1, Invariance, PTL

\* A profile that fails in any line, or at its end, changes no setting.
THEOREM AllOrNothing == Spec => ProfileIsAllOrNothing
<1>1. [Next]_vars =>
        [pc = "read" =>
           \/ UNCHANGED <<settings, list>> /\ pc' # "late"
           \/ pc' = "late" /\ list' > 0]_vars
  BY DEF Next, OptionRejected, Notify, CheckMethod, OpenProfile,
     ProfileUnreadable, ReadLine, ApplyProfile, StoreLate, ScoringRejected,
     Validate, DetermineMode, Launch, Finished, Decide, Goto, vars
<1> QED
  BY <1>1, PTL DEF Spec, ProfileIsAllOrNothing

=============================================================================
