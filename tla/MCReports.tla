----------------------------- MODULE MCReports -----------------------------
(***************************************************************************)
(* Casts of processes for the model checker.                               *)
(***************************************************************************)
EXTENDS Reports

CONSTANTS p, q, r

\* Three text reports of one configuration, in one folder.
SameRuns    == {p, q, r}
SameMethods == [x \in SameRuns |-> {"txt"}]
SameConfig  == [x \in SameRuns |-> "same"]
SameFolders == [x \in SameRuns |-> <<"single">>]

\* p saves text for both modes; q text of another configuration than p; and r, of
\* the same configuration as p, text that can be compared with p's, or JSON.
MixedMethods == [x \in SameRuns |-> IF x = r THEN {"txt", "json"} ELSE {"txt"}]
MixedConfig  == [x \in SameRuns |-> IF x = q THEN "other" ELSE "same"]
MixedFolders ==
  [x \in SameRuns |-> IF x = p THEN <<"single", "multi">> ELSE <<"single">>]

\* Two processes that save JSON in the same folder.
JsonRuns    == {p, q}
JsonMethods == [x \in JsonRuns |-> {"json"}]
JsonConfig  == [x \in JsonRuns |-> "same"]
JsonFolders == [x \in JsonRuns |-> <<"single">>]

\* Two text reports, of which the second finds what the first left behind.
TextMethods == [x \in JsonRuns |-> {"txt"}]

=============================================================================
