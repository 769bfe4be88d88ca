------------------------------ MODULE ForkJoin ------------------------------
(***************************************************************************)
(* What the code that uses benchmark_thread_pool relies on, without        *)
(* threads or barriers: calls do not overlap; in a call every shard runs   *)
(* at most once, the shards of one owner in ascending order and none after *)
(* one that threw; the call returns normally only when every shard ran and *)
(* none threw, and otherwise it throws.                                    *)
(***************************************************************************)
EXTENDS Integers

CONSTANTS
  Shards,   \* the shards of a call
  Owner(_)  \* who runs a shard

VARIABLES
  status,   \* "down", "open", "running", "closed" or "aborted"
  ran,      \* how often each shard ran in the latest call
  threw,    \* shards of the latest call that threw
  result    \* of the latest call: "none" while it runs, "ok" or "threw"

vars == <<status, ran, threw, result>>

Init ==
  /\ status = "down"
  /\ ran = [s \in Shards |-> 0]
  /\ threw = {}
  /\ result = "none"

Ahead(s) == {e \in Shards : e < s /\ Owner(e) = Owner(s)}

Open ==
  /\ status = "down"
  /\ status' \in {"open", "aborted"}
  /\ UNCHANGED <<ran, threw, result>>

Begin ==
  /\ status = "open"
  /\ status' = "running"
  /\ ran' = [s \in Shards |-> 0]
  /\ threw' = {}
  /\ result' = "none"

Exec(s) ==
  /\ status = "running"
  /\ ran[s] = 0
  /\ \A e \in Ahead(s) : ran[e] = 1 /\ e \notin threw
  /\ ran' = [ran EXCEPT ![s] = 1]
  /\ threw' \in {threw, threw \cup {s}}
  /\ UNCHANGED <<status, result>>

Return ==
  /\ status = "running"
  /\ threw = {}
  /\ \A s \in Shards : ran[s] = 1
  /\ status' = "open"
  /\ result' = "ok"
  /\ UNCHANGED <<ran, threw>>

\* Shards behind one that threw stay undone, all others are done.
Throw ==
  /\ status = "running"
  /\ threw # {}
  /\ \A s \in Shards : ran[s] = 1 \/ Ahead(s) \cap threw # {}
  /\ status' = "open"
  /\ result' = "threw"
  /\ UNCHANGED <<ran, threw>>

Close ==
  /\ status = "open"
  /\ status' = "closed"
  /\ UNCHANGED <<ran, threw, result>>

Next == Open \/ Begin \/ (\E s \in Shards : Exec(s)) \/ Return \/ Throw \/ Close

Spec == Init /\ [][Next]_vars

=============================================================================
