------------------------------ MODULE JobEditor ------------------------------
(***************************************************************************)
(* JobEditor: the operations on the parameter sets and the vector blocks   *)
(* of an OVF job.  A job has a map from keys to parameter sets, layers of  *)
(* blocks that name a key, and a name.  Layer indices are 0-based as in    *)
(* the code; the sequence of layers is 1-based.  Powers and speeds are     *)
(* integers, in units finer than the tolerance, or NaN, which the console   *)
(* accepts.  An operation that may throw has a guard; one that chooses     *)
(* returns the set of its results.                                         *)
(***************************************************************************)
EXTENDS Integers, Sequences, FiniteSetsExt

CONSTANTS
  IntMax,      \* the largest int
  Tolerance,   \* AreFloatsClose: differences below it are ignored
  NaN          \* a float whose difference with itself is no number: NaN, infinity

ASSUME EditorAssumption ==
  IntMax \in Nat \ {0} /\ Tolerance \in Nat \ {0} /\ NaN \notin Int

IntMin == -IntMax - 1

PartAreas == {"Volume", "Contour"}

Block(key, area) == [key |-> key, area |-> area]

Job(params, layers, name) == [params |-> params, layers |-> layers, name |-> name]

\* The positions of the blocks of a job: number of the layer, number in it.
BlockIds(job) == UNION {{l} \X DOMAIN job.layers[l] : l \in DOMAIN job.layers}

BlockAt(job, id) == job.layers[id[1]][id[2]]

\* vectorBlock.MarkingParamsKey = key for the blocks at ids
SetMarkingParamsKey(job, ids, key) ==
  Job(job.params,
      [l \in DOMAIN job.layers |->
         [b \in DOMAIN job.layers[l] |->
            IF <<l, b>> \in ids THEN Block(key, job.layers[l][b].area)
                                ELSE job.layers[l][b]]],
      job.name)
-----------------------------------------------------------------------------
GetMaxLayerIndex(job) == Len(job.layers) - 1

DoesParamSetExist(job, key) == key \in DOMAIN job.params

IsLayerRangeValid(job, start, end) ==
  start <= end /\ start >= 0 /\ end <= GetMaxLayerIndex(job)

\* Otherwise ApplyParametersToLayerRange and ApplyParametersToVectorTypeInLayer throw.
Accepts(job, start, end, key) ==
  IsLayerRangeValid(job, start, end) /\ DoesParamSetExist(job, key)

ApplyParametersToLayerRange(job, start, end, key) ==
  SetMarkingParamsKey(job, {id \in BlockIds(job) : id[1] - 1 \in start .. end}, key)

\* A block without LPBF metadata has no area and is left alone.
ApplyParametersToVectorTypeInLayer(job, layer, target, key) ==
  SetMarkingParamsKey(job, {id \in BlockIds(job) : /\ id[1] - 1 = layer
                                                   /\ BlockAt(job, id).area = target}, key)
-----------------------------------------------------------------------------
\* Mutant: only equal values match.
EqualFloats(a, b) == a = b

\* Every comparison with NaN is false.
AreFloatsClose(a, b) ==
  NaN \notin {a, b} /\ LET d == a - b IN -Tolerance < d /\ d < Tolerance

DoParamsMatch(set, desired) ==
  /\ AreFloatsClose(set.power, desired.power)
  /\ AreFloatsClose(set.speed, desired.speed)

\* Mutant: the largest int has a successor.
NextKeyUnbounded(keys) == IF keys = {} THEN 1 ELSE Max(keys) + 1

\* int arithmetic is unchecked: the successor of the largest int is the smallest.
GetNextAvailableParamKey(keys) ==
  IF keys = {} THEN 1 ELSE IF Max(keys) = IntMax THEN IntMin ELSE Max(keys) + 1

\* markingParamsMap.Add(key, set)
AddSet(job, key, set) ==
  Job([k \in DOMAIN job.params \cup {key} |-> IF k = key THEN set ELSE job.params[k]],
      job.layers, job.name)

\* Mutant: the new set is not added to the map.
ForgetsToAdd(job, desired) ==
  LET matching == {k \in DOMAIN job.params : DoParamsMatch(job.params[k], desired)}
      newKey == GetNextAvailableParamKey(DOMAIN job.params)
  IN  IF matching # {} THEN {[job |-> job, key |-> k] : k \in matching}
      ELSE {[job |-> job, key |-> newKey]}

\* Mutant: the number of sets is taken for a free key, and the map is indexed.
OverwritesSet(job, desired) ==
  LET matching == {k \in DOMAIN job.params : DoParamsMatch(job.params[k], desired)}
      newKey == Cardinality(DOMAIN job.params)
  IN  IF matching # {} THEN {[job |-> job, key |-> k] : k \in matching}
      ELSE {[job |-> AddSet(job, newKey, desired), key |-> newKey]}

\* Mutant: a close set is brought up to date instead of being used as it is.
UpdatesMatch(job, desired) ==
  LET matching == {k \in DOMAIN job.params : DoParamsMatch(job.params[k], desired)}
      newKey == GetNextAvailableParamKey(DOMAIN job.params)
  IN  {[job |-> AddSet(job, k, desired), key |-> k] :
         k \in IF matching # {} THEN matching ELSE {newKey} \ DOMAIN job.params}

\* The results of FindOrCreateParameterSetKey: the first match, in the order the
\* map enumerates its entries, which is the map's own; else a new set.  There is
\* no result when Add throws because the key, once wrapped, exists.
FindOrCreateParameterSetKey(job, desired) ==
  LET matching == {k \in DOMAIN job.params : DoParamsMatch(job.params[k], desired)}
      newKey == GetNextAvailableParamKey(DOMAIN job.params)
  IN  IF matching # {} THEN {[job |-> job, key |-> k] : k \in matching}
      ELSE {[job |-> AddSet(job, k, desired), key |-> k] :
              k \in {newKey} \ DOMAIN job.params}

SetJobName(job, newName) == Job(job.params, job.layers, newName)
=============================================================================
