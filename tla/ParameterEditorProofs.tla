------------------------ MODULE ParameterEditorProofs ------------------------
(***************************************************************************)
(* Proofs about the editing session, for all files, all wishes, every      *)
(* width of the ints and every tolerance.                                  *)
(***************************************************************************)
EXTENDS ParameterEditorApp, WellFoundedInduction, TLAPS

Ints == IntMin .. IntMax

\* What every result of the operations on a job keeps of it.
Keeps(new, old) ==
  /\ DOMAIN new.params \subseteq Ints
  /\ \A k \in DOMAIN old.params : k \in DOMAIN new.params /\ new.params[k] = old.params[k]
  /\ DOMAIN new.layers = DOMAIN old.layers
  /\ \A l \in DOMAIN new.layers : DOMAIN new.layers[l] = DOMAIN old.layers[l]

\* Keeps, and every key names a set or is the old one.
Edits(new, old) ==
  /\ Keeps(new, old)
  /\ \A l \in DOMAIN new.layers : \A b \in DOMAIN new.layers[l] :
       \/ new.layers[l][b].key \in DOMAIN new.params
       \/ new.layers[l][b].key = old.layers[l][b].key

Usable(job) == DOMAIN job.params \subseteq Ints

\* The session does not have to be marked: nothing was edited yet, or the handler
\* in which a block was edited is still to set the flag.
Clean == ~_isModified /\ ~(phase = "blocks" /\ cursor.any)

EInv ==
  /\ phase = "start" /\ source # Null => Usable(source)
  /\ Editing =>
       /\ source # Null => Usable(source)
       /\ Usable(loaded)
       /\ Edits(_activeJob, loaded)
       /\ Clean /\ ~KeysExhausted => _activeJob.layers = loaded.layers
       /\ ~_isModified => _activeJob.name = loaded.name
-----------------------------------------------------------------------------
(* The operators of JobEditor.                                             *)

\* A set of ints that is not empty has a largest element, which Keys.Max() returns.
LEMMA MaxIsLargest ==
  ASSUME NEW keys, keys \subseteq Ints, keys # {}
  PROVE  Max(keys) \in keys /\ \A k \in keys : k <= Max(keys)
<1> DEFINE T == {n \in Nat : IntMax - n \in keys}
<1>1. IntMax \in Int /\ \A k \in keys : k \in Int /\ k <= IntMax
  BY EditorAssumption DEF Ints, IntMin
<1>2. T # {}
  <2>1. PICK k \in keys : TRUE
    OBVIOUS
  <2>2. IntMax - k \in Nat /\ IntMax - (IntMax - k) = k
    BY <1>1
  <2> QED
    BY <2>1, <2>2
<1>3. PICK n \in T : \A m \in T : ~(<<m, n>> \in OpToRel(<, Nat))
  <2>1. T \subseteq Nat
    OBVIOUS
  <2> HIDE DEF T
  <2> QED
    BY <2>1, <1>2, NatLessThanWellFounded, WFMin
<1>4. \A m \in T : m >= n
  <2>1. SUFFICES ASSUME NEW m \in T, m < n PROVE FALSE
    OBVIOUS
  <2>2. <<m, n>> \in OpToRel(<, Nat)
    BY <2>1 DEF OpToRel
  <2> QED
    BY <1>3, <2>2
<1>5. IntMax - n \in keys /\ \A k \in keys : k <= IntMax - n
  <2>1. ASSUME NEW k \in keys PROVE k <= IntMax - n
    <3>1. IntMax - k \in Nat /\ IntMax - (IntMax - k) = k
      BY <1>1
    <3>2. IntMax - k >= n
      BY <1>4, <3>1
    <3> QED
      BY <3>2, <1>1
  <2> QED
    BY <2>1
<1> QED
  BY <1>5, <1>1 DEF Max

\* The next key is an int, and it is taken only when the ints have run out.
LEMMA NextKey ==
  ASSUME NEW keys, keys \subseteq Ints
  PROVE  /\ GetNextAvailableParamKey(keys) \in Ints
         /\ GetNextAvailableParamKey(keys) \in keys => {IntMin, IntMax} \subseteq keys
<1>1. CASE keys = {}
  BY <1>1, EditorAssumption DEF GetNextAvailableParamKey, Ints, IntMin
<1>2. CASE keys # {}
  <2>1. Max(keys) \in keys /\ \A k \in keys : k <= Max(keys)
    BY <1>2, MaxIsLargest
  <2>2. Max(keys) \in Int /\ Max(keys) <= IntMax /\ Max(keys) >= IntMin
    <3>1. Max(keys) \in Ints
      BY <2>1
    <3> HIDE DEF Max
    <3> QED
      BY <3>1, EditorAssumption DEF Ints, IntMin
  <2>3. CASE Max(keys) = IntMax
    BY <1>2, <2>1, <2>3, EditorAssumption DEF GetNextAvailableParamKey, Ints, IntMin
  <2>4. CASE Max(keys) # IntMax
    <3>1. GetNextAvailableParamKey(keys) = Max(keys) + 1
      BY <1>2, <2>4 DEF GetNextAvailableParamKey
    <3>2. Max(keys) + 1 \in Ints /\ Max(keys) + 1 \notin keys
      BY <2>1, <2>2, <2>4, EditorAssumption DEF Ints, IntMin
    <3> QED
      BY <3>1, <3>2
  <2> QED
    BY <2>3, <2>4
<1> QED
  BY <1>1, <1>2

\* A found or created key names a set of the resulting job, which has the same
\* blocks and name and all the sets of the old one.
LEMMA FindOrCreateResult ==
  ASSUME NEW job, Usable(job), NEW w, NEW c \in FindOrCreateParameterSetKey(job, w)
  PROVE  /\ Keeps(c.job, job) /\ c.key \in DOMAIN c.job.params
         /\ c.job.layers = job.layers /\ c.job.name = job.name
<1> DEFINE matching == {k \in DOMAIN job.params : DoParamsMatch(job.params[k], w)}
           newKey == GetNextAvailableParamKey(DOMAIN job.params)
<1>1. CASE matching # {}
  <2>1. PICK k \in matching : c = [job |-> job, key |-> k]
    BY <1>1 DEF FindOrCreateParameterSetKey
  <2> QED
    BY <2>1 DEF Keeps, Usable
<1>2. CASE matching = {}
  <2>1. newKey \notin DOMAIN job.params /\ c = [job |-> AddSet(job, newKey, w), key |-> newKey]
    BY <1>2 DEF FindOrCreateParameterSetKey
  <2>2. newKey \in Ints
    BY NextKey DEF Usable
  <2> HIDE DEF newKey
  <2> QED
    BY <2>1, <2>2 DEF AddSet, Job, Keeps, Usable
<1> QED
  BY <1>1, <1>2

\* FindOrCreateParameterSetKey throws only when no key is left.
LEMMA ThrowMeansExhausted ==
  ASSUME NEW job, Usable(job), NEW w, FindOrCreateParameterSetKey(job, w) = {}
  PROVE  {IntMin, IntMax} \subseteq DOMAIN job.params
<1> DEFINE newKey == GetNextAvailableParamKey(DOMAIN job.params)
<1>1. newKey \in DOMAIN job.params
  BY DEF FindOrCreateParameterSetKey
<1> QED
  BY <1>1, NextKey DEF Usable

\* Assigning an existing key to some blocks is an edit.
LEMMA SetKeyEdits ==
  ASSUME NEW job, NEW old, Edits(job, old), NEW ids, NEW key \in DOMAIN job.params
  PROVE  /\ Edits(SetMarkingParamsKey(job, ids, key), old)
         /\ SetMarkingParamsKey(job, ids, key).name = job.name
         /\ SetMarkingParamsKey(job, ids, key).params = job.params
<1> DEFINE new == SetMarkingParamsKey(job, ids, key)
<1>1. /\ new.params = job.params /\ new.name = job.name
      /\ DOMAIN new.layers = DOMAIN job.layers
      /\ \A l \in DOMAIN job.layers :
           /\ DOMAIN new.layers[l] = DOMAIN job.layers[l]
           /\ \A b \in DOMAIN job.layers[l] :
                new.layers[l][b].key \in {key, job.layers[l][b].key}
  BY DEF SetMarkingParamsKey, Job, Block
<1> HIDE DEF new
<1>2. Keeps(new, old)
  BY <1>1 DEF Edits, Keeps
<1>3. Edits(new, old)
  BY <1>1, <1>2 DEF Edits
<1> QED
  BY <1>1, <1>3 DEF new
-----------------------------------------------------------------------------
(* The session.                                                            *)

\* An edit of an edited job, or of one that keeps its blocks, is an edit.
LEMMA KeepsIsEdit ==
  ASSUME NEW new, NEW job, NEW old, Edits(job, old), Keeps(new, job),
         new.layers = job.layers
  PROVE  Edits(new, old)
<1>1. Keeps(new, old)
  BY DEF Edits, Keeps
<1> QED
  BY <1>1 DEF Edits, Keeps

\* Every result of GetParameterKeyFromUser has the key it returns.
LEMMA KeyFromUser ==
  ASSUME Usable(_activeJob), NEW c \in GetParameterKeyFromUser
  PROVE  /\ Keeps(c.job, _activeJob) /\ c.key \in DOMAIN c.job.params
         /\ c.job.layers = _activeJob.layers /\ c.job.name = _activeJob.name
<1>1. CASE c \in {[job |-> _activeJob, key |-> k] : k \in DOMAIN _activeJob.params}
  BY <1>1 DEF Keeps, Usable
<1>2. CASE \E w \in Wishes : c \in FindOrCreateParameterSetKey(_activeJob, w)
  BY <1>2, FindOrCreateResult
<1> QED
  BY <1>1, <1>2 DEF GetParameterKeyFromUser

\* The invariant holds at the start: the source file holds a job or none.
LEMMA InitEInv == Init => EInv
  BY FilesAssumption DEF Init, EInv, Editing, Usable, IsJob, Ints

\* Loading, and reloading for DoDiscardChanges, makes the job the loaded one.
LEMMA ReloadEdits ==
  ASSUME Usable(source), ReloadActiveJob
  PROVE  /\ Usable(loaded') /\ Edits(_activeJob', loaded')
         /\ _activeJob'.layers = loaded'.layers /\ _activeJob'.name = loaded'.name
  BY DEF ReloadActiveJob, Edits, Keeps, Usable

\* Every step of the session keeps the invariant.
LEMMA StepEInv == EInv /\ [Next]_vars => EInv'
<1> SUFFICES ASSUME EInv, [Next]_vars PROVE EInv'
  OBVIOUS
<1>0. ASSUME phase = "menu" \/ phase = "blocks"
      PROVE  Editing /\ Usable(_activeJob) /\ Edits(_activeJob, loaded) /\ Usable(loaded)
  BY <1>0 DEF EInv, Editing, Edits, Keeps, Usable
<1>1. CASE LoadJob
  <2>1. CASE ReloadActiveJob
    <3>1. Usable(source)
      BY <1>1, <2>1 DEF LoadJob, EInv, ReloadActiveJob
    <3>2. phase' # "start" /\ source' = source
      BY <1>1 DEF LoadJob
    <3> QED
      BY <3>1, <3>2, <2>1, ReloadEdits DEF EInv
  <2>2. CASE phase' = "fatal"
    BY <2>2 DEF EInv, Editing
  <2> QED
    BY <1>1, <2>1, <2>2 DEF LoadJob
<1>2. CASE DoApplyParametersToRange
  <2>1. PICK c \in GetParameterKeyFromUser, start, end \in LayerNumbers :
          \/ /\ _activeJob' = ApplyParametersToLayerRange(c.job, start - 1, end - 1, c.key)
             /\ _isModified'
          \/ _activeJob' = c.job /\ (_isModified => _isModified')
    <3>1. \E c \in GetParameterKeyFromUser, start, end \in LayerNumbers :
            LET apply == /\ ValidLayers(start, end)
                         /\ Accepts(c.job, start - 1, end - 1, c.key)
            IN  /\ _activeJob' = IF apply
                                 THEN ApplyParametersToLayerRange(c.job, start - 1, end - 1,
                                                                  c.key)
                                 ELSE c.job
                /\ _isModified' = (_isModified \/ apply)
      BY <1>2 DEF DoApplyParametersToRange
    <3> QED
      BY <3>1
  <2>2. /\ Keeps(c.job, _activeJob) /\ c.key \in DOMAIN c.job.params
        /\ c.job.layers = _activeJob.layers /\ c.job.name = _activeJob.name
    BY <1>0, <1>2, KeyFromUser DEF DoApplyParametersToRange
  <2>3. Edits(c.job, loaded)
    BY <1>0, <1>2, <2>2, KeepsIsEdit DEF DoApplyParametersToRange
  <2>4. phase = "menu" /\ UNCHANGED << phase, source, loaded, cursor >>
    BY <1>2 DEF DoApplyParametersToRange
  <2>5. CASE /\ _activeJob' = ApplyParametersToLayerRange(c.job, start - 1, end - 1, c.key)
             /\ _isModified'
    <3>1. Edits(_activeJob', loaded)
      BY <2>2, <2>3, <2>5, SetKeyEdits DEF ApplyParametersToLayerRange
    <3> QED
      BY <3>1, <2>4, <2>5 DEF EInv, Editing, Clean
  <2>6. CASE _activeJob' = c.job /\ (_isModified => _isModified')
    <3>1. KeysExhausted => KeysExhausted'
      BY <2>2, <2>6 DEF KeysExhausted, Keeps, IntMin
    <3> QED
      BY <3>1, <2>2, <2>3, <2>4, <2>6 DEF EInv, Editing, Clean
  <2> QED
    BY <2>1, <2>5, <2>6
<1>3. CASE DoApplyByVectorType
  <2>1. PICK layer \in LayerNumbers, area \in PartAreas, c \in GetParameterKeyFromUser :
          _activeJob' = ApplyParametersToVectorTypeInLayer(c.job, layer - 1, area, c.key)
    BY <1>3 DEF DoApplyByVectorType
  <2>2. /\ Keeps(c.job, _activeJob) /\ c.key \in DOMAIN c.job.params
        /\ c.job.layers = _activeJob.layers /\ c.job.name = _activeJob.name
    BY <1>0, <1>3, KeyFromUser DEF DoApplyByVectorType
  <2>3. Edits(c.job, loaded)
    BY <1>0, <1>3, <2>2, KeepsIsEdit DEF DoApplyByVectorType
  <2>4. Edits(_activeJob', loaded)
    BY <2>1, <2>2, <2>3, SetKeyEdits DEF ApplyParametersToVectorTypeInLayer
  <2> QED
    BY <1>3, <2>4 DEF DoApplyByVectorType, EInv, Editing, Clean
<1>4. CASE DoVectorBlockEditing
  <2>1. phase = "menu" /\ phase' = "blocks" /\ cursor'.any = FALSE
        /\ UNCHANGED << _activeJob, _isModified, source, loaded >>
    BY <1>4 DEF DoVectorBlockEditing
  <2> QED
    BY <2>1 DEF EInv, Editing, Clean, KeysExhausted
<1>5. CASE SkipBlock
  BY <1>5 DEF SkipBlock, MoreBlocks, EInv, Editing, Clean, KeysExhausted
<1>6. CASE EditBlock
  <2>0. PICK w \in Wishes : \E c \in FindOrCreateParameterSetKey(_activeJob, w) :
          _activeJob' = SetMarkingParamsKey(c.job, {<<cursor.layer, cursor.next>>}, c.key)
    BY <1>6 DEF EditBlock
  <2>1. PICK c \in FindOrCreateParameterSetKey(_activeJob, w) :
          _activeJob' = SetMarkingParamsKey(c.job, {<<cursor.layer, cursor.next>>}, c.key)
    BY <2>0
  <2>2. phase = "blocks"
    BY <1>6 DEF EditBlock, MoreBlocks
  <2>3. Edits(c.job, loaded) /\ c.key \in DOMAIN c.job.params /\ c.job.name = _activeJob.name
    BY <1>0, <2>2, FindOrCreateResult, KeepsIsEdit
  <2>4. Edits(_activeJob', loaded) /\ _activeJob'.name = _activeJob.name
    BY <2>1, <2>3, SetKeyEdits
  <2>5. cursor'.any = TRUE
    BY <1>6 DEF EditBlock
  <2> QED
    BY <1>6, <2>2, <2>4, <2>5 DEF EditBlock, EInv, Editing, Clean
<1>7. CASE EditBlockThrows
  <2>1. phase = "blocks" /\ KeysExhausted
    BY <1>0, <1>7, ThrowMeansExhausted DEF EditBlockThrows, MoreBlocks, KeysExhausted
  <2> QED
    BY <1>7, <2>1 DEF EditBlockThrows, EInv, Editing, KeysExhausted
<1>8. CASE FinishBlocks
  BY <1>8 DEF FinishBlocks, EInv, Editing, Clean, KeysExhausted
<1>9. CASE DoChangeJobName
  <2>1. PICK n \in Names : _activeJob' = SetJobName(_activeJob, n)
    BY <1>9 DEF DoChangeJobName
  <2>2. /\ _activeJob'.params = _activeJob.params
        /\ _activeJob'.layers = _activeJob.layers
    BY <2>1 DEF SetJobName, Job
  <2>3. Edits(_activeJob', loaded)
    BY <1>0, <1>9, <2>2 DEF DoChangeJobName, Edits, Keeps
  <2> QED
    BY <1>9, <2>3 DEF DoChangeJobName, EInv, Editing, Clean
<1>10. CASE DoDiscardChanges
  <2>1. Usable(source) /\ phase = "menu" /\ ReloadActiveJob
    BY <1>10 DEF DoDiscardChanges, EInv, Editing, ReloadActiveJob
  <2> QED
    BY <1>10, <2>1, ReloadEdits DEF DoDiscardChanges, EInv, Editing
<1>11. CASE DoSaveAndExit
  <2>1. /\ phase = "menu" /\ phase' \in {"menu", "saved"}
        /\ source' \in {source, Null, _activeJob}
        /\ UNCHANGED << _activeJob, _isModified, loaded, cursor >>
    BY <1>11 DEF DoSaveAndExit
  <2> QED
    BY <1>0, <2>1 DEF EInv, Editing, Clean, KeysExhausted
<1>12. CASE DoQuitWithoutSaving
  BY <1>12 DEF DoQuitWithoutSaving, EInv, Editing, Clean, KeysExhausted
<1>13. CASE UNCHANGED vars
  BY <1>13 DEF vars, EInv, Editing, Clean, KeysExhausted
<1> QED
  BY <1>1, <1>2, <1>3, <1>4, <1>5, <1>6, <1>7, <1>8, <1>9, <1>10, <1>11, <1>12, <1>13
     DEF Next, Ended

\* The inductive invariant of the editing session.
THEOREM EditorInvariance == Spec => []EInv
  BY InitEInv, StepEInv, PTL DEF Spec

\* No sequence of edits leaves a block with a key that names no set, unless the
\* block came with it.
THEOREM KeysAlwaysResolve == Spec => []KeysResolve
<1>1. EInv => KeysResolve
  BY DEF EInv, KeysResolve, Edits, Keeps, BlockIds, BlockAt, DoesParamSetExist
<1> QED
  BY <1>1, EditorInvariance, PTL

\* No sequence of edits changes or removes a parameter set of the file.
THEOREM SetsOfTheFileKept == Spec => []FileSetsKept
<1>1. EInv => FileSetsKept
  BY DEF EInv, FileSetsKept, Edits, Keeps, DoesParamSetExist
<1> QED
  BY <1>1, EditorInvariance, PTL

\* A session that is not marked as modified has edited nothing, as long as a key
\* is left.
THEOREM UnmarkedMeansUnedited == Spec => []UnmodifiedMeansNoEdit
<1>1. EInv => UnmodifiedMeansNoEdit
  BY DEF EInv, UnmodifiedMeansNoEdit, Editing, Clean
<1> QED
  BY <1>1, EditorInvariance, PTL

-----------------------------------------------------------------------------
(* What one edit makes of a job.                                           *)

\* A key of the job, or a new set under a new key that no set of the job matches.
ChoiceOf(c, job) ==
  \/ c.job = job /\ c.key \in DOMAIN job.params
  \/ \E w \in Sets : /\ c.job = AddSet(job, c.key, w)
                     /\ c.key \in Ints \ DOMAIN job.params
                     /\ \A k \in DOMAIN job.params : ~DoParamsMatch(job.params[k], w)

\* The blocks one edit can select.
Selection(job, ids) ==
  \/ \E id \in BlockIds(job) : ids = {id}
  \/ \E first, last \in Nat : ids = {id \in BlockIds(job) : id[1] \in first .. last}
  \/ \E layer \in Nat, area \in PartAreas :
       ids = {id \in BlockIds(job) : id[1] = layer /\ BlockAt(job, id).area = area}

\* A choice of parameters, given to the selected blocks or refused after all.
EditOf(new, job) ==
  \E c : /\ ChoiceOf(c, job)
         /\ \/ new = c.job
            \/ \E ids : Selection(job, ids) /\ new = SetMarkingParamsKey(c.job, ids, c.key)

\* FindOrCreateParameterSetKey finds a match or creates a set that has none.
LEMMA FindOrCreateChoice ==
  ASSUME NEW job, IsJob(job), NEW w \in Sets, NEW c \in FindOrCreateParameterSetKey(job, w)
  PROVE  ChoiceOf(c, job)
<1> DEFINE matching == {k \in DOMAIN job.params : DoParamsMatch(job.params[k], w)}
           newKey == GetNextAvailableParamKey(DOMAIN job.params)
<1>1. CASE matching # {}
  <2>1. PICK k \in matching : c = [job |-> job, key |-> k]
    BY <1>1 DEF FindOrCreateParameterSetKey
  <2> QED
    BY <2>1 DEF ChoiceOf
<1>2. CASE matching = {}
  <2>1. newKey \notin DOMAIN job.params /\ c = [job |-> AddSet(job, newKey, w), key |-> newKey]
    BY <1>2 DEF FindOrCreateParameterSetKey
  <2>2. newKey \in Ints
    BY NextKey DEF IsJob, Ints
  <2>3. \A k \in DOMAIN job.params : ~DoParamsMatch(job.params[k], w)
    BY <1>2
  <2> HIDE DEF newKey, matching
  <2>4. c.job = AddSet(job, c.key, w) /\ c.key \in Ints \ DOMAIN job.params
    BY <2>1, <2>2
  <2> QED
    BY <2>3, <2>4 DEF ChoiceOf
<1> QED
  BY <1>1, <1>2

\* GetParameterKeyFromUser returns such a choice.
LEMMA UserChoice ==
  ASSUME IsJob(_activeJob), NEW c \in GetParameterKeyFromUser PROVE ChoiceOf(c, _activeJob)
<1>1. CASE c \in {[job |-> _activeJob, key |-> k] : k \in DOMAIN _activeJob.params}
  BY <1>1 DEF ChoiceOf
<1>2. CASE \E w \in Wishes : c \in FindOrCreateParameterSetKey(_activeJob, w)
  BY <1>2, WishesAssumption, FindOrCreateChoice
<1> QED
  BY <1>1, <1>2 DEF GetParameterKeyFromUser

\* A choice leaves a well-formed job with the same blocks, name and sets, and at
\* most one set more, which is the chosen one.
LEMMA ChoiceJob ==
  ASSUME NEW job, IsJob(job), NEW c, ChoiceOf(c, job)
  PROVE  /\ IsJob(c.job) /\ c.job.layers = job.layers /\ c.job.name = job.name
         /\ c.key \in DOMAIN c.job.params /\ c.key \in Ints
         /\ \A k \in DOMAIN job.params :
              k \in DOMAIN c.job.params /\ c.job.params[k] = job.params[k]
         /\ \A k \in DOMAIN c.job.params : k \in DOMAIN job.params \/ k = c.key
<1>1. CASE c.job = job /\ c.key \in DOMAIN job.params
  BY <1>1 DEF IsJob, Ints
<1>2. CASE ~(c.job = job /\ c.key \in DOMAIN job.params)
  <2>1. PICK w \in Sets : /\ c.job = AddSet(job, c.key, w)
                          /\ c.key \in Ints \ DOMAIN job.params
    BY <1>2 DEF ChoiceOf
  <2> DEFINE params == [k \in DOMAIN job.params \cup {c.key} |->
                          IF k = c.key THEN w ELSE job.params[k]]
  <2>2. c.job = Job(params, job.layers, job.name)
    BY <2>1 DEF AddSet
  <2>3. DOMAIN params = DOMAIN job.params \cup {c.key}
        /\ params \in [DOMAIN params -> Sets]
    BY <2>1 DEF IsJob
  <2>4. \A k \in DOMAIN job.params : params[k] = job.params[k]
    BY <2>1
  <2> HIDE DEF params
  <2>5. c.job.params = params /\ c.job.layers = job.layers /\ c.job.name = job.name
    BY <2>2 DEF Job
  <2>6. IsJob(c.job)
    <3>1. DOMAIN params \subseteq IntMin .. IntMax
      BY <2>1, <2>3 DEF IsJob, Ints
    <3> QED
      BY <2>2, <2>3, <2>5, <3>1 DEF IsJob
  <2> QED
    BY <2>1, <2>3, <2>4, <2>5, <2>6
<1> QED
  BY <1>1, <1>2

\* The blocks of a well-formed job.
LEMMA JobBlocks ==
  ASSUME NEW job, IsJob(job)
  PROVE  /\ job.layers \in Seq(Seq(Blocks)) /\ DOMAIN job.layers = 1 .. Len(job.layers)
         /\ Len(job.layers) \in Nat
         /\ \A l \in DOMAIN job.layers : /\ job.layers[l] \in Seq(Blocks)
                                         /\ DOMAIN job.layers[l] = 1 .. Len(job.layers[l])
                                         /\ Len(job.layers[l]) \in Nat
         /\ \A l \in DOMAIN job.layers : \A b \in DOMAIN job.layers[l] :
              job.layers[l][b] \in Blocks
<1>1. job.layers \in Seq(Seq(Blocks))
  BY DEF IsJob
<1> QED
  BY <1>1

\* Assigning a key changes the keys of the blocks at ids and nothing else.
LEMMA SetKeyJob ==
  ASSUME NEW job, IsJob(job), NEW ids, NEW key \in Ints
  PROVE  LET new == SetMarkingParamsKey(job, ids, key)
         IN  /\ IsJob(new) /\ new.params = job.params /\ new.name = job.name
             /\ Len(new.layers) = Len(job.layers)
             /\ DOMAIN new.layers = DOMAIN job.layers
             /\ \A l \in DOMAIN job.layers :
                  /\ DOMAIN new.layers[l] = DOMAIN job.layers[l]
                  /\ Len(new.layers[l]) = Len(job.layers[l])
                  /\ \A b \in DOMAIN job.layers[l] :
                       /\ new.layers[l][b].area = job.layers[l][b].area
                       /\ new.layers[l][b].key = IF << l, b >> \in ids THEN key
                                                 ELSE job.layers[l][b].key
<1> DEFINE new == SetMarkingParamsKey(job, ids, key)
           block(l, b) == IF << l, b >> \in ids THEN Block(key, job.layers[l][b].area)
                          ELSE job.layers[l][b]
           layer(l) == [b \in DOMAIN job.layers[l] |-> block(l, b)]
           layers == [l \in DOMAIN job.layers |-> layer(l)]
<1>1. new = Job(job.params, layers, job.name)
  BY DEF SetMarkingParamsKey
<1>2. ASSUME NEW l \in DOMAIN job.layers, NEW b \in DOMAIN job.layers[l]
      PROVE  /\ block(l, b) \in Blocks
             /\ block(l, b).area = job.layers[l][b].area
             /\ block(l, b).key = IF << l, b >> \in ids THEN key ELSE job.layers[l][b].key
  <2>1. job.layers[l][b] \in Blocks
    BY JobBlocks
  <2> QED
    BY <2>1 DEF Block, Blocks, Ints
<1> HIDE DEF block
<1>3. ASSUME NEW l \in DOMAIN job.layers
      PROVE  /\ layer(l) \in Seq(Blocks) /\ DOMAIN layer(l) = DOMAIN job.layers[l]
             /\ Len(layer(l)) = Len(job.layers[l])
             /\ \A b \in DOMAIN job.layers[l] : layer(l)[b] = block(l, b)
  <2> DEFINE n == Len(job.layers[l])
  <2>1. DOMAIN job.layers[l] = 1 .. n /\ n \in Nat
    BY JobBlocks
  <2> HIDE DEF n
  <2>2. layer(l) = [b \in 1 .. n |-> block(l, b)]
    BY <2>1
  <2>3. \A b \in 1 .. n : block(l, b) \in Blocks
    BY <1>2, <2>1
  <2> HIDE DEF layer
  <2>4. layer(l) \in Seq(Blocks) /\ Len(layer(l)) = n
    BY <2>1, <2>2, <2>3
  <2> QED
    BY <2>1, <2>2, <2>4 DEF n
<1> HIDE DEF layer
<1>4. /\ layers \in Seq(Seq(Blocks)) /\ DOMAIN layers = DOMAIN job.layers
      /\ Len(layers) = Len(job.layers)
      /\ \A l \in DOMAIN job.layers : layers[l] = layer(l)
  <2>1. DOMAIN job.layers = 1 .. Len(job.layers) /\ Len(job.layers) \in Nat
    BY JobBlocks
  <2> QED
    BY <1>3, <2>1
<1> HIDE DEF layers
<1>5. new.params = job.params /\ new.layers = layers /\ new.name = job.name
  BY <1>1 DEF Job
<1>6. IsJob(new)
  BY <1>1, <1>4, <1>5 DEF IsJob
<1> HIDE DEF new
<1>7. \A l \in DOMAIN job.layers :
        /\ DOMAIN new.layers[l] = DOMAIN job.layers[l]
        /\ Len(new.layers[l]) = Len(job.layers[l])
        /\ \A b \in DOMAIN job.layers[l] :
             /\ new.layers[l][b].area = job.layers[l][b].area
             /\ new.layers[l][b].key = IF << l, b >> \in ids THEN key
                                       ELSE job.layers[l][b].key
  BY <1>2, <1>3, <1>4, <1>5
<1> QED
  BY <1>4, <1>5, <1>6, <1>7 DEF new

\* An edit leaves a well-formed job with the same name and the same layers, and
\* keeps every set; a new set is close to no set there was.
LEMMA EditJob ==
  ASSUME NEW job, IsJob(job), NEW new, EditOf(new, job)
  PROVE  /\ IsJob(new) /\ new.name = job.name
         /\ Len(new.layers) = Len(job.layers) /\ DOMAIN new.layers = DOMAIN job.layers
         /\ \A l \in DOMAIN job.layers : Len(new.layers[l]) = Len(job.layers[l])
         /\ \E c : ChoiceOf(c, job) /\ new.params = c.job.params
<1>1. PICK c : /\ ChoiceOf(c, job)
               /\ \/ new = c.job
                  \/ \E ids : Selection(job, ids) /\ new = SetMarkingParamsKey(c.job, ids, c.key)
  BY DEF EditOf
<1>2. /\ IsJob(c.job) /\ c.job.layers = job.layers /\ c.job.name = job.name
      /\ c.key \in Ints
  BY <1>1, ChoiceJob
<1>3. CASE new = c.job
  BY <1>1, <1>2, <1>3
<1>4. CASE \E ids : Selection(job, ids) /\ new = SetMarkingParamsKey(c.job, ids, c.key)
  <2>1. PICK ids : new = SetMarkingParamsKey(c.job, ids, c.key)
    BY <1>4
  <2>2. /\ IsJob(new) /\ new.params = c.job.params /\ new.name = c.job.name
        /\ Len(new.layers) = Len(c.job.layers) /\ DOMAIN new.layers = DOMAIN c.job.layers
        /\ \A l \in DOMAIN c.job.layers : Len(new.layers[l]) = Len(c.job.layers[l])
    BY <1>2, <2>1, SetKeyJob
  <2> QED
    BY <1>1, <1>2, <2>2
<1> QED
  BY <1>1, <1>3, <1>4

\* The three operations on blocks are edits of the job.
LEMMA EditActions ==
  ASSUME TypeOK, DoApplyParametersToRange \/ DoApplyByVectorType \/ EditBlock
  PROVE  EditOf(_activeJob', _activeJob)
<1>1. IsJob(_activeJob)
  BY DEF TypeOK, DoApplyParametersToRange, DoApplyByVectorType, EditBlock, MoreBlocks
<1>2. DOMAIN _activeJob.layers = 1 .. Len(_activeJob.layers) /\ Len(_activeJob.layers) \in Nat
      /\ \A l \in DOMAIN _activeJob.layers :
           DOMAIN _activeJob.layers[l] = 1 .. Len(_activeJob.layers[l])
  BY <1>1, JobBlocks
<1>3. \A id \in BlockIds(_activeJob) : id[1] \in Nat
  BY <1>2 DEF BlockIds
<1>4. ASSUME NEW c, ChoiceOf(c, _activeJob)
      PROVE  BlockIds(c.job) = BlockIds(_activeJob)
             /\ \A id : BlockAt(c.job, id) = BlockAt(_activeJob, id)
  <2>1. c.job.layers = _activeJob.layers
    BY <1>1, <1>4, ChoiceJob
  <2> QED
    BY <2>1 DEF BlockIds, BlockAt
<1>5. CASE DoApplyParametersToRange
  <2>1. PICK c \in GetParameterKeyFromUser, start, end \in LayerNumbers :
          \/ _activeJob' = ApplyParametersToLayerRange(c.job, start - 1, end - 1, c.key)
          \/ _activeJob' = c.job
    BY <1>5 DEF DoApplyParametersToRange
  <2>2. ChoiceOf(c, _activeJob)
    BY <1>1, UserChoice
  <2>3. start \in Nat /\ end \in Nat
    BY <1>2 DEF LayerNumbers
  <2> DEFINE ids == {id \in BlockIds(c.job) : id[1] - 1 \in start - 1 .. end - 1}
  <2>4. ids = {id \in BlockIds(_activeJob) : id[1] \in start .. end}
    BY <1>3, <1>4, <2>2, <2>3
  <2>5. Selection(_activeJob, ids)
    BY <2>3, <2>4 DEF Selection
  <2>6. ApplyParametersToLayerRange(c.job, start - 1, end - 1, c.key)
          = SetMarkingParamsKey(c.job, ids, c.key)
    BY DEF ApplyParametersToLayerRange
  <2> HIDE DEF ids
  <2> QED
    BY <2>1, <2>2, <2>5, <2>6 DEF EditOf
<1>6. CASE DoApplyByVectorType
  <2>1. PICK layer \in LayerNumbers, area \in PartAreas, c \in GetParameterKeyFromUser :
          _activeJob' = ApplyParametersToVectorTypeInLayer(c.job, layer - 1, area, c.key)
    BY <1>6 DEF DoApplyByVectorType
  <2>2. ChoiceOf(c, _activeJob)
    BY <1>1, UserChoice
  <2>3. layer \in Nat
    BY <1>2 DEF LayerNumbers
  <2> DEFINE ids == {id \in BlockIds(c.job) : /\ id[1] - 1 = layer - 1
                                              /\ BlockAt(c.job, id).area = area}
  <2>4. ids = {id \in BlockIds(_activeJob) : id[1] = layer /\ BlockAt(_activeJob, id).area = area}
    BY <1>3, <1>4, <2>2, <2>3
  <2>5. Selection(_activeJob, ids)
    BY <2>3, <2>4 DEF Selection
  <2>6. _activeJob' = SetMarkingParamsKey(c.job, ids, c.key)
    BY <2>1 DEF ApplyParametersToVectorTypeInLayer
  <2> HIDE DEF ids
  <2> QED
    BY <2>2, <2>5, <2>6 DEF EditOf
<1>7. CASE EditBlock
  <2> DEFINE id == << cursor.layer, cursor.next >>
  <2>1. PICK w \in Wishes : \E c \in FindOrCreateParameterSetKey(_activeJob, w) :
          _activeJob' = SetMarkingParamsKey(c.job, {id}, c.key)
    BY <1>7 DEF EditBlock
  <2>2. PICK c \in FindOrCreateParameterSetKey(_activeJob, w) :
          _activeJob' = SetMarkingParamsKey(c.job, {id}, c.key)
    BY <2>1
  <2>3. ChoiceOf(c, _activeJob)
    BY <1>1, WishesAssumption, FindOrCreateChoice
  <2>4. cursor.layer \in DOMAIN _activeJob.layers
        /\ cursor.next \in DOMAIN _activeJob.layers[cursor.layer]
    BY <1>2, <1>7 DEF EditBlock, MoreBlocks, TypeOK
  <2>5. id \in BlockIds(_activeJob)
    BY <2>4 DEF BlockIds
  <2>6. Selection(_activeJob, {id})
    BY <2>5 DEF Selection
  <2> HIDE DEF id
  <2> QED
    BY <2>2, <2>3, <2>6 DEF EditOf
<1> QED
  BY <1>5, <1>6, <1>7

\* A well-formed job is not Null.
LEMMA JobNotNull == ASSUME NEW job, IsJob(job) PROVE job # Null
<1>1. job.params \in ParamMaps
  BY DEF IsJob, ParamMaps
<1>2. job = [params |-> job.params, layers |-> job.layers, name |-> job.name]
  BY DEF IsJob, Job
<1>3. job.layers \in Seq(Seq(Blocks)) /\ job.name \in JobNames
  BY DEF IsJob
<1>4. [params |-> job.params, layers |-> job.layers, name |-> job.name]
        \in [params : ParamMaps, layers : Seq(Seq(Blocks)), name : JobNames]
  BY <1>1, <1>3
<1> QED
  BY <1>2, <1>4, NullAssumption

\* TypeOK, and a reload of the file gives a job with metadata again.
TInv ==
  /\ TypeOK
  /\ DOMAIN cursor = {"layer", "next", "any"}
  /\ phase \in {"menu", "blocks"} /\ source # Null => source.name # NoMetaData

\* A session that has not started satisfies it.
LEMMA InitTInv == Init => TInv
<1> SUFFICES ASSUME Init PROVE TInv
  OBVIOUS
<1>1. _isModified \in BOOLEAN
  BY Zenon DEF Init
<1>2. source # Null => IsJob(source)
  BY FilesAssumption DEF Init
<1> QED
  BY <1>1, <1>2 DEF Init, TInv, TypeOK, Phases

\* Every step of the session keeps it.
LEMMA StepTInv == TInv /\ [Next]_vars => TInv'
<1> SUFFICES ASSUME TInv, [Next]_vars PROVE TInv'
  OBVIOUS
<1>0. TypeOK
  BY DEF TInv
<1>1. CASE LoadJob
  <2>1. CASE ReloadActiveJob /\ phase' = IF source.name = NoMetaData THEN "fatal" ELSE "menu"
    <3>1. source # Null /\ _activeJob' = source /\ UNCHANGED << source, _isModified, cursor >>
      BY <1>1, <2>1 DEF LoadJob, ReloadActiveJob
    <3> QED
      BY <2>1, <3>1 DEF TInv, TypeOK, Phases
  <2>2. CASE phase' = "fatal" /\ UNCHANGED << _activeJob, loaded >>
    BY <1>1, <2>2 DEF LoadJob, TInv, TypeOK, Phases
  <2> QED
    BY <1>1, <2>1, <2>2 DEF LoadJob
<1>2. CASE DoApplyParametersToRange \/ DoApplyByVectorType
  <2>1. IsJob(_activeJob) /\ phase = "menu" /\ UNCHANGED << phase, source, loaded, cursor >>
    BY <1>2 DEF TInv, TypeOK, DoApplyParametersToRange, DoApplyByVectorType
  <2>2. EditOf(_activeJob', _activeJob)
    BY <1>0, <1>2, EditActions
  <2>3. IsJob(_activeJob') /\ _activeJob'.name = _activeJob.name
    BY <2>1, <2>2, EditJob
  <2>4. _activeJob' # Null
    BY <2>3, JobNotNull
  <2>5. _isModified' \in BOOLEAN
    BY <1>2 DEF TInv, TypeOK, DoApplyParametersToRange, DoApplyByVectorType
  <2> QED
    BY <2>1, <2>3, <2>4, <2>5 DEF TInv, TypeOK
<1>3. CASE DoVectorBlockEditing
  <2>1. PICK layer \in LayerNumbers : /\ ValidLayers(layer, layer)
                                      /\ cursor' = [layer |-> layer, next |-> 1, any |-> FALSE]
    BY <1>3 DEF DoVectorBlockEditing
  <2>2. IsJob(_activeJob)
    BY <1>3 DEF TInv, TypeOK, DoVectorBlockEditing
  <2>3. /\ DOMAIN _activeJob.layers = 1 .. Len(_activeJob.layers) /\ Len(_activeJob.layers) \in Nat
        /\ \A l \in DOMAIN _activeJob.layers : Len(_activeJob.layers[l]) \in Nat
    BY <2>2, JobBlocks
  <2>4. layer \in DOMAIN _activeJob.layers
    BY <2>1, <2>3 DEF ValidLayers, GetMaxLayerIndex, LayerNumbers
  <2>5. cursor'.layer \in DOMAIN _activeJob.layers
        /\ cursor'.next \in 1 .. Len(_activeJob.layers[cursor'.layer]) + 1
    BY <2>1, <2>3, <2>4
  <2>6. phase = "menu" /\ phase' = "blocks"
        /\ UNCHANGED << _activeJob, _isModified, source, loaded >>
    BY <1>3 DEF DoVectorBlockEditing
  <2>7. DOMAIN cursor' = {"layer", "next", "any"}
    BY <2>1
  <2> QED
    BY <2>5, <2>6, <2>7 DEF TInv, TypeOK, Phases
<1>4. CASE SkipBlock \/ EditBlock
  <2>1. /\ phase = "blocks" /\ UNCHANGED << phase, _isModified, source, loaded >>
        /\ cursor.next <= Len(_activeJob.layers[cursor.layer])
    BY <1>4 DEF SkipBlock, EditBlock, MoreBlocks
  <2>2. IsJob(_activeJob) /\ cursor.layer \in DOMAIN _activeJob.layers
        /\ cursor.next \in 1 .. Len(_activeJob.layers[cursor.layer]) + 1
    BY <2>1 DEF TInv, TypeOK
  <2>3. /\ IsJob(_activeJob') /\ _activeJob'.name = _activeJob.name
        /\ DOMAIN _activeJob'.layers = DOMAIN _activeJob.layers
        /\ \A l \in DOMAIN _activeJob.layers :
             Len(_activeJob'.layers[l]) = Len(_activeJob.layers[l])
    <3>1. CASE SkipBlock
      BY <2>2, <3>1 DEF SkipBlock
    <3>2. CASE EditBlock
      BY <1>0, <2>2, <3>2, EditActions, EditJob
    <3> QED
      BY <1>4, <3>1, <3>2
  <2>4. _activeJob' # Null
    BY <2>3, JobNotNull
  <2>5. /\ cursor'.layer = cursor.layer /\ cursor'.next = cursor.next + 1
        /\ DOMAIN cursor' = DOMAIN cursor
    <3>1. \/ cursor' = [cursor EXCEPT !.next = @ + 1]
          \/ cursor' = [cursor EXCEPT !.next = @ + 1, !.any = TRUE]
      BY <1>4 DEF SkipBlock, EditBlock
    <3>2. DOMAIN cursor = {"layer", "next", "any"}
      BY DEF TInv
    <3> QED
      BY <3>1, <3>2
  <2>6. Len(_activeJob.layers[cursor.layer]) \in Nat
    BY <2>2, JobBlocks
  <2>7. cursor'.next \in 1 .. Len(_activeJob'.layers[cursor'.layer]) + 1
    BY <2>1, <2>2, <2>3, <2>5, <2>6
  <2> QED
    BY <2>1, <2>2, <2>3, <2>4, <2>5, <2>7 DEF TInv, TypeOK
<1>5. CASE EditBlockThrows
  BY <1>5 DEF EditBlockThrows, MoreBlocks, TInv, TypeOK, Phases
<1>6. CASE FinishBlocks
  BY <1>6 DEF FinishBlocks, TInv, TypeOK, Phases
<1>7. CASE DoChangeJobName
  <2>1. PICK n \in Names : _activeJob' = SetJobName(_activeJob, n)
    BY <1>7 DEF DoChangeJobName
  <2>2. /\ _activeJob'.params = _activeJob.params
        /\ _activeJob'.layers = _activeJob.layers /\ _activeJob'.name = n
        /\ _activeJob' = Job(_activeJob'.params, _activeJob'.layers, _activeJob'.name)
    BY <2>1 DEF SetJobName, Job
  <2>3. IsJob(_activeJob)
    BY <1>7 DEF DoChangeJobName, TInv, TypeOK
  <2>4. IsJob(_activeJob')
    BY <2>2, <2>3 DEF IsJob, JobNames
  <2>5. _activeJob' # Null /\ _activeJob'.name # NoMetaData
    BY <2>2, <2>4, JobNotNull, NoMetaDataAssumption
  <2>6. _isModified' \in BOOLEAN
    BY <1>7 DEF DoChangeJobName
  <2> QED
    BY <1>7, <2>4, <2>5, <2>6 DEF DoChangeJobName, TInv, TypeOK
<1>8. CASE DoDiscardChanges
  <2>1. _isModified' \in BOOLEAN
    BY <1>8 DEF DoDiscardChanges
  <2> QED
    BY <1>8, <2>1 DEF DoDiscardChanges, ReloadActiveJob, TInv, TypeOK
<1>9. CASE DoSaveAndExit
  <2>1. /\ phase = "menu" /\ phase' \in {"menu", "saved"}
        /\ source' \in {source, Null, _activeJob}
        /\ UNCHANGED << _activeJob, _isModified, loaded, cursor >>
    BY <1>9 DEF DoSaveAndExit
  <2> QED
    BY <2>1 DEF TInv, TypeOK, Phases
<1>10. CASE DoQuitWithoutSaving
  BY <1>10 DEF DoQuitWithoutSaving, TInv, TypeOK, Phases
<1>11. CASE UNCHANGED vars
  BY <1>11 DEF vars, TInv, TypeOK
<1> QED
  BY <1>1, <1>2, <1>3, <1>4, <1>5, <1>6, <1>7, <1>8, <1>9, <1>10, <1>11 DEF Next, Ended

\* The session has a well-formed job in every phase, whatever was edited, reloaded
\* or saved: its keys are ints, its blocks keep their layers, and a job that
\* MainLoop shows has metadata.
THEOREM EditorTypes == Spec => []TypeOK
<1>1. TInv => TypeOK
  BY DEF TInv
<1> QED
  BY <1>1, InitTInv, StepTInv, PTL DEF Spec
-----------------------------------------------------------------------------
(* No new set is close to another one.                                     *)

\* Two sets within the tolerance of each other both have a key in old.
Spread(params, old) ==
  \A k, other \in DOMAIN params :
    LET a == params[k]
        b == params[other]
    IN  /\ k # other /\ NaN \notin {a.power, a.speed, b.power, b.speed}
        /\ a.power - b.power \in 1 - Tolerance .. Tolerance - 1
        /\ a.speed - b.speed \in 1 - Tolerance .. Tolerance - 1
        => {k, other} \subseteq old

\* A choice adds no set that is close to one there was, in either order.
LEMMA ChoiceSpread ==
  ASSUME NEW job, IsJob(job), NEW c, ChoiceOf(c, job), NEW old, Spread(job.params, old)
  PROVE  Spread(c.job.params, old)
<1>1. CASE c.job = job
  BY <1>1
<1>2. CASE c.job # job
  <2>1. PICK w \in Sets :
          /\ c.job = AddSet(job, c.key, w) /\ c.key \notin DOMAIN job.params
          /\ \A k \in DOMAIN job.params : ~DoParamsMatch(job.params[k], w)
    BY <1>2 DEF ChoiceOf
  <2> DEFINE params == c.job.params
  <2>2. /\ DOMAIN params = DOMAIN job.params \cup {c.key} /\ params[c.key] = w
        /\ \A k \in DOMAIN job.params : params[k] = job.params[k] /\ params[k] \in Sets
    BY <2>1 DEF AddSet, Job, IsJob
  <2> HIDE DEF params
  <2>3. ASSUME NEW a \in Sets, NaN \notin {a.power, a.speed, w.power, w.speed},
               \/ /\ a.power - w.power \in 1 - Tolerance .. Tolerance - 1
                  /\ a.speed - w.speed \in 1 - Tolerance .. Tolerance - 1
               \/ /\ w.power - a.power \in 1 - Tolerance .. Tolerance - 1
                  /\ w.speed - a.speed \in 1 - Tolerance .. Tolerance - 1
        PROVE  DoParamsMatch(a, w)
    <3>1. /\ a.power \in Int /\ a.speed \in Int /\ w.power \in Int /\ w.speed \in Int
          /\ Tolerance \in Int
      BY <2>3, EditorAssumption DEF Sets, Floats
    <3> QED
      BY <2>3, <3>1 DEF DoParamsMatch, AreFloatsClose
  <2>4. SUFFICES ASSUME NEW k \in DOMAIN params, NEW other \in DOMAIN params, k # other,
                        NaN \notin {params[k].power, params[k].speed,
                                    params[other].power, params[other].speed},
                        params[k].power - params[other].power
                          \in 1 - Tolerance .. Tolerance - 1,
                        params[k].speed - params[other].speed
                          \in 1 - Tolerance .. Tolerance - 1
                 PROVE  {k, other} \subseteq old
    BY DEF Spread, params
  <2>5. CASE k = c.key
    <3>1. other \in DOMAIN job.params
      BY <2>2, <2>4, <2>5
    <3>2. DoParamsMatch(params[other], w)
      BY <2>2, <2>3, <2>4, <2>5, <3>1
    <3> QED
      BY <2>1, <2>2, <3>1, <3>2
  <2>6. CASE other = c.key
    <3>1. k \in DOMAIN job.params
      BY <2>2, <2>4, <2>6
    <3>2. DoParamsMatch(params[k], w)
      BY <2>2, <2>3, <2>4, <2>6, <3>1
    <3> QED
      BY <2>1, <2>2, <3>1, <3>2
  <2>7. CASE k # c.key /\ other # c.key
    BY <2>2, <2>4, <2>7 DEF Spread
  <2> QED
    BY <2>5, <2>6, <2>7
<1> QED
  BY <1>1, <1>2

\* Every step keeps the new sets apart.
LEMMA StepSpread == TInv /\ NoNewDuplicates /\ [Next]_vars => NoNewDuplicates'
<1> DEFINE Apart == Editing => Spread(_activeJob.params, DOMAIN loaded.params)
<1>0. NoNewDuplicates <=> Apart
  BY DEF NoNewDuplicates, Spread
<1>00. NoNewDuplicates' <=> Apart'
  BY DEF NoNewDuplicates, Spread
<1> SUFFICES ASSUME TInv, Apart, [Next]_vars PROVE Apart'
  BY <1>0, <1>00
<1>1. CASE LoadJob \/ DoDiscardChanges
  <2>1. CASE _activeJob' = loaded'
    BY <2>1 DEF Spread
  <2>2. CASE phase' = "fatal"
    BY <2>2 DEF Editing
  <2> QED
    BY <1>1, <2>1, <2>2 DEF LoadJob, DoDiscardChanges, ReloadActiveJob
<1>2. CASE DoApplyParametersToRange \/ DoApplyByVectorType \/ EditBlock
  <2>1. phase \in {"menu", "blocks"} /\ UNCHANGED << phase, loaded >>
    BY <1>2 DEF DoApplyParametersToRange, DoApplyByVectorType, EditBlock, MoreBlocks
  <2>2. IsJob(_activeJob) /\ EditOf(_activeJob', _activeJob)
    BY <1>2, <2>1, EditActions DEF TInv, TypeOK
  <2>3. PICK c : ChoiceOf(c, _activeJob) /\ _activeJob'.params = c.job.params
    BY <2>2, EditJob
  <2>4. Spread(c.job.params, DOMAIN loaded.params)
    BY <2>1, <2>2, <2>3, ChoiceSpread DEF Editing
  <2> QED
    BY <2>1, <2>3, <2>4
<1>3. CASE DoChangeJobName
  <2>1. _activeJob'.params = _activeJob.params
    BY <1>3 DEF DoChangeJobName, SetJobName, Job
  <2> QED
    BY <1>3, <2>1 DEF DoChangeJobName, Editing
<1>4. CASE UNCHANGED << _activeJob, loaded >> /\ (Editing' => Editing)
  BY <1>4
<1>5. CASE \/ DoVectorBlockEditing \/ SkipBlock \/ EditBlockThrows \/ FinishBlocks
           \/ DoSaveAndExit \/ DoQuitWithoutSaving \/ UNCHANGED vars
  <2>1. UNCHANGED << _activeJob, loaded >> /\ (Editing' => Editing)
    BY <1>5 DEF DoVectorBlockEditing, SkipBlock, EditBlockThrows, FinishBlocks, MoreBlocks,
                DoSaveAndExit, DoQuitWithoutSaving, vars, Editing
  <2> QED
    BY <1>4, <2>1
<1> QED
  BY <1>1, <1>2, <1>3, <1>5 DEF Next, Ended

\* However many sets are created one after the other, none comes within the
\* tolerance of another one, for every tolerance and every list of wishes.
THEOREM NewSetsKeptApart == Spec => []NoNewDuplicates
<1>1. Init => NoNewDuplicates
  BY DEF Init, NoNewDuplicates, Editing
<1> QED
  BY <1>1, StepSpread, InitTInv, StepTInv, PTL DEF Spec
-----------------------------------------------------------------------------
(* The session implements EditSession.                                     *)

\* The name EditSession has for a block.
Place(job, l, b) == << l, b, job.layers[l][b].area >>

\* The selections of EditSession, from the places of a job.
SelectionsOf(places) ==
  {{}} \cup {{id} : id \in places}
    \cup {{id \in places : id[1] \in first[1] .. last[1]} : first, last \in places}
    \cup {{id \in places : id[1] = one[1] /\ id[3] = one[3]} : one \in places}

\* What EditSession!Assign says of the exposures before and after.
Assigned(old, new) ==
  \E ids \in SelectionsOf(DOMAIN old), given \in {new[id] : id \in DOMAIN old} :
    /\ given # Null
    /\ \A id \in DOMAIN old :
         \/ new[id] = given /\ (id \in ids \/ old[id] = Null)
         \/ new[id] = old[id] /\ id \notin ids

\* Natural numbers with a bound have a least and a greatest one among them.
LEMMA LeastAndGreatest ==
  ASSUME NEW n \in Nat, NEW S \in SUBSET (0 .. n), S # {}
  PROVE  \E low, high \in S : \A x \in S : low <= x /\ x <= high
<1>1. ASSUME NEW T \in SUBSET Nat, T # {}
      PROVE  \E low \in T : \A x \in T : low <= x
  <2>1. PICK low \in T : \A m \in T : ~(<<m, low>> \in OpToRel(<, Nat))
    BY <1>1, NatLessThanWellFounded, WFMin
  <2>2. \A x \in T : <<x, low>> \in OpToRel(<, Nat) \/ low <= x
    BY DEF OpToRel
  <2> QED
    BY <2>1, <2>2
<1>2. PICK low \in S : \A x \in S : low <= x
  <2>1. S \in SUBSET Nat
    OBVIOUS
  <2> QED
    BY <1>1, <2>1
<1> DEFINE T == {m \in Nat : n - m \in S}
<1>3. T # {}
  <2>1. PICK x \in S : TRUE
    OBVIOUS
  <2>2. n - x \in Nat /\ n - (n - x) = x
    OBVIOUS
  <2> QED
    BY <2>1, <2>2
<1>4. PICK m \in T : \A x \in T : m <= x
  <2>1. T \in SUBSET Nat
    OBVIOUS
  <2> HIDE DEF T
  <2> QED
    BY <1>1, <1>3, <2>1
<1>5. ASSUME NEW x \in S PROVE x <= n - m
  <2>1. n - x \in Nat /\ n - (n - x) = x
    OBVIOUS
  <2>2. m <= n - x
    BY <1>4, <2>1
  <2> QED
    BY <2>2
<1> QED
  BY <1>2, <1>4, <1>5

\* The exposure of a job gives every block what its key stands for.
LEMMA ExposureValues ==
  ASSUME NEW job
  PROVE  /\ DOMAIN ExposureOf(job)
              = UNION {{Place(job, l, b) : b \in DOMAIN job.layers[l]} : l \in DOMAIN job.layers}
         /\ \A l \in DOMAIN job.layers : \A b \in DOMAIN job.layers[l] :
              ExposureOf(job)[Place(job, l, b)] = Resolved(job, job.layers[l][b].key)
         /\ ExposureOf(job) = [d \in DOMAIN ExposureOf(job) |-> ExposureOf(job)[d]]
<1> DEFINE D == {<< id[1], id[2], BlockAt(job, id).area >> : id \in BlockIds(job)}
           value(d) == Resolved(job, BlockAt(job, d).key)
<1>1. ExposureOf(job) = [d \in D |-> value(d)]
  BY DEF ExposureOf
<1> DEFINE P == UNION {{Place(job, l, b) : b \in DOMAIN job.layers[l]} : l \in DOMAIN job.layers}
<1>2. D = P
  <2>1. ASSUME NEW d \in D PROVE d \in P
    <3>1. PICK id \in BlockIds(job) : d = << id[1], id[2], BlockAt(job, id).area >>
      OBVIOUS
    <3>2. PICK l \in DOMAIN job.layers : id \in {l} \X DOMAIN job.layers[l]
      BY DEF BlockIds
    <3>3. PICK b \in DOMAIN job.layers[l] : id = << l, b >>
      BY <3>2
    <3>4. d = Place(job, l, b)
      BY <3>1, <3>3 DEF Place, BlockAt
    <3> QED
      BY <3>4
  <2>2. ASSUME NEW d \in P PROVE d \in D
    <3>1. PICK l \in DOMAIN job.layers : \E b \in DOMAIN job.layers[l] : d = Place(job, l, b)
      OBVIOUS
    <3>2. PICK b \in DOMAIN job.layers[l] : d = Place(job, l, b)
      BY <3>1
    <3>3. << l, b >> \in BlockIds(job)
      BY DEF BlockIds
    <3>4. d = << << l, b >>[1], << l, b >>[2], BlockAt(job, << l, b >>).area >>
      BY <3>2 DEF Place, BlockAt
    <3> QED
      BY <3>3, <3>4
  <2> QED
    BY <2>1, <2>2
<1>3. ASSUME NEW l \in DOMAIN job.layers, NEW b \in DOMAIN job.layers[l]
      PROVE  /\ Place(job, l, b) \in D
             /\ value(Place(job, l, b)) = Resolved(job, job.layers[l][b].key)
  <2>1. Place(job, l, b) \in P
    OBVIOUS
  <2>2. BlockAt(job, Place(job, l, b)) = job.layers[l][b]
    BY DEF BlockAt, Place
  <2> QED
    BY <1>2, <2>1, <2>2
<1> HIDE DEF D, value
<1> QED
  BY <1>1, <1>2, <1>3

\* The places of the selected blocks are a selection of EditSession.
LEMMA SelectedPlaces ==
  ASSUME NEW job, IsJob(job), NEW S, S = {} \/ Selection(job, S)
  PROVE  {d \in DOMAIN ExposureOf(job) : << d[1], d[2] >> \in S}
           \in SelectionsOf(DOMAIN ExposureOf(job))
<1> DEFINE D == DOMAIN ExposureOf(job)
           A == {d \in D : << d[1], d[2] >> \in S}
<1>1. D = UNION {{Place(job, l, b) : b \in DOMAIN job.layers[l]} : l \in DOMAIN job.layers}
  BY ExposureValues
<1> HIDE DEF D
<1>2. /\ DOMAIN job.layers = 1 .. Len(job.layers) /\ Len(job.layers) \in Nat
      /\ BlockIds(job) = UNION {{l} \X DOMAIN job.layers[l] : l \in DOMAIN job.layers}
  BY JobBlocks DEF BlockIds
<1>3. \A d \in D : /\ d[1] \in 1 .. Len(job.layers) /\ << d[1], d[2] >> \in BlockIds(job)
                   /\ d = << d[1], d[2], BlockAt(job, << d[1], d[2] >>).area >>
  BY <1>1, <1>2 DEF Place, BlockAt
<1>4. CASE A = {}
  BY <1>4 DEF SelectionsOf, D
<1>5. CASE A # {} /\ \E id \in BlockIds(job) : S = {id}
  <2>1. PICK id \in BlockIds(job) : S = {id}
    BY <1>5
  <2>2. PICK d \in A : TRUE
    BY <1>5
  <2>3. A = {d}
    BY <1>3, <2>1, <2>2
  <2> QED
    BY <2>2, <2>3 DEF SelectionsOf, D
<1>6. CASE A # {} /\ \E first, last \in Nat :
                       S = {id \in BlockIds(job) : id[1] \in first .. last}
  <2>1. PICK first, last \in Nat : S = {id \in BlockIds(job) : id[1] \in first .. last}
    BY <1>6
  <2> DEFINE L == {d[1] : d \in A}
  <2>2. L \in SUBSET (0 .. Len(job.layers)) /\ L # {}
    <3>1. \A d \in A : d[1] \in 0 .. Len(job.layers)
      BY <1>2, <1>3
    <3> HIDE DEF A
    <3> QED
      BY <1>6, <3>1
  <2>3. PICK low, high \in L : \A x \in L : low <= x /\ x <= high
    <3> HIDE DEF L
    <3> QED
      BY <1>2, <2>2, LeastAndGreatest
  <2>4. PICK f \in A, g \in A : low = f[1] /\ high = g[1]
    BY <2>3
  <2>5. A = {d \in D : d[1] \in f[1] .. g[1]}
    <3>1. \A d \in D : d \in A <=> d[1] \in first .. last
      BY <1>3, <2>1
    <3>2. ASSUME NEW d \in A PROVE d[1] \in f[1] .. g[1]
      <4>1. d[1] \in Int /\ f[1] \in Int /\ g[1] \in Int
        BY <1>2, <1>3
      <4>2. d[1] \in L
        OBVIOUS
      <4>3. f[1] <= d[1] /\ d[1] <= g[1]
        BY <2>3, <2>4, <4>2
      <4> QED
        BY <4>1, <4>3
    <3>3. ASSUME NEW d \in D, d[1] \in f[1] .. g[1] PROVE d[1] \in first .. last
      BY <1>2, <1>3, <2>4, <3>1, <3>3
    <3> QED
      BY <3>1, <3>2, <3>3
  <2>6. f \in D /\ g \in D
    OBVIOUS
  <2> HIDE DEF A
  <2>7. A \in {{id \in D : id[1] \in h[1] .. k[1]} : h, k \in D}
    BY <2>5, <2>6
  <2>8. A \in SelectionsOf(D)
    BY <2>7 DEF SelectionsOf
  <2> QED
    BY <2>8 DEF A, D
<1>7. CASE A # {} /\ \E layer \in Nat, area \in PartAreas :
             S = {id \in BlockIds(job) : id[1] = layer /\ BlockAt(job, id).area = area}
  <2>1. PICK layer \in Nat, area \in PartAreas :
          S = {id \in BlockIds(job) : id[1] = layer /\ BlockAt(job, id).area = area}
    BY <1>7
  <2>2. ASSUME NEW d \in D PROVE d \in A <=> d[1] = layer /\ d[3] = area
    <3> DEFINE id == << d[1], d[2] >>
    <3>1. id \in BlockIds(job) /\ id[1] = d[1]
      BY <1>3
    <3>2. d[3] = BlockAt(job, id).area
      BY <1>3
    <3>3. d \in A <=> id \in S
      OBVIOUS
    <3> HIDE DEF id, A
    <3> QED
      BY <2>1, <3>1, <3>2, <3>3
  <2>3. PICK one \in A : TRUE
    BY <1>7
  <2>4. A = {d \in D : d[1] = one[1] /\ d[3] = one[3]} /\ one \in D
    BY <2>2, <2>3
  <2> HIDE DEF A
  <2>5. A \in {{d \in D : d[1] = e[1] /\ d[3] = e[3]} : e \in D}
    BY <2>4
  <2>6. A \in SelectionsOf(D)
    BY <2>5 DEF SelectionsOf
  <2> QED
    BY <2>6 DEF A, D
<1> QED
  BY <1>4, <1>5, <1>6, <1>7 DEF Selection, D

\* An edit of a job is an edit of EditSession, or changes no exposure: blocks that
\* were not selected keep what their key stands for, unless it stood for nothing.
LEMMA EditExposure ==
  ASSUME NEW job, IsJob(job), NEW new, EditOf(new, job)
  PROVE  /\ DOMAIN ExposureOf(new) = DOMAIN ExposureOf(job)
         /\ ExposureOf(new) = ExposureOf(job) \/ Assigned(ExposureOf(job), ExposureOf(new))
<1>1. PICK c : /\ ChoiceOf(c, job)
               /\ \/ new = c.job
                  \/ \E ids : Selection(job, ids) /\ new = SetMarkingParamsKey(c.job, ids, c.key)
  BY DEF EditOf
<1>2. /\ IsJob(c.job) /\ c.job.layers = job.layers
      /\ c.key \in DOMAIN c.job.params /\ c.key \in Ints
      /\ \A k \in DOMAIN job.params :
           k \in DOMAIN c.job.params /\ c.job.params[k] = job.params[k]
      /\ \A k \in DOMAIN c.job.params : k \in DOMAIN job.params \/ k = c.key
  BY <1>1, ChoiceJob
<1>3. PICK S : /\ S = {} \/ Selection(job, S)
               /\ new.params = c.job.params
               /\ DOMAIN new.layers = DOMAIN job.layers
               /\ \A l \in DOMAIN job.layers :
                    /\ DOMAIN new.layers[l] = DOMAIN job.layers[l]
                    /\ \A b \in DOMAIN job.layers[l] :
                         /\ new.layers[l][b].area = job.layers[l][b].area
                         /\ new.layers[l][b].key = IF << l, b >> \in S THEN c.key
                                                   ELSE job.layers[l][b].key
  <2>1. CASE new = c.job
    <3> DEFINE none == {}
    <3>1. \A l, b : << l, b >> \notin none
      OBVIOUS
    <3>2. none = {}
      OBVIOUS
    <3> HIDE DEF none
    <3> QED
      BY <1>2, <2>1, <3>1, <3>2
  <2>2. CASE \E ids : Selection(job, ids) /\ new = SetMarkingParamsKey(c.job, ids, c.key)
    <3>1. PICK ids : Selection(job, ids) /\ new = SetMarkingParamsKey(c.job, ids, c.key)
      BY <2>2
    <3> QED
      BY <1>2, <3>1, SetKeyJob
  <2> QED
    BY <1>1, <2>1, <2>2
<1> DEFINE old == ExposureOf(job)
           now == ExposureOf(new)
           D == DOMAIN old
           A == {d \in D : << d[1], d[2] >> \in S}
           given == c.job.params[c.key]
<1>4. /\ D = UNION {{Place(job, l, b) : b \in DOMAIN job.layers[l]} : l \in DOMAIN job.layers}
      /\ \A l \in DOMAIN job.layers : \A b \in DOMAIN job.layers[l] :
           /\ old[Place(job, l, b)] = Resolved(job, job.layers[l][b].key)
           /\ now[Place(job, l, b)] = Resolved(new, new.layers[l][b].key)
      /\ DOMAIN now = D
      /\ old = [d \in D |-> old[d]] /\ now = [d \in D |-> now[d]]
  <2>1. /\ D = UNION {{Place(job, l, b) : b \in DOMAIN job.layers[l]} : l \in DOMAIN job.layers}
        /\ \A l \in DOMAIN job.layers : \A b \in DOMAIN job.layers[l] :
             old[Place(job, l, b)] = Resolved(job, job.layers[l][b].key)
        /\ old = [d \in D |-> old[d]]
    BY ExposureValues
  <2>2. /\ DOMAIN now
             = UNION {{Place(new, l, b) : b \in DOMAIN new.layers[l]} : l \in DOMAIN new.layers}
        /\ \A l \in DOMAIN new.layers : \A b \in DOMAIN new.layers[l] :
             now[Place(new, l, b)] = Resolved(new, new.layers[l][b].key)
        /\ now = [d \in DOMAIN now |-> now[d]]
    BY ExposureValues
  <2> HIDE DEF old, now, D
  <2>3. \A l \in DOMAIN job.layers : \A b \in DOMAIN job.layers[l] :
          Place(new, l, b) = Place(job, l, b)
    BY <1>3 DEF Place
  <2>4. DOMAIN now = D
    BY <1>3, <2>1, <2>2, <2>3
  <2>5. \A l \in DOMAIN job.layers : \A b \in DOMAIN job.layers[l] :
          now[Place(job, l, b)] = Resolved(new, new.layers[l][b].key)
    <3> TAKE l \in DOMAIN job.layers
    <3> TAKE b \in DOMAIN job.layers[l]
    <3>1. l \in DOMAIN new.layers /\ b \in DOMAIN new.layers[l]
      BY <1>3
    <3> QED
      BY <2>2, <2>3, <3>1
  <2>6. now = [d \in D |-> now[d]]
    BY <2>2, <2>4
  <2> QED
    BY <2>1, <2>4, <2>5, <2>6
<1>5. A \in SelectionsOf(D)
  BY <1>3, SelectedPlaces
<1> HIDE DEF old, now, D
<1>6. given # Null
  <2>1. given \in Sets
    BY <1>2 DEF IsJob
  <2> QED
    BY <2>1, NullAssumption
<1>7. ASSUME NEW d \in D
      PROVE  \/ now[d] = given /\ (d \in A \/ old[d] = Null)
             \/ now[d] = old[d] /\ d \notin A
  <2>1. PICK l \in DOMAIN job.layers : \E b \in DOMAIN job.layers[l] : d = Place(job, l, b)
    BY <1>4
  <2>2. PICK b \in DOMAIN job.layers[l] : d = Place(job, l, b)
    BY <2>1
  <2>3. d[1] = l /\ d[2] = b
    BY <2>2 DEF Place
  <2>4. CASE << l, b >> \in S
    <3>1. now[d] = Resolved(new, c.key)
      <4>1. new.layers[l][b].key = c.key
        BY <1>3, <2>4
      <4> QED
        BY <1>4, <2>2, <4>1
    <3>2. now[d] = given
      BY <1>2, <1>3, <3>1 DEF Resolved, DoesParamSetExist
    <3> QED
      BY <2>3, <2>4, <3>2
  <2>5. CASE << l, b >> \notin S
    <3>1. d \notin A
      BY <2>3, <2>5
    <3> DEFINE k == job.layers[l][b].key
    <3>2. old[d] = Resolved(job, k) /\ now[d] = Resolved(new, k)
      BY <1>3, <1>4, <2>2, <2>5
    <3> HIDE DEF k, A
    <3> QED
      BY <1>2, <1>3, <3>1, <3>2 DEF Resolved, DoesParamSetExist
  <2> QED
    BY <2>4, <2>5
<1>8. CASE \E d \in D : now[d] = given
  <2>1. given \in {now[d] : d \in D}
    BY <1>8
  <2> HIDE DEF given, A
  <2>2. Assigned(old, now)
    BY <1>5, <1>6, <1>7, <2>1 DEF Assigned, D
  <2> QED
    BY <1>4, <2>2 DEF old, now, D
<1>9. CASE ~ \E d \in D : now[d] = given
  <2>1. \A d \in D : now[d] = old[d]
    BY <1>7, <1>9
  <2>2. now = old
    BY <1>4, <2>1
  <2> QED
    BY <2>2 DEF old, now
<1> QED
  BY <1>8, <1>9

\* Every step of the editor is a step of EditSession, or one it does not see.
LEMMA StepRefines ==
  TInv /\ TInv' /\ [Next]_vars => [Session!Next]_(Session!vars)
<1> SUFFICES ASSUME TInv, TInv', [Next]_vars PROVE Session!Next \/ UNCHANGED Session!vars
  OBVIOUS
<1>0. ASSUME UNCHANGED << SessionState, _activeJob, source >> PROVE UNCHANGED Session!vars
  BY <1>0 DEF Session!vars
<1>1. CASE LoadJob
  <2>1. SessionState = "starting" /\ UNCHANGED source
    BY <1>1 DEF LoadJob, SessionState
  <2>2. CASE /\ ReloadActiveJob
             /\ phase' = IF source.name = NoMetaData THEN "fatal" ELSE "menu"
    <3>1. source # Null /\ _activeJob' = source /\ IsJob(source)
      BY <2>2 DEF ReloadActiveJob, TInv, TypeOK
    <3>2. SessionState' \in {"open", "ended"}
      BY <2>2 DEF SessionState
    <3>3. Session!Load
      BY <2>1, <3>1, NullAssumption DEF Session!Load, Session!Unreadable, IsJob
    <3> QED
      BY <2>1, <3>2, <3>3 DEF Session!Next, Session!Open
  <2>3. CASE phase' = "fatal" /\ UNCHANGED << _activeJob, loaded >>
    <3>1. SessionState' = "ended"
      BY <2>3 DEF SessionState
    <3> QED
      BY <2>1, <2>3, <3>1 DEF Session!Next, Session!Open
  <2> QED
    BY <1>1, <2>2, <2>3 DEF LoadJob
<1>2. CASE DoApplyParametersToRange \/ DoApplyByVectorType \/ EditBlock
  <2>1. phase \in {"menu", "blocks"} /\ UNCHANGED << phase, source >>
    BY <1>2 DEF DoApplyParametersToRange, DoApplyByVectorType, EditBlock, MoreBlocks
  <2>2. SessionState = "open" /\ UNCHANGED SessionState
    BY <2>1 DEF SessionState
  <2>3. /\ IsJob(_activeJob) /\ _activeJob # Null /\ _activeJob' # Null
        /\ EditOf(_activeJob', _activeJob)
    BY <1>2, <2>1, EditActions DEF TInv, TypeOK
  <2>4. _activeJob'.name = _activeJob.name
    BY <2>3, EditJob
  <2>5. /\ DOMAIN ExposureOf(_activeJob') = DOMAIN ExposureOf(_activeJob)
        /\ \/ ExposureOf(_activeJob') = ExposureOf(_activeJob)
           \/ Assigned(ExposureOf(_activeJob), ExposureOf(_activeJob'))
    BY <2>3, EditExposure
  <2>6. CASE ExposureOf(_activeJob') = ExposureOf(_activeJob)
    BY <2>1, <2>2, <2>3, <2>4, <2>6 DEF Session!vars
  <2>7. CASE Assigned(ExposureOf(_activeJob), ExposureOf(_activeJob'))
    <3>1. Session!Selections = SelectionsOf(DOMAIN ExposureOf(_activeJob))
      BY <2>3 DEF Session!Selections, SelectionsOf
    <3>2. Session!Assign
      BY <2>1, <2>2, <2>3, <2>4, <2>5, <2>7, <3>1 DEF Session!Assign, Assigned
    <3> QED
      BY <3>2 DEF Session!Next
  <2> QED
    BY <2>5, <2>6, <2>7
<1>3. CASE DoVectorBlockEditing \/ SkipBlock \/ EditBlockThrows \/ FinishBlocks
  <2>1. UNCHANGED << SessionState, _activeJob, source >>
    BY <1>3 DEF DoVectorBlockEditing, SkipBlock, EditBlockThrows, FinishBlocks, MoreBlocks,
                SessionState
  <2> QED
    BY <1>0, <2>1
<1>4. CASE DoChangeJobName
  <2>1. phase = "menu" /\ UNCHANGED << phase, source >>
    BY <1>4 DEF DoChangeJobName
  <2>2. SessionState = "open" /\ UNCHANGED SessionState /\ _activeJob # Null /\ _activeJob' # Null
    BY <2>1 DEF SessionState, TInv, TypeOK
  <2>3. /\ _activeJob'.params = _activeJob.params
        /\ _activeJob'.layers = _activeJob.layers
    BY <1>4 DEF DoChangeJobName, SetJobName, Job
  <2>4. ExposureOf(_activeJob') = ExposureOf(_activeJob)
    BY <2>3 DEF ExposureOf, BlockIds, BlockAt, Resolved, DoesParamSetExist
  <2>5. Session!Rename
    BY <2>1, <2>2, <2>4 DEF Session!Rename
  <2> QED
    BY <2>5 DEF Session!Next
<1>5. CASE DoDiscardChanges
  <2>1. phase = "menu" /\ UNCHANGED << phase, source >> /\ source # Null /\ _activeJob' = source
    BY <1>5 DEF DoDiscardChanges, ReloadActiveJob
  <2>2. SessionState = "open" /\ UNCHANGED SessionState /\ IsJob(source)
    BY <2>1 DEF SessionState, TInv, TypeOK
  <2>3. Session!Load
    BY <2>1, <2>2, NullAssumption DEF Session!Load, Session!Unreadable, IsJob
  <2> QED
    BY <2>2, <2>3 DEF Session!Next, Session!Revert
<1>6. CASE DoSaveAndExit
  <2>1. PICK ontoSource, fails \in BOOLEAN :
          /\ source' = IF ~ontoSource THEN source ELSE IF fails THEN Null ELSE _activeJob
          /\ phase' = IF fails THEN "menu" ELSE "saved"
    BY <1>6 DEF DoSaveAndExit
  <2>2. phase = "menu" /\ UNCHANGED _activeJob
    BY <1>6 DEF DoSaveAndExit
  <2>3. SessionState = "open" /\ _activeJob # Null
    BY <2>2 DEF SessionState, TInv, TypeOK
  <2>4. CASE fails
    <3>1. source' \in {source, Null} /\ SessionState' = "open"
      BY <2>1, <2>4 DEF SessionState
    <3> QED
      BY <2>2, <2>3, <3>1 DEF Session!Next, Session!Save, Session!Unreadable
  <2>5. CASE ~fails
    <3>1. source' \in {source, _activeJob} /\ SessionState' = "ended"
      BY <2>1, <2>5 DEF SessionState
    <3> QED
      BY <2>2, <2>3, <3>1 DEF Session!Next, Session!Save, Session!Current
  <2> QED
    BY <2>4, <2>5
<1>7. CASE DoQuitWithoutSaving
  <2>1. SessionState = "open" /\ SessionState' = "ended" /\ UNCHANGED << _activeJob, source >>
    BY <1>7 DEF DoQuitWithoutSaving, SessionState
  <2> QED
    BY <2>1 DEF Session!Next, Session!Quit
<1>8. CASE UNCHANGED vars
  BY <1>0, <1>8 DEF vars, SessionState
<1> QED
  BY <1>1, <1>2, <1>3, <1>4, <1>5, <1>6, <1>7, <1>8 DEF Next, Ended

\* The editor implements EditSession: whatever keys are found, created, wrapped or
\* left over, an edit gives one choice of parameters to the selected blocks and
\* leaves what every other block is exposed with alone.
THEOREM EditorImplementsEditSession == Spec => ImplementsEditSession
<1>1. Init => Session!Init
  BY DEF Init, Session!Init, SessionState
<1> QED
  BY <1>1, StepRefines, InitTInv, StepTInv, PTL DEF Spec, ImplementsEditSession, Session!Spec
=============================================================================
