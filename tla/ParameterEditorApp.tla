------------------------- MODULE ParameterEditorApp -------------------------
(***************************************************************************)
(* ParameterEditorApp: an editing session.  The operator's answers are the *)
(* quantified inputs of the actions; a handler that ends without effect (a *)
(* return to the menu, an answer that is refused or cannot be parsed       *)
(* before anything is changed, a view, a reload that fails) is a           *)
(* stuttering step.  DoVectorBlockEditing asks about one block after the   *)
(* other and is one step per block.  Reader and writer of OVF files are a  *)
(* package outside the repository: a load may fail, and a save may fail    *)
(* half-way, which leaves no readable file.                                *)
(***************************************************************************)
EXTENDS JobEditor

CONSTANTS
  Files,       \* the jobs the source file may hold
  Wishes,      \* powers and speeds an operator enters
  Names,       \* job names an operator enters
  NoMetaData,  \* name of a job without JobMetaData
  Null         \* no job, or no readable file

VARIABLES
  phase,       \* where the session is
  _activeJob, _isModified,
  source,      \* what the source file holds
  loaded,      \* what the last successful load returned
  cursor       \* DoVectorBlockEditing: layer, next block, wasAnyBlockModified

vars == << phase, _activeJob, _isModified, source, loaded, cursor >>

Phases == {"start", "menu", "blocks", "saved", "quit", "fatal"}

Floats == Int \cup {NaN}

Sets == [power : Floats, speed : Floats]

Blocks == [key : IntMin .. IntMax, area : PartAreas \cup {"None"}]

ParamMaps == UNION {[keys -> Sets] : keys \in SUBSET (IntMin .. IntMax)}

JobNames == Names \cup {NoMetaData}

IsJob(job) ==
  /\ job = Job(job.params, job.layers, job.name)
  /\ DOMAIN job.params \subseteq IntMin .. IntMax
  /\ job.params \in [DOMAIN job.params -> Sets]
  /\ job.layers \in Seq(Seq(Blocks))
  /\ job.name \in JobNames

ASSUME FilesAssumption == Null \notin Files /\ \A file \in Files : IsJob(file)

ASSUME WishesAssumption == Wishes \subseteq Sets

ASSUME NoMetaDataAssumption == NoMetaData \notin Names

\* Nothing is mistaken for Null.
ASSUME NullAssumption ==
  /\ Null \notin JobNames /\ Null \notin Sets
  /\ Null \notin [params : ParamMaps, layers : Seq(Seq(Blocks)), name : JobNames]

\* The session is in one of its phases with a well-formed job whose keys are
\* ints; a session that goes on has a job with metadata, which MainLoop reads
\* outside its try block.
TypeOK ==
  /\ phase \in Phases
  /\ _isModified \in BOOLEAN
  /\ _activeJob # Null => IsJob(_activeJob)
  /\ source # Null => IsJob(source)
  /\ phase \in {"menu", "blocks", "saved", "quit"} =>
       _activeJob # Null /\ _activeJob.name # NoMetaData
  /\ phase = "blocks" => /\ cursor.layer \in DOMAIN _activeJob.layers
                         /\ cursor.next \in 1 .. Len(_activeJob.layers[cursor.layer]) + 1

Init ==
  /\ phase = "start"
  /\ _activeJob = Null /\ _isModified = FALSE
  /\ source \in Files \cup {Null}
  /\ loaded = Null
  /\ cursor = [layer |-> 0, next |-> 1, any |-> FALSE]
-----------------------------------------------------------------------------
ReloadActiveJob ==
  /\ source # Null
  /\ _activeJob' = source
  /\ loaded' = source

\* LoadJob reads JobMetaData.JobName: without metadata, or without a readable
\* file, Run ends with a fatal error.
LoadJob ==
  /\ phase = "start"
  /\ \/ /\ ReloadActiveJob
        /\ phase' = IF source.name = NoMetaData THEN "fatal" ELSE "menu"
     \/ phase' = "fatal" /\ UNCHANGED << _activeJob, loaded >>
  /\ UNCHANGED << _isModified, source, cursor >>

\* The results of GetParameterKeyFromUser: an existing key, or a wish.
GetParameterKeyFromUser ==
  {[job |-> _activeJob, key |-> k] : k \in DOMAIN _activeJob.params}
    \cup UNION {FindOrCreateParameterSetKey(_activeJob, w) : w \in Wishes}

LayerNumbers == 0 .. Len(_activeJob.layers) + 1

ValidLayers(start, end) ==
  start >= 1 /\ end <= GetMaxLayerIndex(_activeJob) + 1 /\ start <= end

\* The key comes first: a set created for it stays when the range is refused, by
\* ConsoleUI or by the handler.
DoApplyParametersToRange ==
  /\ phase = "menu"
  /\ \E choice \in GetParameterKeyFromUser, start, end \in LayerNumbers :
       LET apply == /\ ValidLayers(start, end)
                    /\ Accepts(choice.job, start - 1, end - 1, choice.key)
       IN  /\ _activeJob' = IF apply
                            THEN ApplyParametersToLayerRange(choice.job, start - 1, end - 1,
                                                             choice.key)
                            ELSE choice.job
           /\ _isModified' = (_isModified \/ apply)
  /\ UNCHANGED << phase, source, loaded, cursor >>

DoApplyByVectorType ==
  /\ phase = "menu"
  /\ \E layer \in LayerNumbers, area \in PartAreas, choice \in GetParameterKeyFromUser :
       /\ ValidLayers(layer, layer)
       /\ Accepts(choice.job, layer - 1, layer - 1, choice.key)
       /\ _activeJob' = ApplyParametersToVectorTypeInLayer(choice.job, layer - 1, area,
                                                           choice.key)
       /\ _isModified' = TRUE
  /\ UNCHANGED << phase, source, loaded, cursor >>

DoVectorBlockEditing ==
  /\ phase = "menu"
  /\ \E layer \in LayerNumbers :
       /\ ValidLayers(layer, layer)
       /\ cursor' = [layer |-> layer, next |-> 1, any |-> FALSE]
  /\ phase' = "blocks"
  /\ UNCHANGED << _activeJob, _isModified, source, loaded >>

MoreBlocks ==
  phase = "blocks" /\ cursor.next <= Len(_activeJob.layers[cursor.layer])

SkipBlock ==
  /\ MoreBlocks
  /\ cursor' = [cursor EXCEPT !.next = @ + 1]
  /\ UNCHANGED << phase, _activeJob, _isModified, source, loaded >>

EditBlock ==
  /\ MoreBlocks
  /\ \E w \in Wishes : \E choice \in FindOrCreateParameterSetKey(_activeJob, w) :
       _activeJob' = SetMarkingParamsKey(choice.job, {<<cursor.layer, cursor.next>>},
                                         choice.key)
  /\ cursor' = [cursor EXCEPT !.next = @ + 1, !.any = TRUE]
  /\ UNCHANGED << phase, _isModified, source, loaded >>

\* FindOrCreateParameterSetKey throws: MainLoop reports it and goes on, and the
\* rest of the handler, _isModified = true included, is not executed.
EditBlockThrows ==
  /\ MoreBlocks
  /\ \E w \in Wishes : FindOrCreateParameterSetKey(_activeJob, w) = {}
  /\ phase' = "menu"
  /\ UNCHANGED << _activeJob, _isModified, source, loaded, cursor >>

\* Mutant: edits of single blocks do not mark the job.
FinishForgetsFlag ==
  /\ phase = "blocks" /\ ~MoreBlocks
  /\ phase' = "menu"
  /\ UNCHANGED << _activeJob, _isModified, source, loaded, cursor >>

FinishBlocks ==
  /\ phase = "blocks" /\ ~MoreBlocks
  /\ _isModified' = (_isModified \/ cursor.any)
  /\ phase' = "menu"
  /\ UNCHANGED << _activeJob, source, loaded, cursor >>

DoChangeJobName ==
  /\ phase = "menu"
  /\ \E newName \in Names : _activeJob' = SetJobName(_activeJob, newName)
  /\ _isModified' = TRUE
  /\ UNCHANGED << phase, source, loaded, cursor >>

\* Confirmed by the operator; a reload that fails changes nothing.
DoDiscardChanges ==
  /\ phase = "menu" /\ _isModified
  /\ ReloadActiveJob
  /\ _isModified' = FALSE
  /\ UNCHANGED << phase, source, cursor >>

\* The output path may be that of the source file.  An exception of the writer
\* leads back to the menu.
DoSaveAndExit ==
  /\ phase = "menu"
  /\ \E ontoSource, fails \in BOOLEAN :
       /\ source' = IF ~ontoSource THEN source ELSE IF fails THEN Null ELSE _activeJob
       /\ phase' = IF fails THEN "menu" ELSE "saved"
  /\ UNCHANGED << _activeJob, _isModified, loaded, cursor >>

\* With unsaved changes the operator has confirmed it.
DoQuitWithoutSaving ==
  /\ phase = "menu"
  /\ phase' = "quit"
  /\ UNCHANGED << _activeJob, _isModified, source, loaded, cursor >>

Ended == phase \in {"saved", "quit", "fatal"} /\ UNCHANGED vars

Next == \/ LoadJob \/ DoApplyParametersToRange \/ DoApplyByVectorType
        \/ DoVectorBlockEditing \/ SkipBlock \/ EditBlock \/ EditBlockThrows
        \/ FinishBlocks \/ DoChangeJobName \/ DoDiscardChanges \/ DoSaveAndExit
        \/ DoQuitWithoutSaving \/ Ended

Spec == Init /\ [][Next]_vars
-----------------------------------------------------------------------------
\* A session that has loaded its job.
Editing == phase \in {"menu", "blocks", "saved", "quit"}

\* Whatever the sequence of edits, reloads and refused answers, the key of every
\* block names a set of the map, or is the key the block had in the file: the
\* editor never makes a job that PrintController::prepareLayer refuses out of one
\* that it accepts.
KeysResolve ==
  Editing => \A id \in BlockIds(_activeJob) :
    \/ DoesParamSetExist(_activeJob, BlockAt(_activeJob, id).key)
    \/ BlockAt(_activeJob, id).key = BlockAt(loaded, id).key

\* The sets of the file keep their keys and values, also when new keys wrap
\* around: an edit of one layer changes the parameters of no other
\* (FindOrCreateParameterSetKey).
FileSetsKept ==
  Editing => \A k \in DOMAIN loaded.params :
    DoesParamSetExist(_activeJob, k) /\ _activeJob.params[k] = loaded.params[k]

\* Closeness is not transitive, and sets are created one at a time: still no new
\* set is within the tolerance of another one, old or new, as long as its values
\* are numbers (DoParamsMatch).
NoNewDuplicates ==
  Editing => \A k, other \in DOMAIN _activeJob.params :
    LET a == _activeJob.params[k]
        b == _activeJob.params[other]
    IN  /\ k # other /\ NaN \notin {a.power, a.speed, b.power, b.speed}
        /\ a.power - b.power \in 1 - Tolerance .. Tolerance - 1
        /\ a.speed - b.speed \in 1 - Tolerance .. Tolerance - 1
        => {k, other} \subseteq DOMAIN loaded.params

\* No key is left: the largest int is taken and so is its successor.
KeysExhausted == {IntMin, IntMax} \subseteq DOMAIN _activeJob.params

\* A session that shows "Unchanged", and lets the operator quit unasked, has
\* changed no block and not the name since the last load, unless the keys of the
\* map are exhausted (_isModified).
UnmodifiedMeansNoEdit ==
  phase \in {"menu", "quit"} /\ ~_isModified /\ ~KeysExhausted =>
    _activeJob.layers = loaded.layers /\ _activeJob.name = loaded.name

\* "No changes to discard.": without the modified flag the job is the one that was
\* loaded (DoDiscardChanges).
UnmodifiedMeansUnchanged ==
  phase = "menu" /\ ~_isModified => _activeJob = loaded
-----------------------------------------------------------------------------
(* The session implements EditSession.                                     *)

\* The parameters the key of a block stands for; Null if it names no set.
Resolved(job, key) == IF DoesParamSetExist(job, key) THEN job.params[key] ELSE Null

ExposureOf(job) ==
  [id \in {<< id[1], id[2], BlockAt(job, id).area >> : id \in BlockIds(job)} |->
     Resolved(job, BlockAt(job, id).key)]

SessionState ==
  IF phase = "start" THEN "starting"
  ELSE IF phase \in {"menu", "blocks"} THEN "open" ELSE "ended"

Session == INSTANCE EditSession
  WITH Missing <- Null, NoJob <- Null, state <- SessionState,
       exposure <- IF _activeJob = Null THEN Null ELSE ExposureOf(_activeJob),
       name <- IF _activeJob = Null THEN Null ELSE _activeJob.name,
       file <- IF source = Null THEN [exposure |-> Null, name |-> Null]
               ELSE [exposure |-> ExposureOf(source), name |-> source.name]

\* Only the blocks that were selected get other parameters, all of them the same
\* ones, whatever keys are found, created, wrapped or left over; the exception is a
\* block whose key names no set, which a new set may capture
\* (FindOrCreateParameterSetKey, SetMarkingParamsKey).
ImplementsEditSession == Session!Spec
=============================================================================
