------------------------------- MODULE Corpus -------------------------------
(***************************************************************************)
(* sftdpo.task.dataset: the stratified draw of a corpus whose splits share *)
(* no note, the directory it is saved to file by file, and the load that   *)
(* checks the directory against its manifest.  What a cell's stream yields *)
(* is any note of its slice, the hash is taken to be injective.            *)
(***************************************************************************)
EXTENDS Naturals, FiniteSets, SequencesExt

CONSTANTS Slices,        \* the slices in their order, a sequence
          Notes(_),      \* the notes a slice's generator may produce
          Sizes,         \* the split sizes that may be asked for
          Attempts,      \* _MAX_DRAW_ATTEMPTS
          MaxBuilds      \* bound: corpora built in a behaviour

SplitNames == <<"train", "val", "test">>
Splits == ToSet(SplitNames)

ASSUME CorpusAssumption == /\ Slices \in Seq(ToSet(Slices)) \ {<<>>} /\ IsInjective(Slices)
                           /\ Attempts \in Nat \ {0}
                           /\ Sizes \subseteq [Splits -> Nat]

VARIABLES
    builds,    \* how many were begun
    activity,  \* "idle", "draw", "save"
    sizes,     \* the sizes of the corpus being built
    columns,   \* the examples drawn so far, per split
    seen,      \* the notes drawn so far, of the whole corpus
    attempt,   \* draws spent on the next cell
    files,     \* the directory: [state, rows] per file
    unsaved,   \* the files still to be written
    loaded     \* what the last load came to

corpusVars == <<builds, activity, sizes, columns, seen, attempt, files, unsaved, loaded>>

Files == Append(SplitNames, "manifest")
Empty == [s \in Splits |-> <<>>]

CorpusInit ==
    /\ builds = 0 /\ activity = "idle" /\ sizes \in Sizes /\ columns = Empty /\ seen = {}
    /\ attempt = 0 /\ unsaved = <<>> /\ loaded = [outcome |-> "none"]
    /\ files = [f \in ToSet(Files) |-> [state |-> "missing"]]

-----------------------------------------------------------------------------
(* build_dataset.                                                          *)

\* _allocate: as even as can be, the remainder to the earliest buckets.
Allocate(total, bucket) ==
    total \div Len(Slices) + IF bucket <= total % Len(Slices) THEN 1 ELSE 0

\* The cells of a split in the order they are drawn.
CellsOf(split) ==
    FlattenSeq([b \in DOMAIN Slices |->
                   [i \in 1..Allocate(sizes[split], b) |-> [slice |-> Slices[b], index |-> i]]])

\* The places in the order of the splits that lack an example; the first is filled.
Unfinished == {n \in DOMAIN SplitNames : Len(columns[SplitNames[n]]) < Len(CellsOf(SplitNames[n]))}
Here == SplitNames[Min(Unfinished)]
Cell == CellsOf(Here)[Len(columns[Here]) + 1]

Build ==
    /\ activity = "idle" /\ builds < MaxBuilds
    /\ sizes' \in Sizes
    /\ builds' = builds + 1 /\ activity' = "draw"
    /\ columns' = Empty /\ seen' = {} /\ attempt' = 0
    /\ UNCHANGED <<files, unsaved, loaded>>

\* Fault: each split has its own record of the notes.
TakenInSplit == {x.note : x \in ToSet(columns[Here])}
Taken == seen

\* One pass of _draw_unique's loop: the note of this attempt, unless the corpus has it.
DrawUnique ==
    /\ activity = "draw" /\ Unfinished # {} /\ attempt < Attempts
    /\ \E note \in Notes(Cell.slice) :
          IF note \in Taken
          THEN attempt' = attempt + 1 /\ UNCHANGED <<columns, seen>>
          ELSE /\ columns' = [columns EXCEPT ![Here] =
                                 Append(@, [slice |-> Cell.slice, index |-> Cell.index,
                                            note |-> note])]
               /\ seen' = seen \cup {note} /\ attempt' = 0
    /\ UNCHANGED <<builds, activity, sizes, files, unsaved, loaded>>

\* RuntimeError: every attempt collided; nothing is written.
DrawFails ==
    /\ activity = "draw" /\ Unfinished # {} /\ attempt = Attempts
    /\ activity' = "idle"
    /\ UNCHANGED <<builds, sizes, columns, seen, attempt, files, unsaved, loaded>>

-----------------------------------------------------------------------------
(* Dataset.save and Dataset.load.                                          *)

BeginSave ==
    /\ activity = "draw" /\ Unfinished = {}
    /\ activity' = "save" /\ unsaved' = Files
    /\ UNCHANGED <<builds, sizes, columns, seen, attempt, files, loaded>>

Content(file) == IF file = "manifest" THEN columns ELSE columns[file]

\* write_text truncates the file before it fills it.
OpenNext ==
    /\ activity = "save" /\ unsaved # <<>> /\ files[Head(unsaved)].state # "torn"
    /\ files' = [files EXCEPT ![Head(unsaved)] =
                    [state |-> "torn", rows |-> Content(Head(unsaved))]]
    /\ UNCHANGED <<builds, activity, sizes, columns, seen, attempt, unsaved, loaded>>

WriteNext ==
    /\ activity = "save" /\ unsaved # <<>> /\ files[Head(unsaved)].state = "torn"
    /\ files' = [files EXCEPT ![Head(unsaved)] =
                    [state |-> "whole", rows |-> Content(Head(unsaved))]]
    /\ unsaved' = Tail(unsaved)
    /\ activity' = IF Tail(unsaved) = <<>> THEN "idle" ELSE "save"
    /\ UNCHANGED <<builds, sizes, columns, seen, attempt, loaded>>

KillBuild ==
    /\ activity # "idle"
    /\ activity' = "idle" /\ unsaved' = <<>>
    /\ UNCHANGED <<builds, sizes, columns, seen, attempt, files, loaded>>

\* content_hash covers every example of every split in order.
Matches(held, recorded) == held = recorded

\* _read_jsonl: what a split file may read as; a torn one may end between two lines.
Readings(file) ==
    IF file.state = "torn" THEN {SubSeq(file.rows, 1, n) : n \in 0..Len(file.rows)}
    ELSE {file.rows}

\* A missing file, a torn manifest, a torn line or another hash refuse the directory.
Load ==
    /\ activity = "idle" /\ loaded.outcome = "none"
    /\ \/ /\ \E f \in DOMAIN files : files[f].state # "whole"
          /\ loaded' = [outcome |-> "refused"]
       \/ /\ files["manifest"].state = "whole"
          /\ \A s \in Splits : files[s].state # "missing"
          /\ \E train \in Readings(files["train"]), val \in Readings(files["val"]),
                test \in Readings(files["test"]) :
                LET held == [s \in Splits |-> CASE s = "train" -> train [] s = "val" -> val
                                                [] OTHER -> test]
                IN  loaded' = IF Matches(held, files["manifest"].rows)
                              THEN [outcome |-> "corpus", columns |-> held]
                              ELSE [outcome |-> "refused"]
    /\ UNCHANGED <<builds, activity, sizes, columns, seen, attempt, files, unsaved>>

CorpusNext == \/ Build \/ DrawUnique \/ DrawFails \/ BeginSave \/ OpenNext \/ WriteNext
              \/ KillBuild \/ Load

CorpusSpec == CorpusInit /\ [][CorpusNext]_corpusVars

-----------------------------------------------------------------------------

\* A corpus that loads is one that was built: no note is in two cells of it, so none is
\* in two splits, and its splits have the slices in the stated proportions, even when a
\* later build into the same directory was cut off between any two of its writes.
CorpusIsSound ==
    loaded.outcome = "corpus" =>
        /\ \A s, t \in Splits : \A i \in DOMAIN loaded.columns[s], j \in DOMAIN loaded.columns[t] :
              loaded.columns[s][i].note = loaded.columns[t][j].note => s = t /\ i = j
        /\ \E asked \in Sizes : \A s \in Splits :
              /\ Len(loaded.columns[s]) = asked[s]
              /\ \A a, b \in ToSet(Slices) :
                    LET of(slice) == Cardinality({i \in DOMAIN loaded.columns[s] :
                                                     loaded.columns[s][i].slice = slice})
                    IN  of(a) <= of(b) + 1
=============================================================================
