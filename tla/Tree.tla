-------------------------------- MODULE Tree --------------------------------
(***************************************************************************)
(* The file view's list: a row for each directory and file, the folded     *)
(* directories shut (crates/tui/src/app/state.rs).                         *)
(*                                                                         *)
(* A directory that holds nothing but one directory is joined into it and  *)
(* has no row; that is a fact about the files, whatever is folded.         *)
(***************************************************************************)
EXTENDS Naturals, Sequences, FiniteSetsExt, SequencesExt

CONSTANT Path  \* each file's path, a sequence of names; 1 .. n in path order

DirsOf(path) == [d \in 1 .. Len(path) - 1 |-> SubSeq(path, 1, d)]

Dirs == UNION {ToSet(DirsOf(Path[f])) : f \in DOMAIN Path}

\* `joins_its_child`
JoinsItsChild(dir) ==
  /\ ~ \E f \in DOMAIN Path : Front(Path[f]) = dir
  /\ Cardinality({d \in Dirs : Len(d) = Len(dir) + 1 /\ IsPrefix(dir, d)}) = 1

\* Is anything above it folded?
Hidden(path, folded) == \E dir \in ToSet(DirsOf(path)) : dir \in folded

\* `TreeEntry`: the path the row is keyed by, and the file if it is one.
NoFile == 0

\* `build_tree`: the directories a file enters, each once, and then the file.
TreeRows(folded) ==
  LET Entered(f) ==
        SelectSeq(DirsOf(Path[f]),
                  LAMBDA d : ~JoinsItsChild(d) /\ ~ \E g \in 1 .. f - 1 : IsPrefix(d, Path[g]))
      RowsFor(f) ==
        [n \in DOMAIN Entered(f) |-> [path |-> Entered(f)[n], file |-> NoFile]]
        \o <<[path |-> Path[f], file |-> f]>>
      upto[f \in 0 .. Len(Path)] == IF f = 0 THEN <<>> ELSE upto[f - 1] \o RowsFor(f)
  IN  SelectSeq(upto[Len(Path)], LAMBDA row : ~Hidden(row.path, folded))

\* `files_under`: in path order.
FilesUnder(row) ==
  IF row.file # NoFile THEN {row.file}
  ELSE {f \in DOMAIN Path : IsStrictPrefix(row.path, Path[f])}

\* `joined_row_covers`: the row stands for the directories joined into it.
Covers(path, dir) ==
  /\ IsPrefix(dir, path)
  /\ \A d \in Dirs : IsPrefix(dir, d) /\ IsStrictPrefix(d, path) => JoinsItsChild(d)

\* `reveal_path`: every directory above it is opened ...
Revealed(path, folded) == folded \ ToSet(DirsOf(path))

\* ... and its row found.
RowOfPath(rows, path) ==
  {n \in DOMAIN rows : rows[n].path = path \/ (rows[n].file = NoFile /\ Covers(rows[n].path, path))}

=============================================================================
