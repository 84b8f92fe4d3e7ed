------------------------------ MODULE FileTree ------------------------------
(***************************************************************************)
(* What the file system promises, whatever blocks it uses: a tree of       *)
(* directories and files.  Every step is one call; a write may be short.   *)
(***************************************************************************)
EXTENDS Integers, Sequences, FiniteSetsExt, TLC

CONSTANTS
  Start,   \* the tree that mkfs was asked for
  Data     \* the cells that calls write, in order

VARIABLE tree

File(data) == [type |-> "file", data |-> data]
Dir(i, parent) == [type |-> "dir", ents |-> (<<".">> :> i) @@ (<<".", ".">> :> parent)]

Dirs(t) == {i \in DOMAIN t : t[i].type = "dir"}
Files(t) == DOMAIN t \ Dirs(t)
Enter(t, dir, name, i) == [t EXCEPT ![dir].ents = (name :> i) @@ @]
Remove(t, dir, name) ==
  [t EXCEPT ![dir].ents = [m \in DOMAIN @ \ {name} |-> @[m]]]

(* The places that name i, other than "." and "..".                        *)
Dots == {<<".">>, <<".", ".">>}
Names(t, i) == {p \in UNION {{<<dir, m>> : m \in DOMAIN t[dir].ents \ Dots} : dir \in Dirs(t)} :
                  t[p[1]].ents[p[2]] = i}

NewName(o, n, dir) == DOMAIN n[dir].ents \ DOMAIN o[dir].ents

Created(o, n) ==
  \E i \in DOMAIN n \ DOMAIN o, dir \in Dirs(o) :
    \E name \in NewName(o, n, dir) :
      \/ n = (i :> File(<<>>)) @@ Enter(o, dir, name, i)
      \/ n = (i :> Dir(i, dir)) @@ Enter(o, dir, name, i)

Linked(o, n) ==
  /\ DOMAIN n = DOMAIN o
  /\ \E i \in Files(o), dir \in Dirs(o) :
       \E name \in NewName(o, n, dir) : n = Enter(o, dir, name, i)

(* k cells of Data at off; the last of them may lie past the end that the  *)
(* file then has, if the address of the data turned out to be bad.         *)
Overlay(data, off, k) ==
  [j \in 1 .. Max({Len(data), off + k}) |-> IF j - off \in 1 .. k THEN Data[j - off] ELSE data[j]]

Written(o, n) ==
  \E i \in Files(o) : \E off \in 0 .. Len(o[i].data), k, tot \in 0 .. Len(Data) :
    /\ tot <= k
    /\ n = [o EXCEPT ![i].data = SubSeq(Overlay(@, off, k), 1, Max({Len(@), off + tot}))]

Truncated(o, n) == \E i \in Files(o) : n = [o EXCEPT ![i].data = <<>>]

(* A file goes with its last name; a directory that is somebody's current  *)
(* directory stays, without a name, until it is left.                      *)
Removed(o, n) ==
  \E dir \in Dirs(o) : \E name \in DOMAIN o[dir].ents \ Dots :
    LET i == o[dir].ents[name]
        t == Remove(o, dir, name)
    IN /\ n = [j \in DOMAIN n |-> t[j]]
       /\ DOMAIN n \in {DOMAIN o, DOMAIN o \ {i}}
       /\ i \notin DOMAIN n => Names(t, i) = {}
       /\ i \in Files(o) /\ Names(t, i) = {} => i \notin DOMAIN n

Left(o, n) ==
  \E i \in Dirs(o) : Names(o, i) = {} /\ n = [j \in DOMAIN o \ {i} |-> o[j]]

Init == tree = Start

Next ==
  \E o \in {tree}, n \in {tree'} :
    /\ o # n
    /\ \/ Created(o, n) \/ Linked(o, n) \/ Written(o, n) \/ Truncated(o, n)
       \/ Removed(o, n) \/ Left(o, n)

Spec == Init /\ [][Next]_tree
=============================================================================
