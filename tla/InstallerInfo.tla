---------------------------- MODULE InstallerInfo ----------------------------
(***************************************************************************)
(* The contents of windows-node-installer.json and what the functions of   *)
(* tools/windows-node-installer/pkg/resource/tracker.go make of them.      *)
(*                                                                         *)
(* The file is Absent, Unparsable, or a record of two sequences of         *)
(* identifiers.  Identifiers are numbers, to have an order; the empty      *)
(* string, which comes first, is Blank.                                    *)
(***************************************************************************)
EXTENDS Naturals, Sequences, FiniteSets

CONSTANTS Absent, Unparsable

Blank  == 0
Failed == [ok |-> FALSE, info |-> <<>>]

Info(ids, sgs) == [instances |-> ids, groups |-> sgs]

Contents == [instances : Seq(Nat), groups : Seq(Nat)]

ASSUME ContentsAssumption ==
  Absent # Unparsable /\ Absent \notin Contents /\ Unparsable \notin Contents

Readable(file) == file \notin {Absent, Unparsable}

Elements(s) == {s[i] : i \in DOMAIN s}

\* What a file names, which is nothing if it cannot be read.
InstancesIn(file) == IF Readable(file) THEN Elements(file.instances) ELSE {}
GroupsIn(file)    == IF Readable(file) THEN Elements(file.groups) ELSE {}

-----------------------------------------------------------------------------
(* writeToInfo *)

\* sort.Strings, on a sequence in which nothing occurs twice.
Sort(s) ==
  [i \in DOMAIN s |-> CHOOSE x \in Elements(s) :
     Cardinality({y \in Elements(s) : y < x}) = i - 1]

\* Defective variant: after the identifier, if it is there.
SearchAfter(info, id) ==
  CHOOSE i \in 1..(Len(info) + 1) :
    /\ \A j \in 1..(i - 1) : info[j] <= id
    /\ i <= Len(info) => info[i] > id

\* sort.SearchStrings: where a sorted sequence has the identifier, or would.
SearchStrings(info, id) ==
  CHOOSE i \in 1..(Len(info) + 1) :
    /\ \A j \in 1..(i - 1) : info[j] < id
    /\ i <= Len(info) => info[i] >= id

\* One round of the loop: an identifier that is there cannot be added, one that
\* is not there cannot be removed, and Blank is passed over.
WriteOne(info, id, isAdd) ==
  LET index == SearchStrings(info, id)
      found == index <= Len(info) /\ info[index] = id
      rest  == SubSeq(info, IF isAdd THEN index ELSE index + 1, Len(info))
  IN  IF id = Blank THEN [ok |-> TRUE, info |-> info]
      ELSE IF isAdd = found THEN Failed
      ELSE [ok |-> TRUE, info |-> SubSeq(info, 1, index - 1)
                                    \o (IF isAdd THEN <<id>> ELSE <<>>) \o rest]

\* What each round of the loop leaves, from the sorted list on.
Rounds(info, ids, isAdd) ==
  LET round[n \in 0..Len(ids)] ==
        IF n = 0 THEN [ok |-> TRUE, info |-> Sort(info)]
        ELSE IF round[n - 1].ok THEN WriteOne(round[n - 1].info, ids[n], isAdd)
        ELSE Failed
  IN  round

WriteToInfo(info, ids, isAdd) == Rounds(info, ids, isAdd)[Len(ids)]

\* The outcome of writing both lists.
WriteBoth(past, ids, sgs, isAdd) ==
  LET i == WriteToInfo(past.instances, ids, isAdd)
      g == WriteToInfo(past.groups, sgs, isAdd)
  IN  [ok |-> i.ok /\ g.ok, file |-> Info(i.info, g.info)]

-----------------------------------------------------------------------------

\* AppendInstallerInfo: a file that cannot be read counts as none.
Appended(file, ids, sgs) ==
  IF Readable(file) THEN WriteBoth(file, ids, sgs, TRUE)
                    ELSE [ok |-> TRUE, file |-> Info(ids, sgs)]

\* Defective variant: the file stays when nothing is left in it.
RemovedOnly(file, ids, sgs) ==
  IF Readable(file) THEN WriteBoth(file, ids, sgs, FALSE)
                    ELSE [ok |-> FALSE, file |-> file]

\* RemoveInstallerInfo: the file goes when nothing is left in it.
Removed(file, ids, sgs) ==
  LET result == WriteBoth(file, ids, sgs, FALSE)
  IN  IF ~Readable(file) THEN [ok |-> FALSE, file |-> file]
      ELSE IF result.ok /\ result.file = Info(<<>>, <<>>) THEN [ok |-> TRUE, file |-> Absent]
      ELSE result
=============================================================================
