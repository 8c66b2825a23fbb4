---------------------------- MODULE KubeletCommand ----------------------------
(***************************************************************************)
(* How configure-cni edits the command line of the kubelet service:        *)
(* updateKubeletArgs of pkg/bootstrapper/bootstrapper.go, which takes the  *)
(* line apart into a map, changes the map and puts a line together again.  *)
(*                                                                         *)
(* A command line is the sequence of its words, split at single spaces, as *)
(* strings.Split gives them; a word is the sequence of its pieces, split   *)
(* at "=".  So a word of one piece is a switch (standalone argument), and  *)
(* two spaces in a row make an empty word.                                 *)
(***************************************************************************)
EXTENDS Naturals, Sequences, FiniteSets, TLC

LOCAL INSTANCE SequencesExt
LOCAL INSTANCE FiniteSetsExt

CONSTANTS
  Programs,  \* first words: the path of a kubelet.exe, or something else
  Kubelets,  \* those of Programs that contain "kubelet.exe"
  Words,     \* the words that may follow
  MaxWords,  \* how many of them do
  CNIArgs    \* what configure-cni sets, for each install directory

Empty == <<"">>

ASSUME CommandAssumption ==
  /\ Kubelets \subseteq Programs
  /\ MaxWords \in Nat
  /\ \A w \in Words \cup Programs : w \in Seq(STRING) /\ w # <<>>
  /\ \A args \in CNIArgs : \A option \in DOMAIN args : args[option] # <<>>

VARIABLE cmd  \* the registered command line

IsSwitch(word) == Len(word) = 1

-----------------------------------------------------------------------------
(* deconstructKubeletCmd *)

\* strings.TrimSpace: the empty words at both ends go.
TrimSpace(words) ==
  LET kept == {i \in DOMAIN words : words[i] # Empty}
  IN  IF kept = {} THEN <<>> ELSE SubSeq(words, Min(kept), Max(kept))

\* Defective variant: a value that contains "=" is cut there.
StoreCut(kv, word) ==
  IF IsSwitch(word)
    THEN [kv EXCEPT !.standalone = Append(@, word)]
    ELSE [kv EXCEPT !.options = (word[1] :> <<word[2]>>) @@ @]

\* The body of the loop over the words.  The value of an option is everything
\* after its first "=".
Store(kv, word) ==
  IF IsSwitch(word)
    THEN [kv EXCEPT !.standalone = Append(@, word)]
    ELSE [kv EXCEPT !.options = (word[1] :> Tail(word)) @@ @]

Deconstruct(line) ==
  LET kv == FoldLeft(Store, [exe |-> line[1], standalone |-> <<>>, options |-> <<>>], Tail(line))
  IN  [kv EXCEPT !.standalone = TrimSpace(@)]

-----------------------------------------------------------------------------
(* reconstructKubeletCmd *)

\* Defective variant: the space after the last standalone argument stays.
StandaloneUntrimmed(kv) == Append(kv.standalone, Empty)

\* The standalone arguments between the two spaces that the code puts there,
\* be there any or not.
Standalone(kv) == IF kv.standalone = <<>> THEN <<Empty>> ELSE kv.standalone

\* The line for one order in which Go may range over the map.
Reconstruct(kv, order) ==
  TrimSpace(<<kv.exe>> \o Standalone(kv)
              \o [i \in DOMAIN order |-> <<order[i]>> \o kv.options[order[i]]])

-----------------------------------------------------------------------------
(* updateKubeletArgs *)

Init ==
  \E program \in Programs, n \in 0..MaxWords :
    \E words \in [1..n -> Words] : cmd = <<program>> \o words

\* Defective variant: the CNI options are appended, not replaced.
AppendKubeletArgs(args) ==
  /\ cmd[1] \in Kubelets
  /\ Len(cmd) < MaxWords + 4
  /\ \E order \in SetToSeqs(DOMAIN args) :
       cmd' = cmd \o [i \in DOMAIN order |-> <<order[i]>> \o args[order[i]]]

\* The line that is not a kubelet's is refused.
UpdateKubeletArgs(args) ==
  /\ cmd[1] \in Kubelets
  /\ LET kv == [Deconstruct(cmd) EXCEPT !.options = args @@ @]
     IN  \E order \in SetToSeqs(DOMAIN kv.options) : cmd' = Reconstruct(kv, order)

Next == \E args \in CNIArgs : UpdateKubeletArgs(args)

Spec == Init /\ [][Next]_cmd

-----------------------------------------------------------------------------
(* What the kubelet makes of a command line *)

OptionWords(line) == {i \in 2..Len(line) : ~IsSwitch(line[i])}

\* Of an option that is given twice the kubelet takes the last value.
Options(line) ==
  [option \in {line[i][1] : i \in OptionWords(line)} |->
     Tail(line[Max({i \in OptionWords(line) : line[i][1] = option})])]

\* Windows skips the spaces between arguments, however many there are.
Switches(line) ==
  SelectSeq(Tail(line), LAMBDA word : IsSwitch(word) /\ word # Empty)

Promise ==
  INSTANCE KubeletOptions WITH
    options  <- Options(cmd),
    switches <- Switches(cmd),
    Settings <- CNIArgs

\* Taking the line apart, changing the map and putting a line together in any
\* order changes what the kubelet sees by the CNI options and nothing else.
ImplementsKubeletOptions == Promise!Spec

\* The line never gets longer by anything but the CNI options it lacked and the
\* second space of a line without switches, however often configure-cni runs.
OnlyGrowsByCNI ==
  [][\E args \in CNIArgs :
       Len(cmd') =< Len(cmd) + Cardinality(DOMAIN args \ DOMAIN Options(cmd))
                      + (IF Switches(cmd) = <<>> THEN 1 ELSE 0)]_cmd

\* The line that is registered is one that configure-cni can edit again: it
\* starts with the program, gives no option twice, and the CNI options have the
\* values of one install directory.
StaysEditable ==
  [][/\ cmd'[1] = cmd[1]
     /\ \A i, j \in OptionWords(cmd') : cmd'[i][1] = cmd'[j][1] => i = j
     /\ \E args \in CNIArgs :
          \A option \in DOMAIN args : Options(cmd')[option] = args[option]]_cmd
=============================================================================
