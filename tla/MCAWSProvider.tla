---------------------------- MODULE MCAWSProvider ----------------------------
(* Two operators in a directory each, on one machine; or one of them.        *)
EXTENDS AWSProvider, TLC

CONSTANTS p1, p2

MCBoth == {p1, p2}
MCOne  == {p1}

Symmetry == Permutations(MCBoth)

\* Each process has a directory of its own.
MCDirOf     == [p \in Processes |-> p]

MCAddresses == [p \in Processes |-> "203.0.113.7"]

\* A group that lacks a rule, and one that has all of them.
MCFoundRules ==
  { {<<"vpc", "all">>, <<"203.0.113.7", "ssh">>},
    {<<"vpc", "all">>} \cup ({"203.0.113.7"} \X {"winrm", "ssh", "rdp"}) }
=============================================================================
