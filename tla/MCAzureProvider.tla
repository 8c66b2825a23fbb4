--------------------------- MODULE MCAzureProvider ---------------------------
(* Two operators with an address each; or one of them.                       *)
EXTENDS AzureProvider

CONSTANTS p1, p2

MCBoth == {p1, p2}
MCOne  == {p1}

MCAddresses == [p \in Processes |-> p]

\* Everything made by wni, or on a NIC or an address of the operator's own.
MCOwn   == {{}}
MCFlags == {{}, {"nic"}, {"ip"}, {"nic", "ip"}}

\* No rules; or those of an operator on another machine.
MCFoundRules ==
  {NoRules, [r \in RuleNames |-> IF r = "vnet" THEN {"10.0.0.0/16"} ELSE {"203.0.113.9"}]}
=============================================================================
