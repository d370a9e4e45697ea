----------------------------- MODULE MCWafLoop -----------------------------
(***************************************************************************)
(* WafLoop for TLC: an attacker whom waf.tf stops, with a comma in a       *)
(* scanner's agent and a long junk header; and one with another agent, who *)
(* forges the same header in another way: a chain of addresses, whose line *)
(* in the table the page misreads and whose quotes in the file it does not *)
(* understand.                                                             *)
(***************************************************************************)
EXTENDS WafLoop

Header(name, value) == [name |-> name, value |-> value]

From(path, agent, others) ==
    [path |-> path, headers |-> <<Header("user-agent", agent)>> \o others]

Chain == <<"10.0.0.1", ",", "8.8.8.8", ",", "8.8.8.8", ",", "8.8.8.8", ",", "8.8.8.8", ",", "8.8.8.8">>

\* All positions are asked for.
MCRequest ==
    { From("/v1/user", <<"wpscan", ",", "y">>,
           <<Header("x-evil", <<"xxxxxxxx">> \o [n \in 1 .. 11 |-> "x"]),
             Header("x-forwarded-for", <<"127.0.0.1">>)>>),
      From("/v1/user/x", <<"zgrab", "x">>, <<Header("x-forwarded-for", Chain)>>) }

=============================================================================
