----------------------------- MODULE MCConsole -----------------------------
(***************************************************************************)
(* Console for TLC: two command lines next to the console, two calendars,  *)
(* and changes that meet no rule, one rule or two.                         *)
(***************************************************************************)
EXTENDS Console, TLC

CONSTANTS c1, c2, ui

Text(t) == [text |-> t, nl |-> TRUE]
MCContents == {Text("a"), Text("b")}
MCFirst == Text("a")
MCPath == [dirs |-> {"agents"}, dots |-> {}, stem |-> "system", ext |-> ".prompt"]

Change(kind, environment, approvers, risk, text) ==
    [kind |-> kind, environment |-> environment, approval |-> {}, approvers |-> approvers,
     risk |-> risk, before |-> {}, after |-> Text(text)]

(* A risky change outside production meets two rules, a data set nobody    *)
(* signed off for production none.                                         *)
MCEvents == {Change("prompt", "staging", 1, 9, "c"), Change("dataset", "prod", 0, 0, "d")}

(* Four commands that overlap or three of which one is killed, a console   *)
(* whose file is saved three times, and a little of both: what the console *)
(* seals and what commands seal beside it are two branches of the log.     *)
Budget(c, x, s, u) == [commands |-> c, crashes |-> x, saves |-> s, sessions |-> u]
MCBudgets ==
    {Budget(4, 0, 0, 0), Budget(3, 1, 0, 0), Budget(2, 0, 1, 1), Budget(1, 1, 1, 1),
     Budget(0, 1, 3, 2)}

Symmetric == Permutations({c1, c2})
=============================================================================
