---------------------------- MODULE MCDashboard ----------------------------
(***************************************************************************)
(* Instances of Dashboard for TLC: what two browsers ask for.              *)
(***************************************************************************)
EXTENDS Dashboard, TLC

Mix(p, k, e) == [pages |-> p, keys |-> k, entered |-> e]
Both == {"session", "csrf"}
MCMixes == {
    Mix({"loginPage"}, {}, FALSE),
    Mix({"loginPage", "login"}, Both, FALSE),
    Mix({"login", "logout"}, {"csrf"}, FALSE),
    Mix({"home", "zero"}, Both, TRUE),
    Mix({"home", "zeroKey"}, Both, TRUE),
    Mix({"pair", "newCode"}, Both, TRUE),
    Mix({"shell", "rotate"}, {}, FALSE)}
=============================================================================
