-------------------------- MODULE MCProductConsole --------------------------
(***************************************************************************)
(* Small instances of the console: a fresh default out/, a LAB prove out   *)
(* and a client's.                                                         *)
(***************************************************************************)
EXTENDS ProductConsole, TLC

CONSTANTS t1, t2, fresh, lab, client

Summaries == fresh :> "none" @@ lab :> "LAB" @@ client :> "CLIENT"

(* Threads that refresh and read while nobody switches; one client that    *)
(* switches too; and those that the console does not answer for.           *)
Refreshers == [threads |-> {t1, t2}, ops |-> {"refresh", "read"}]
OneClient  == [threads |-> {t1}, ops |-> {"refresh", "select", "read"}]
Steady     == {Refreshers, OneClient}
ByOneClient == {OneClient}
SwitchDuringRefresh == {[threads |-> {t1, t2}, ops |-> {"refresh", "select"}]}
TwoSwitches         == {[threads |-> {t1, t2}, ops |-> {"select"}]}
=============================================================================
