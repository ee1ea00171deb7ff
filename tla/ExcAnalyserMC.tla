----------------------------- MODULE ExcAnalyserMC ----------------------------
(* Instances of ExcAnalyser for TLC. *)
EXTENDS ExcAnalyser

(* Every name of the string table is different, as T_AppExcAnalyser asks.   *)
OwnNames == [m \in Module |-> m]
(* A string table that gives two modules one name.                          *)
SameName == [OwnNames EXCEPT !["exc"] = "deadlock"]
AllNames == {OwnNames, SameName}

(* Backtraces matter to dead locks only, overflows to exceptions only.      *)
AllInput ==
    {r \in Record : /\ r.errtype # "deadlock" => r.btfunc = <<>>
                    /\ r.errtype # "exc" => ~r.taskover /\ ~r.jobover}
=============================================================================
