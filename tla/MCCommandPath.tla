--------------------------- MODULE MCCommandPath ---------------------------
(* Instances of CommandPath for TLC. *)
EXTENDS CommandPath

\* The fridge's labels are numbers, too, and not those of the wire.  One of its
\* fields is a Range, which has no options.
Fridge == {[name |-> "SetControl", cmd |-> TRUE, cmdOpt |-> "Set",
            fields |-> {[field |-> "temp", wire |-> "RETM",
                         options |-> [v \in {"1", "2"} |->
                                        IF v = "1" THEN "2" ELSE "1"]],
                        [field |-> "level", wire |-> "LVL",
                         options |-> <<>>]}]}

\* The washer has buttons, and an action without a Cmd.
Washer == {[name |-> "OperationStart", cmd |-> TRUE, cmdOpt |-> "Operation",
            fields |-> {}],
           [name |-> "CourseDownload", cmd |-> FALSE, cmdOpt |-> "Set",
            fields |-> {}]}

MCModels == {Fridge, Washer}
=============================================================================
