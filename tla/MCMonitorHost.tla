---------------------------- MODULE MCMonitorHost ----------------------------
(* The calls of osnt-tool-cmd.py, and the clicks in the GUI, that are      *)
(* checked, with two rows of two columns.                                  *)
EXTENDS MonitorHost

FileA == [e \in Rows |-> IF e = 0 THEN "a" ELSE "b"]
FileB == [e \in Rows |-> IF e = 0 THEN "b" ELSE "ones"]     \* has no row 1
TwoColumns == <<"ip", "ports">>

OneProgram(steps) == [p \in Programs |-> IF p = "load" THEN <<>> ELSE steps]

(* One call after another: filters loaded, replaced and cleared, and       *)
(* statistics shown.  In the GUI: two filters, one after the other.        *)
OneAfterAnother == {
  OneProgram(InitMCli \o load_rule(FileA) \o InitMCli \o load_rule(FileB) \o cli_display_stats),
  OneProgram(InitMCli \o load_rule(FileA) \o cli_display_stats \o InitMCli \o set_clear
               \o InitMCli \o load_rule(FileB) \o cli_display_stats \o cli_display_stats),
  OneProgram(InitMCli \o OnConfigFilter(FileA) \o OnConfigFilter(FileB))}

(* A window that is open refreshes its statistics while a call loads a     *)
(* filter.  The call starts as every call does, and reads them too.        *)
LoadWhileDisplaying == {
  [p \in Programs |-> IF p = "display" THEN cli_display_stats \o cli_display_stats
                                       ELSE InitMCli \o load_rule(FileA)]}
TwoPrograms == {"display", "load"}

AllScripts == OneAfterAnother \cup LoadWhileDisplaying

ASSUME MCReadsFrozen == \A s \in AllScripts : ReadsFrozen(s)
ASSUME MCStartsAgain == \A s \in AllScripts : NeverResets(s) \/ StartsAfterResets(s)
ASSUME MCLoadsFilter == \A s \in AllScripts : LoadsFilter(s) /\ SparesRules(s)

(* A filter loaded, and then the statistics shown (-st).                   *)
LoadThenShow == {OneProgram(InitMCli \o load_rule(FileA) \o InitMCli \o cli_display_stats)}

(* The GUI's display, with Reset Stats between two refreshes.              *)
ResetBetweenRefreshes == {OneProgram(InitMCli \o cli_display_stats \o reset \o cli_display_stats)}
=============================================================================
