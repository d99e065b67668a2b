------------------------- MODULE MCHttpServerSetup -------------------------
(* Instance of HttpServerSetup for TLC. The settings and the modules of a  *)
(* file do not touch each other, so each is varied on its own: every       *)
(* combination of the settings with one handler, and every combination of  *)
(* what two paths may find, one of them also the path of a built-in.       *)
EXTENDS HttpServerSetup

MCPaths == {"/Echo", "/a"}
MCBuiltInPaths == {"/Echo"}

Absent == [kind |-> "absent", value |-> 0]
Number(n) == [kind |-> "number", value |-> n]
Garbled == [kind |-> "garbled", value |-> 0]

Plain ==
  [given |-> TRUE, readable |-> TRUE, server |-> TRUE, threading |-> "absent",
   kernel |-> FALSE, keepAlive |-> FALSE, builtIns |-> FALSE, tls |-> "off",
   number |-> [s \in NumberSettings |-> Absent],
   modules |-> [p \in MCPaths |-> IF p = "/a" THEN "good" ELSE "absent"]]

SettingsConfigs ==
  {[Plain EXCEPT !.threading = t, !.kernel = k, !.keepAlive = TRUE, !.tls = l] :
     t \in {"absent", "pthreads", "c++11", "gcd_libdispatch", "none"},
     k \in BOOLEAN, l \in {"off", "bad", "good"}}

NumberConfigs ==
  {[Plain EXCEPT !.number = [n \in NumberSettings |-> IF n = s THEN v ELSE Number(7)],
                 !.threading = t] :
     s \in NumberSettings, v \in {Absent, Garbled, Number(0), Number(-3)},
     t \in {"absent", "none"}}

ModuleConfigs ==
  {[Plain EXCEPT !.modules = m, !.builtIns = b, !.server = v] :
     m \in [MCPaths -> Modules], b \in BOOLEAN, v \in BOOLEAN}

MCConfigs ==
  SettingsConfigs \cup NumberConfigs \cup ModuleConfigs \cup
  {[Plain EXCEPT !.given = FALSE], [Plain EXCEPT !.readable = FALSE]}

=============================================================================
