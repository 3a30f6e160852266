----------------------------- MODULE MCPipeline -----------------------------
(* Small instances of Pipeline for TLC. *)
EXTENDS Pipeline

Cmd(class, in, out) == [class |-> class, in |-> in, out |-> out]
Program == Cmd("program", "pipe", "pipe")
Builtin == Cmd("builtin", "pipe", "pipe")

MCPipelines == {
    <<Cmd("program", "heredoc", "pipe")>>,
    <<Program, Program, Program>>,
    <<Program, Builtin, Cmd("program", "heredoc", "pipe")>>,
    <<Cmd("program", "heredoc", "pipe"), Cmd("program", "file", "file"), Program>>,
    <<Program, Cmd("missing", "pipe", "pipe"), Cmd("null", "pipe", "pipe")>>,
    <<Program, Cmd("program", "absent", "pipe"), Cmd("denied", "pipe", "file")>> }

MCOutcomes == {0, 3}
MCFaults   == {"pipe", "fork"}
=============================================================================
