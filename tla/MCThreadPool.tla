---------------------------- MODULE MCThreadPool ----------------------------
(* Values for the constants of ThreadPool that a cfg cannot express.        *)
EXTENDS ThreadPool, TLC

CONSTANTS a, b, c, d

\* A schema with two tables, whose process_data adds b and c, and a schema
\* without.
MCParent   == a :> None @@ b :> a @@ c :> a @@ d :> None
MCPriority == a :> 3 @@ b :> 3 @@ c :> 3 @@ d :> 4

MCUse(tasks, style, hasFlag, faults) ==
    [tasks |-> tasks, style |-> style, hasFlag |-> hasFlag, faults |-> faults]

MCUses == {
    \* Dump_info::rescan_metadata()
    MCUse({a, b, c, d}, "sync", FALSE, {"produce", "process", "owner"}),
    \* binlog dumper and loader, execute_view_ddl_tasks()
    MCUse({a, d}, "sync", TRUE, {"produce", "terminate", "external", "owner"}),
    \* Dump_loader::execute_*_ddl_tasks(), and one whose owner throws
    MCUse({a, d}, "results", FALSE, {"produce", "terminate"}),
    MCUse({a, d}, "results", FALSE, {"owner"}),
    \* Worker_pool::wait()
    MCUse({a, d}, "state", TRUE, {"produce", "process", "external"}) }
============================================================================
