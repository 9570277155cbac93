---------------------------- MODULE MCDumperTasks ----------------------------
(* Instances of DumperTasks for TLC. *)
EXTENDS DumperTasks

\* ^C at any point once do_run() has cleared the flag, except while the worker
\* threads are being created.
Running == {"lock", "init", "prepare", "tasks", "maybe", "join", "finalize",
            "rethrow", "cleanup", "final"}

\* Every place of the workers that may throw, and those of the main thread
\* that come before it has pushed a task or after it has joined the workers.
AllFailures == {"high", "validate", "chunk", "data", "finish", "sum",
                "lock", "init", "prepare", "finalize"}
=============================================================================
