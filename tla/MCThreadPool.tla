---------------------------- MODULE MCThreadPool ----------------------------
(***************************************************************************)
(* One worker, two clients, the pool's own queue and one more of lower     *)
(* priority, which tasks of the first may wait for.                        *)
(***************************************************************************)
EXTENDS ThreadPool
CONSTANTS main, other, worker, static, low

MCPriorityOf == [q \in {static, low} |-> IF q = static THEN 0 ELSE 1]
MCMayWait    == {<<static, low>>}
=============================================================================
