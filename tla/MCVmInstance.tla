--------------------------- MODULE MCVmInstance ---------------------------
(* Small instances of VmInstance for TLC. *)
EXTENDS VmInstance, TLC

CONSTANTS p1, p2, p3

ThreeProcesses == {p1, p2, p3}

Commands(a, b, c, before) ==
    [command |-> p1 :> a @@ p2 :> b @@ p3 :> c, prepared |-> before]

ThreeCommands == {Commands("new", "run", "run", FALSE),
                  Commands("new", "new", "run", FALSE),
                  Commands("new", "serve", "run", FALSE),
                  Commands("run", "dry", "serve", TRUE)}
============================================================================
