----------------------------- MODULE MCTaskLoop -----------------------------
(* Instances of TaskLoop for TLC: the works are given by their kinds.      *)
EXTENDS TaskLoop

CONSTANTS WorkTasks, CppTasks, Posts, Locals, ImmediateObjects, TimeoutObjects

AllWorks == UNION {WorkTasks, CppTasks, Posts, Locals, ImmediateObjects, TimeoutObjects}

KindOf ==
    [w \in AllWorks |->
        CASE w \in WorkTasks -> "work" [] w \in CppTasks -> "cpp"
          [] w \in Posts -> "post" [] w \in Locals -> "local"
          [] w \in ImmediateObjects -> "immediate" [] w \in TimeoutObjects -> "timer"]
=============================================================================
