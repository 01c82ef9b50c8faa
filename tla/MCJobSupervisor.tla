--------------------------- MODULE MCJobSupervisor ---------------------------
(* Model values for checking JobSupervisor with TLC. *)
EXTENDS JobSupervisor
CONSTANTS j1, j2, c1, c2, app

MCJobs        == {j1, j2}
MCControlJobs == {j1}
MCOneJob      == {j1}
MCCallers     == {c1}
MCTwoCallers  == {c1, c2}
MCNone        == {}
MCLineKinds   == {"progress", "malformed"}
=============================================================================
