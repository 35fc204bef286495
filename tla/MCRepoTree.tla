----------------------------- MODULE MCRepoTree -----------------------------
(* Five files chosen so that the rules and filters meet their edge cases:  *)
(* a test file with an upper-case suffix inside a crate (two rules match), *)
(* a lock file under docs/ (dropped by the watcher's filter, listed in the *)
(* index), a directory whose name only ends with                           *)
(* "docs", a top-level file, and a directory whose name only begins with   *)
(* "data" under tools/work-logger.  Contents have one or two lines, some   *)
(* starting with "++" or "--".                                             *)
EXTENDS RepoTree

PA == << <<"src">>, <<"vm-runtime">>, <<"tests">>, <<"t", ".RS">> >>
PB == << <<"docs">>, <<"guide", ".LOCK">> >>
PC == << <<"my", "docs">>, <<"n", ".txt">> >>
PD == << <<"README", ".md">> >>
PE == << <<"tools">>, <<"work-logger">>, <<"data", "base">>, <<"x", ".py">> >>
MCIndexPath == << <<"docs">>, <<"INDEX", ".md">> >>

MCPaths == {PA, PB, PC, PD, PE}
MCContents == {<<"x">>, <<"++">>, <<"x", "--">>}
\* One-line contents that no diff filter can touch.
MCPlainContents == {<<"x">>}
MCTree0 == [p \in MCPaths |-> IF p = PC THEN Absent ELSE <<"x">>]

\* name.lower() order of the segments.
MCSegRank ==
    (<<"data", "base">> :> 1) @@ (<<"docs">> :> 2) @@ (<<"guide", ".LOCK">> :> 3)
    @@ (<<"INDEX", ".md">> :> 4) @@ (<<"my", "docs">> :> 5)
    @@ (<<"n", ".txt">> :> 6) @@ (<<"README", ".md">> :> 7) @@ (<<"src">> :> 8)
    @@ (<<"t", ".RS">> :> 9) @@ (<<"tests">> :> 10) @@ (<<"tools">> :> 11)
    @@ (<<"vm-runtime">> :> 12) @@ (<<"work-logger">> :> 13)
    @@ (<<"x", ".py">> :> 14)
=============================================================================
