------------------------------- MODULE MCWatcher -------------------------------
(* Model values and bounds for Watcher. *)
EXTENDS Watcher

MCPaths == {"src/lib.rs", "docs/guide.md", "docs/INDEX.md", "target/app.bin"}
MCDocsPaths == {"docs/guide.md", "docs/INDEX.md"}
MCIgnoredPaths == {"target/app.bin"}
MCChangeTypes == {"created", "modified"}
=============================================================================
