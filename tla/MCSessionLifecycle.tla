------------------------- MODULE MCSessionLifecycle -------------------------
(* Model values and bounds for SessionLifecycle. *)
EXTENDS SessionLifecycle

MCPaths == {"src/lib.rs", "docs/guide.md"}
MCChangeTypes == {"created", "modified"}
MCIds == 1..3
=============================================================================
