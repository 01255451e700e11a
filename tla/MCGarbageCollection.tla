------------------------ MODULE MCGarbageCollection ------------------------
EXTENDS GarbageCollection, TLC

\* The collector, the core, and one worker per instance.
Callers == {"gc", "core"} \cup Instance

=============================================================================
