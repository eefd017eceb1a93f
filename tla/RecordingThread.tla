--------------------------- MODULE RecordingThread ---------------------------
(***************************************************************************)
(* FLACRecorder.run() from its first line to its last: the search for an   *)
(* audio configuration (module AudioConfig), and, if it finds one, the     *)
(* recording with its chunks (module ChunkRotation).  Both leave alone the *)
(* variables of the other; a search that fails ends the thread.            *)
(***************************************************************************)
EXTENDS AudioConfig, ChunkRotation

runVars == <<searchVars, vars>>

\* mChunk and mEncHandler have their first values when the object is created.
RunInit == SearchInit /\ Init

\* run() up to the break, or the return, that leaves the search.
Search == SearchNext /\ UNCHANGED vars

\* The loop is entered with an AudioRecord that has been set up.
Record == outcome = "found" /\ Next /\ UNCHANGED searchVars

RunNext == Search \/ Record

RunSpec == RunInit /\ [][RunNext]_runVars
=============================================================================
