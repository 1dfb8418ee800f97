---------------------------- MODULE EditDetector ----------------------------
(***************************************************************************)
(* What the mtime guard promises, without mtimes: since the last anchor,   *)
(* the server knows exactly which of the tracked files somebody wrote.     *)
(* SnapshotStore implements this by comparing st_mtime_ns values.          *)
(***************************************************************************)
EXTENDS Naturals

CONSTANT Files

VARIABLES
  tracked,  \* the files the current anchor covers
  dirty     \* the tracked files written or removed since that anchor

detectorVars == <<tracked, dirty>>

Init ==
  /\ tracked = {}
  /\ dirty = {}

\* A tool registers a disk snapshot: its files become the clean reference.
Anchor(S) ==
  /\ tracked' = S
  /\ dirty' = {}

\* Anybody writes, creates or removes a file.
Edit(f) ==
  /\ dirty' = dirty \cup ({f} \cap tracked)
  /\ UNCHANGED tracked

\* The server process restarts and forgets the anchor.
Forget == Anchor({})

Next ==
  \/ \E S \in SUBSET Files : Anchor(S)
  \/ \E f \in Files : Edit(f)
  \/ Forget

Spec == Init /\ [][Next]_detectorVars

=============================================================================
