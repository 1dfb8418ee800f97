----------------------------- MODULE Autoroute -----------------------------
(***************************************************************************)
(* The autorouter round trip of route_board (bridge/autoroute.py): the     *)
(* board is exported to a DSN, Freerouting writes a SES, the SES is        *)
(* imported over the board and the result replaces the board.  The three   *)
(* steps are subprocesses that hand over files in one directory, which     *)
(* nobody clears: a run finds there what earlier runs left.                *)
(*                                                                         *)
(* A board, and what was computed from it, is the number of its version.   *)
(* (TripInit, TripNext, TripSpec: so that SubprocessProofs can extend this *)
(* module and Fabrication, which is about the same board file.)            *)
(***************************************************************************)
EXTENDS Naturals

CONSTANTS
  Mishaps,   \* what happens around a run (see AllMishaps)
  MaxRuns,   \* bound: runs of the round trip
  MaxBoards  \* bound: versions of the board

ASSUME RunsAssumption == MaxRuns \in Nat /\ MaxBoards \in Nat \ {0}

\* external: another program, or save_board, writes the board; failures: a
\* subprocess fails or exceeds its timeout; silent: Freerouting exits without
\* having written a SES.
AllMishaps == {"external", "failures", "silent"}

VARIABLES
  board,     \* the version in the .kicad_pcb
  boards,    \* versions there have been
  dsn,       \* route.dsn: the version it was exported from, its edge classes
  ses,       \* route.ses: the version that was routed, the run that wrote it
  routed,    \* routed.kicad_pcb: what was routed, over which version, from which run's SES
  step,      \* idle, export, inject, freerouting, present, import, counts or replace
  run,       \* the run in progress, or the last one
  exported,  \* ghost: the version that this run exported
  alone,     \* ghost: nobody has written the board since the run began
  silent     \* ghost: the router of this run wrote no SES

files == <<dsn, ses, routed>>
tripVars == <<board, boards, files, step, run, exported, alone, silent>>

NoFile == [of |-> 0]

----------------------------------------------------------------------------
(* A run                                                                   *)

At(here) == step = here
GoTo(next) == step' = next /\ UNCHANGED <<board, boards, run, exported, alone, silent>>
Abort == GoTo("idle")

\* run_autoroute, once java, the jar and the system's python are resolved.
BeginRun ==
  /\ At("idle")
  /\ run < MaxRuns
  /\ run' = run + 1
  /\ step' = "export"
  /\ alone' = TRUE /\ silent' = FALSE
  /\ UNCHANGED <<board, boards, files, exported>>

\* _run_export_dsn reads the board from the disk.
Export ==
  /\ At("export")
  /\ dsn' = [of |-> board, classes |-> 0]
  /\ exported' = board
  /\ step' = "inject"
  /\ UNCHANGED <<board, boards, ses, routed, run, alone, silent>>

\* No pcbnew, no outline, a failed export, a timeout: the DSN, if there is
\* one, is an earlier one.
ExportFails ==
  /\ At("export")
  /\ "failures" \in Mishaps
  /\ Abort
  /\ UNCHANGED files

\* _inject_edge_clearance, best effort: it leaves a DSN it does not understand.
Inject ==
  /\ At("inject")
  /\ \/ dsn' = [dsn EXCEPT !.classes = @ + 1]
     \/ UNCHANGED dsn
  /\ GoTo("freerouting")
  /\ UNCHANGED <<ses, routed>>

\* Freerouting ends, with whatever exit code, and has written a SES, torn if it
\* crashed while it wrote ...
Freerouting ==
  /\ At("freerouting")
  /\ \E whole \in {TRUE} \cup IF "failures" \in Mishaps THEN {FALSE} ELSE {} :
       ses' = [of |-> dsn.of, by |-> run, whole |-> whole]
  /\ GoTo("present")
  /\ UNCHANGED <<dsn, routed>>

\* ... or it has written none.
FreeroutingSilent ==
  /\ At("freerouting")
  /\ "silent" \in Mishaps
  /\ silent' = TRUE
  /\ step' = "present"
  /\ UNCHANGED <<board, boards, files, run, exported, alone>>

\* Faulty: the router that exceeds its timeout is taken for one that ended.
FreeroutingTimeoutUnnoticed ==
  /\ At("freerouting")
  /\ "failures" \in Mishaps
  /\ \/ UNCHANGED ses
     \/ ses' = [of |-> dsn.of, by |-> run, whole |-> FALSE]
  /\ GoTo("present")
  /\ UNCHANGED <<dsn, routed>>

\* It is killed at its timeout, maybe while it writes.
FreeroutingTimeout ==
  /\ At("freerouting")
  /\ "failures" \in Mishaps
  /\ \/ UNCHANGED ses
     \/ ses' = [of |-> dsn.of, by |-> run, whole |-> FALSE]
  /\ Abort
  /\ UNCHANGED <<dsn, routed>>

\* The verdict: a SES is there and is not empty.
SesPresent ==
  /\ At("present")
  /\ IF ses # NoFile THEN GoTo("import") ELSE Abort
  /\ UNCHANGED files

\* _run_import_ses reads the board from the disk again, and saves.
Import ==
  /\ At("import")
  /\ ses.whole
  /\ routed' = [of |-> ses.of, over |-> board, by |-> ses.by]
  /\ GoTo("counts")
  /\ UNCHANGED <<dsn, ses>>

\* pcbnew refuses a torn SES.
ImportFails ==
  /\ At("import")
  /\ ~ses.whole \/ "failures" \in Mishaps
  /\ Abort
  /\ UNCHANGED files

\* _parse_counts: the counts are read from the output of the import.
Counts ==
  /\ At("counts")
  /\ \/ GoTo("replace")
     \/ "failures" \in Mishaps /\ Abort
  /\ UNCHANGED files

\* route_board: os.replace.
Replace ==
  /\ At("replace")
  /\ boards < MaxBoards
  /\ boards' = boards + 1
  /\ board' = boards + 1
  /\ routed' = NoFile
  /\ step' = "idle"
  /\ UNCHANGED <<dsn, ses, run, exported, alone, silent>>

RunStep ==
  \/ BeginRun \/ Export \/ ExportFails \/ Inject
  \/ Freerouting \/ FreeroutingSilent \/ FreeroutingTimeout \/ SesPresent
  \/ Import \/ ImportFails \/ Counts \/ Replace

\* The last version within the bound is left to Replace.
WriteBoard ==
  /\ "external" \in Mishaps
  /\ boards + 1 < MaxBoards
  /\ boards' = boards + 1
  /\ board' = boards + 1
  /\ alone' = FALSE
  /\ UNCHANGED <<files, step, run, exported, silent>>

----------------------------------------------------------------------------

TripInit ==
  /\ board = 1 /\ boards = 1
  /\ dsn = NoFile /\ ses = NoFile /\ routed = NoFile
  /\ step = "idle" /\ run = 0
  /\ exported = 0
  /\ alone = TRUE /\ silent = FALSE

TripNext == RunStep \/ WriteBoard

TripSpec == TripInit /\ [][TripNext]_tripVars

----------------------------------------------------------------------------
(* Properties                                                              *)

\* What replaces the board is the routing of the board that this run exported,
\* computed by this run and, if nobody wrote the board meanwhile, imported over
\* that same board, whatever failed or silent runs have left in the directory.
InstallsItsOwnRouting ==
  [][Replace /\ ~silent =>
       /\ routed.by = run /\ routed.of = exported
       /\ alone => routed.over = exported]_tripVars
=============================================================================
