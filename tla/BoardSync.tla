----------------------------- MODULE BoardSync -----------------------------
(***************************************************************************)
(* The server between the .kicad_pcb on disk and the board the PCB Editor  *)
(* holds in memory: the tools that mutate, save, refill, reload and read   *)
(* the board (tools/pcb.py, tools/_mutating.py, tools/world.py), step by   *)
(* step, with the human, other programs, KiCad and the server process      *)
(* acting between any two steps.                                           *)
(*                                                                         *)
(* Tool calls run one at a time (FastMCP runs synchronous tools inline).   *)
(* A call is the list of steps it has left; each step does what the source *)
(* does at that point and either goes on or ends the call with an error.   *)
(* A board is the set of edits it contains (an edit is a number, in order  *)
(* of creation) and the condition of its zone fills.                       *)
(***************************************************************************)
EXTENDS SnapshotStore, Sequences

CONSTANTS
  Pcb, Sch,   \* the two project files
  Tools,      \* the tools the agent calls (see Program)
  World,      \* what happens around the server (see AllOfTheWorld)
  MaxEdits    \* bound: edits made to the board, by anybody

ASSUME FilesAssumption == Files = {Pcb, Sch} /\ Pcb # Sch
ASSUME MaxEditsAssumption == MaxEdits \in Nat

\* external: another program writes the .kicad_pcb; schematic: another program
\* writes the .kicad_sch; gui: the human edits, saves and reverts in KiCad;
\* editor: boards are opened and closed, KiCad exits; restart: the server
\* process restarts; failures: calls to KiCad, git and the disk may fail.
AllOfTheWorld ==
  {"external", "schematic", "gui", "editor", "restart", "failures"}

VARIABLES
  disk,      \* the content of the .kicad_pcb
  live,      \* the content of the board in the editor
  editor,    \* what the PCB Editor has open
  call,      \* the tool call in progress, or the reply of the last one
  gaps,      \* ghost: how the editor came to be behind the disk unnoticed
  nextEdit

board == <<disk, live, nextEdit>>
vars == <<storeVars, disk, live, editor, call, gaps, nextEdit>>

Fills == {"none", "stale", "safe"}
NoBoard == [edits |-> {}, fill |-> "none"]
Editors == {"target", "other", "closed"}
Gaps == {"unanchored", "reanchored", "confirmed", "restarted"}
Replies == {"none", "OK", "EXTERNAL_EDIT_DETECTED", "SNAPSHOT_STALE",
            "PERSIST_FAILED", "REFILL_SKIPPED", "KIND_MISMATCH", "FAILED"}

----------------------------------------------------------------------------
(* The tools, as the steps each handler takes                              *)

\* The last two lines are steps of route_board (module RouteBoard).
Steps ==
  {"guard", "base", "resolve", "read", "backup", "build", "mutate", "refill", "enforce",
   "save", "persist", "revert", "zones", "delta", "mismatch", "registerLive",
   "registerBoard", "registerFill", "registerSch", "registerReload", "confirm", "writeSch",
   "open", "implicitSave", "count", "autoroute", "replace", "reload", "reopen",
   "reloadAgain", "fill", "routePersist", "stitch", "registerRoute"}

\* The tools that make one edit over IPC and save nothing.
IpcEdit == <<"guard", "base", "resolve", "read", "backup", "mutate", "registerLive">>

AddTrack == IpcEdit
AddVia == IpcEdit
DeleteCopper == IpcEdit  \* delete_track and delete_via
SetFootprintRef == IpcEdit
DrawBoardOutline == IpcEdit
AddKeepoutZone == IpcEdit
DeleteZone == IpcEdit

\* It reads the footprint back before it registers.
MoveFootprint == <<"guard", "base", "resolve", "read", "backup", "mutate", "read", "registerLive">>

\* Without fill, add_zone is an IpcEdit.
AddZone == <<"guard", "base", "resolve", "read", "backup", "mutate",
             "refill", "enforce", "persist", "registerFill">>

\* It finds what to delete before its guard.
DeleteTracksBulk == <<"resolve", "read", "guard", "base", "read", "backup", "mutate",
                      "zones", "registerLive">>

\* What follows in delete_tracks_bulk if the board has copper zones.
Persist == <<"refill", "enforce", "persist", "registerFill">>

\* Faulty: saved before the clearance is enforced.
FillZonesSaveFirst == <<"guard", "base", "resolve", "read", "backup",
                        "refill", "persist", "enforce", "registerFill">>

FillZones == <<"guard", "base", "resolve", "read", "backup",
               "refill", "enforce", "persist", "registerFill">>

SaveBoard == <<"guard", "base", "resolve", "backup", "save", "read", "registerBoard">>

ReloadBoard == <<"resolve", "revert", "read", "registerReload">>

\* get_world_context(kind="pcb"); the board outline is read last.
LiveContext == <<"resolve", "read", "registerLive", "read">>

ConfirmReloaded == <<"confirm", "resolve", "read", "registerLive", "read">>

SchContext == <<"build", "registerSch">>

\* get_context_delta goes on as its base_snap says: a live base is compared
\* with the editor, a disk base with the schematic whatever its kind.
ContextDelta == <<"delta">>
DeltaSteps(entry) ==
  CASE entry.mtimes = {} -> <<"resolve", "read", "registerLive">>
    [] entry.mtimes # {} /\ entry.kind = "sch" -> <<"build", "registerSch">>
    [] entry.mtimes # {} /\ entry.kind = "pcb" -> <<"build", "registerSch", "mismatch">>

\* The schematic tools have no guard; they read the file back before they
\* register.
SchEdit == <<"base", "build", "backup", "writeSch", "build", "registerSch">>

AddSymbol == SchEdit
SetProperty == SchEdit  \* set_value and set_footprint
ConnectPins == SchEdit

Program ==
  [addTrack |-> AddTrack, addVia |-> AddVia, deleteCopper |-> DeleteCopper,
   setFootprintRef |-> SetFootprintRef, drawBoardOutline |-> DrawBoardOutline,
   addKeepoutZone |-> AddKeepoutZone, deleteZone |-> DeleteZone,
   moveFootprint |-> MoveFootprint, addZone |-> AddZone,
   deleteTracksBulk |-> DeleteTracksBulk, fillZones |-> FillZones,
   saveBoard |-> SaveBoard, reloadBoard |-> ReloadBoard, liveContext |-> LiveContext,
   confirmReloaded |-> ConfirmReloaded, schContext |-> SchContext,
   contextDelta |-> ContextDelta, addSymbol |-> AddSymbol, setProperty |-> SetProperty,
   connectPins |-> ConnectPins]

AllTools ==
  {"addTrack", "addVia", "deleteCopper", "setFootprintRef", "drawBoardOutline",
   "addKeepoutZone", "deleteZone", "moveFootprint", "addZone", "deleteTracksBulk",
   "fillZones", "saveBoard", "reloadBoard", "liveContext", "confirmReloaded",
   "schContext", "contextDelta", "addSymbol", "setProperty", "connectPins"}

ASSUME ToolsAssumption == Tools \subseteq AllTools

\* A call: its steps left, the board its handle is on, and two ghosts: the
\* next edit when its guard passed (0 before), and whether the world has been
\* still since it began.
Calls == [todo : Seq(Steps), board : Editors, mark : 0..(MaxEdits + 1),
          reply : Replies, alone : BOOLEAN]

Idle(reply) ==
  [todo |-> <<>>, board |-> "closed", mark |-> 0, reply |-> reply,
   alone |-> call.alone]

Running == call.todo # <<>>
Doing(step) == Running /\ Head(call.todo) = step

Return(reply) == call' = Idle(reply)
Continue ==
  IF Len(call.todo) = 1
    THEN Return("OK")
    ELSE call' = [call EXCEPT !.todo = Tail(@)]

\* Edits of the disk that the editor holding the same board has not seen.
Behind == editor = "target" /\ ~(disk.edits \subseteq live.edits)

\* The next guard refuses, by the flag or by the mtimes.
Guarded == liveStale \/ ~NoExternalEdit

\* A step that leaves the editor behind and unguarded for the reason new adds
\* it to the record; the record empties once the editor has caught up.
GapsAfter(new) ==
  gaps' = CASE ~Behind' -> {}
            [] Behind' /\ Guarded' -> gaps
            [] Behind' /\ ~Guarded' -> gaps \cup new

----------------------------------------------------------------------------
(* Steps of a tool call                                                    *)

\* A call starts only within the bounds; it makes at most one edit, one write
\* and one registration, and the world leaves it those.
Begin ==
  /\ ~Running
  /\ nextId <= MaxSnaps /\ nextEdit <= MaxEdits /\ clock < MaxWrites
  /\ \E tool \in Tools :
       call' = [todo |-> Program[tool], board |-> "closed", mark |-> 0,
                reply |-> "none", alone |-> TRUE]
  /\ UNCHANGED <<storeVars, board, editor, gaps>>

\* Faulty: disk_check=False, as move_footprint once had.
GuardNoDiskCheck ==
  /\ Doing("guard")
  /\ IF liveStale
       THEN Return("EXTERNAL_EDIT_DETECTED")
       ELSE call' = [call EXCEPT !.todo = Tail(@), !.mark = nextEdit]
  /\ UNCHANGED <<storeVars, board, editor, gaps>>

\* Faulty: without _guard_live_stale, as draw_board_outline once was.
GuardNoFlag ==
  /\ Doing("guard")
  /\ IF ~NoExternalEdit
       THEN Return("EXTERNAL_EDIT_DETECTED")
       ELSE call' = [call EXCEPT !.todo = Tail(@), !.mark = nextEdit]
  /\ UNCHANGED <<storeVars, board, editor, gaps>>

\* mutating_tool: the live_stale flag, then the disk mtimes.
Guard ==
  /\ Doing("guard")
  /\ IF liveStale \/ ~NoExternalEdit
       THEN Return("EXTERNAL_EDIT_DETECTED")
       ELSE call' = [call EXCEPT !.todo = Tail(@), !.mark = nextEdit]
  /\ UNCHANGED <<storeVars, board, editor, gaps>>

\* The error validate_base_snap raises.
Refusal(base) == IF base \in DOMAIN entries THEN "EXTERNAL_EDIT_DETECTED" ELSE "SNAPSHOT_STALE"

\* base_snap, which the agent may omit or invent.
CheckBase ==
  /\ Doing("base")
  /\ \/ Continue
     \/ \E base \in 1..MaxSnaps : ~ValidBase(base) /\ Return(Refusal(base))
  /\ UNCHANGED <<storeVars, board, editor, gaps>>

\* get_context_delta: validate_base_snap, then _build_current_for.
Delta ==
  /\ Doing("delta")
  /\ \E base \in 1..MaxSnaps :
       \/ ValidBase(base) /\ call' = [call EXCEPT !.todo = DeltaSteps(entries[base])]
       \/ ~ValidBase(base) /\ Return(Refusal(base))
  /\ UNCHANGED <<storeVars, board, editor, gaps>>

\* The base is a board, what was built a schematic.
Mismatch ==
  /\ Doing("mismatch")
  /\ Return("KIND_MISMATCH")
  /\ UNCHANGED <<storeVars, board, editor, gaps>>

\* _resolve_board: a handle on whatever board the editor has open.
Resolve ==
  /\ Doing("resolve")
  /\ \/ /\ editor # "closed"
        /\ call' = [call EXCEPT !.todo = Tail(@), !.board = editor]
     \/ /\ editor = "closed" \/ "failures" \in World
        /\ Return("FAILED")
  /\ UNCHANGED <<storeVars, board, editor, gaps>>

\* The handle still denotes an open board.
Reachable == editor = call.board

\* A read over IPC changes nothing.
Read ==
  /\ Doing("read")
  /\ \/ Reachable /\ Continue
     \/ (~Reachable \/ "failures" \in World) /\ Return("FAILED")
  /\ UNCHANGED <<storeVars, board, editor, gaps>>

\* Gate G1 and the reads of the schematic.
Work ==
  /\ Doing("backup") \/ Doing("build")
  /\ \/ Continue
     \/ "failures" \in World /\ Return("FAILED")
  /\ UNCHANGED <<storeVars, board, editor, gaps>>

\* A request that changes the board is never retried: it succeeds, or it
\* fails, and a failure (a timeout) does not say whether KiCad applied it.
Request(effect, failure) ==
  \/ Reachable /\ effect /\ Continue
  \/ "failures" \in World /\ Reachable /\ effect /\ Return(failure)
  \/ ("failures" \in World \/ ~Reachable) /\ UNCHANGED <<board, files>> /\ Return(failure)

\* The effect a request has when the handle is on the project's own board.
OnTarget(effect) == IF call.board = "target" THEN effect ELSE UNCHANGED <<board, files>>

\* An edit puts the fills out of date, and may create the first zone or remove
\* the last one.
EditLive ==
  /\ nextEdit <= MaxEdits
  /\ nextEdit' = nextEdit + 1
  /\ \E fill \in {"none", "stale"} :
       live' = [edits |-> live.edits \cup {nextEdit}, fill |-> fill]
  /\ UNCHANGED <<disk, files>>

SetFill(fill) ==
  /\ live' = [live EXCEPT !.fill = IF @ = "none" THEN "none" ELSE fill]
  /\ UNCHANGED <<disk, nextEdit, files>>

SaveLive ==
  /\ disk' = live
  /\ Write(Pcb)
  /\ UNCHANGED <<live, nextEdit>>

RevertLive == live' = disk /\ UNCHANGED <<disk, nextEdit, files>>

BoardRequest(step, effect, failure) ==
  /\ Doing(step)
  /\ Request(OnTarget(effect), failure)
  /\ UNCHANGED <<memory, editor>>
  /\ GapsAfter({})

Mutate == BoardRequest("mutate", EditLive, "FAILED")
Refill == BoardRequest("refill", SetFill("stale"), "FAILED")
Enforce == BoardRequest("enforce", SetFill("safe"), "FAILED")
Save == BoardRequest("save", SaveLive, "FAILED")
PersistFill == BoardRequest("persist", SaveLive, "PERSIST_FAILED")
Revert == BoardRequest("revert", RevertLive, "FAILED")

\* delete_tracks_bulk refills and persists only if the board has copper zones.
Zones ==
  /\ Doing("zones")
  /\ \/ /\ Reachable
        /\ call.board = "target" => live.fill # "none"
        /\ call' = [call EXCEPT !.todo = Persist]
     \/ /\ Reachable
        /\ call.board = "target" => live.fill = "none"
        /\ Continue
     \/ /\ ~Reachable \/ "failures" \in World
        /\ Return("FAILED")
  /\ UNCHANGED <<storeVars, board, editor, gaps>>

RegisterStep(step, kind, mtimes) ==
  /\ Doing(step)
  /\ Register(kind, mtimes)
  /\ Continue
  /\ UNCHANGED <<files, board, editor>>

\* Faulty: a mutation registered with the mtimes of the disk.
RegisterMutationOnDisk ==
  /\ RegisterStep("registerLive", "pcb", {CollectMtimes})
  /\ KeepStale
  /\ GapsAfter({})

\* The snapshot of a mutation is live: it has no mtimes and moves no anchor.
RegisterMutation ==
  /\ RegisterStep("registerLive", "pcb", {})
  /\ KeepStale
  /\ GapsAfter({})

\* Faulty: a save registered as a live snapshot.
RegisterSavedLive(step) ==
  /\ RegisterStep(step, "pcb", {})
  /\ KeepStale
  /\ GapsAfter({})

\* After a save the server takes the mtimes it finds for those of its save.
RegisterSaved(step) ==
  /\ RegisterStep(step, "pcb", {CollectMtimes})
  /\ KeepStale
  /\ GapsAfter({"reanchored"})

RegisterBoard == RegisterSaved("registerBoard")
RegisterFill == RegisterSaved("registerFill")

\* A schematic snapshot carries the mtime of the .kicad_pcb too.
RegisterSch ==
  /\ RegisterStep("registerSch", "sch", {CollectMtimes})
  /\ KeepStale
  /\ GapsAfter({"reanchored"})

\* Faulty: a reload registered as a live snapshot.
RegisterReloadLive ==
  /\ RegisterStep("registerReload", "pcb", {})
  /\ ClearStale
  /\ GapsAfter({})

RegisterReload ==
  /\ RegisterStep("registerReload", "pcb", {CollectMtimes})
  /\ ClearStale
  /\ GapsAfter({"reanchored"})

\* get_world_context(kind="pcb", confirm_reloaded=True), before it reads.
Confirm ==
  /\ Doing("confirm")
  /\ ClearStale
  /\ Continue
  /\ UNCHANGED <<entries, nextId, latestDiskMtimes, files, board, editor>>
  /\ GapsAfter({"confirmed"})

\* The schematic tools write the .kicad_sch themselves.
WriteSch ==
  /\ Doing("writeSch")
  /\ \/ Write(Sch) /\ Continue
     \/ "failures" \in World /\ Write(Sch) /\ Return("FAILED")
     \/ "failures" \in World /\ UNCHANGED files /\ Return("FAILED")
  /\ UNCHANGED <<memory, board, editor, gaps>>

ToolStep ==
  \/ Guard \/ CheckBase \/ Delta \/ Mismatch \/ Resolve \/ Read \/ Work
  \/ Mutate \/ Refill \/ Enforce \/ Save \/ PersistFill \/ Revert \/ Zones
  \/ RegisterMutation \/ RegisterBoard \/ RegisterFill \/ RegisterSch
  \/ RegisterReload \/ Confirm \/ WriteSch

----------------------------------------------------------------------------
(* The world around the server                                             *)

\* The last edit and the last write within the bounds are left to the server.
MayEdit == nextEdit < MaxEdits
MayWrite == clock + 1 < MaxWrites

\* Whatever the world does, the call in progress is no longer alone.
Disturb == call' = [call EXCEPT !.alone = FALSE]

ExternalWrite ==
  /\ "external" \in World
  /\ MayEdit /\ MayWrite
  /\ nextEdit' = nextEdit + 1
  /\ disk' = [disk EXCEPT !.edits = @ \cup {nextEdit}]
  /\ Write(Pcb)
  /\ Disturb
  /\ UNCHANGED <<memory, live, editor>>
  /\ GapsAfter(IF latestDiskMtimes = {} THEN {"unanchored"} ELSE {})

ExternalSchWrite ==
  /\ "schematic" \in World
  /\ MayWrite
  /\ Write(Sch)
  /\ Disturb
  /\ UNCHANGED <<memory, board, editor, gaps>>

GuiEdit ==
  /\ "gui" \in World
  /\ editor = "target"
  /\ MayEdit
  /\ EditLive
  /\ Disturb
  /\ UNCHANGED <<memory, editor>>
  /\ GapsAfter({})

GuiSave ==
  /\ "gui" \in World
  /\ editor = "target"
  /\ MayWrite
  /\ SaveLive
  /\ Disturb
  /\ UNCHANGED <<memory, editor>>
  /\ GapsAfter({})

GuiRevert ==
  /\ "gui" \in World
  /\ editor = "target"
  /\ RevertLive
  /\ Disturb
  /\ UNCHANGED <<memory, editor>>
  /\ GapsAfter({})

\* A board is opened from disk, or closed; KiCad exits or crashes.
ChangeEditor ==
  /\ "editor" \in World
  /\ editor' \in Editors
  /\ live' = IF editor' = "target" THEN disk ELSE NoBoard
  /\ Disturb
  /\ UNCHANGED <<storeVars, disk, nextEdit>>
  /\ GapsAfter({})

\* Faulty: the anchor survives the process that took it.
RestartKeepsAnchor ==
  /\ "restart" \in World
  /\ entries' = [i \in {} |-> {}]
  /\ nextId' = 1
  /\ ClearStale
  /\ call' = [Idle("none") EXCEPT !.alone = FALSE]
  /\ UNCHANGED <<latestDiskMtimes, files, board, editor>>
  /\ GapsAfter({})

ServerRestart ==
  /\ "restart" \in World
  /\ ForgetAll
  /\ call' = [Idle("none") EXCEPT !.alone = FALSE]
  /\ UNCHANGED <<files, board, editor>>
  /\ GapsAfter({"restarted"})

WorldStep ==
  \/ ExternalWrite \/ ExternalSchWrite \/ GuiEdit \/ GuiSave \/ GuiRevert
  \/ ChangeEditor \/ ServerRestart

----------------------------------------------------------------------------

Init ==
  /\ StoreInit
  /\ mtime = [f \in Files |-> 1]
  /\ disk \in [edits : {{}}, fill : Fills]
  /\ live = disk
  /\ editor = "target"
  /\ call = [todo |-> <<>>, board |-> "closed", mark |-> 0, reply |-> "none",
             alone |-> TRUE]
  /\ gaps = {}
  /\ nextEdit = 1

Next == Begin \/ ToolStep \/ WorldStep

Spec == Init /\ [][Next]_vars

----------------------------------------------------------------------------
(* Properties                                                              *)

\* Every variable has its type.
TypeOK ==
  /\ StoreTypeOK
  /\ disk \in [edits : SUBSET (1..MaxEdits), fill : Fills]
  /\ live \in [edits : SUBSET (1..MaxEdits), fill : Fills]
  /\ editor \in Editors
  /\ call \in Calls
  /\ gaps \subseteq Gaps
  /\ nextEdit \in 1..(MaxEdits + 1)

\* Whenever the editor is behind the disk, the next guard refuses, except
\* after one of the four ways of losing track: no anchor yet, an anchor taken
\* over by a tool that did not bring the editor up to date, a confirmation by
\* the agent, or a restart of the server.  No eviction, live registration,
\* failed call or action of the human adds a fifth.
BehindIsGuarded ==
  Behind => Guarded \/ gaps # {}

\* A tool that saves has passed its guard, and outside those gaps it
\* overwrites no edit of the disk that was there when the guard passed.
SaveKeepsDisk ==
  [][Save \/ PersistFill =>
       /\ call.mark # 0
       /\ gaps # {} \/ \A e \in disk.edits \ disk'.edits : e >= call.mark]_vars

\* The server's own writes never make its guard refuse: an undisturbed call
\* that passed its guard and returns OK leaves the guard's mtimes as good as it
\* found them, so every write is registered, after it was made.
OwnWritesAreKnown ==
  [][Running /\ ~Running' /\ call.alone /\ call.mark # 0 /\ call'.reply = "OK" =>
       NoExternalEdit']_vars

\* D-23.2: a filling tool that returns OK, undisturbed, on the project's board
\* leaves disk = editor, fills clear of holes, and a guard that is open.
FillIsPersisted ==
  [][RegisterFill /\ call.alone /\ call.board = "target" =>
       disk = live /\ disk.fill # "stale" /\ NoExternalEdit']_vars

\* An undisturbed successful reload reconciles editor and disk and unblocks
\* the mutating tools.
ReloadUnblocks ==
  [][RegisterReload /\ call.alone /\ call.board = "target" =>
       ~Behind' /\ ~liveStale' /\ NoExternalEdit']_vars

\* The composed system uses the store only through its operations.
StoreRefined == StoreSpec

----------------------------------------------------------------------------
(* What the documentation says and the code does not do                    *)

\* validation.py: the guard keeps a save_board from silently overwriting what
\* another program wrote to the disk.  So in one server process, an external
\* edit made after the guard has its anchor is never overwritten.
AnchoredEditsSurvive ==
  [][(Save \/ PersistFill) /\ gaps \subseteq {"reanchored"} =>
       \A e \in disk.edits \ disk'.edits : e >= call.mark]_vars
=============================================================================
