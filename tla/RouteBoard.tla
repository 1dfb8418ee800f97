----------------------------- MODULE RouteBoard -----------------------------
(***************************************************************************)
(* BoardSync with route_board (tools/pcb.py): the tool that saves the      *)
(* editor's board, routes the file on disk in a subprocess that may take   *)
(* minutes, replaces the file, reloads the editor, refills and saves       *)
(* again, and leaves the live_stale flag when the reload did not work.     *)
(* It is the only tool that writes the .kicad_pcb behind the editor's back *)
(* and the only one that saves without a guard.                            *)
(***************************************************************************)
EXTENDS BoardSync

VARIABLE route  \* the locals of route_board, while it runs

routeVars == <<vars, route>>

\* reload: none (not tried, or the editor holds another board), done, lost
\* (KICAD_NOT_RUNNING, the one failure that is retried) or failed.
NoRoute == [refill |-> FALSE, base |-> NoBoard, zones |-> FALSE,
            replaced |-> FALSE, reload |-> "none"]

\* The steps shared with the other tools (backup, build, read, refill, enforce)
\* are actions of BoardSync; build stands for the DRC before and after.
RouteSteps ==
  <<"backup", "open", "implicitSave", "count", "build", "autoroute", "replace",
    "reload", "reopen", "reloadAgain", "fill", "build", "stitch", "registerRoute">>

\* The call in progress is a route_board.
Routing == Running /\ call.todo[Len(call.todo)] = "registerRoute"

\* The locals go when the call ends, however it ends.
KeepLocals == route' = IF Routing' THEN route ELSE NoRoute

Before(steps) == call' = [call EXCEPT !.todo = steps \o Tail(@)]

\* It may make four writes and two edits.
BeginRoute ==
  /\ ~Running
  /\ nextId <= MaxSnaps /\ nextEdit < MaxEdits /\ clock + 4 <= MaxWrites
  /\ call' = [todo |-> RouteSteps, board |-> "closed", mark |-> 0,
              reply |-> "none", alone |-> TRUE]
  /\ \E refill \in BOOLEAN : route' = [NoRoute EXCEPT !.refill = refill]
  /\ UNCHANGED <<storeVars, board, editor, gaps>>

\* _open_board_or_none: no board when KiCad does not answer, an error when it
\* does but the PCB Editor is closed or the request fails.
OpenHandle(step) ==
  /\ Doing(step)
  /\ \/ call' = [call EXCEPT !.todo = Tail(@), !.board = editor]
     \/ "failures" \in World /\ call' = [call EXCEPT !.todo = Tail(@), !.board = "closed"]

Open ==
  /\ \/ OpenHandle("open")
     \/ /\ Doing("open")
        /\ editor = "closed" \/ "failures" \in World
        /\ Return("FAILED")
  /\ UNCHANGED <<storeVars, board, editor, gaps>> /\ KeepLocals

\* is_target_open
OwnBoard == call.board = "target"

\* D-14.3: not when a routing on disk is waiting for the editor to reload it.
ImplicitSave ==
  /\ Doing("implicitSave")
  /\ \/ OwnBoard /\ ~liveStale /\ Request(SaveLive, "FAILED")
     \/ ~(OwnBoard /\ ~liveStale) /\ Continue /\ UNCHANGED <<board, files>>
  /\ UNCHANGED <<memory, editor>> /\ KeepLocals
  /\ GapsAfter({})

\* Footprints and zones are read only if the board was saved; duplicate
\* references end the call here.
Count ==
  /\ Doing("count")
  /\ \/ /\ OwnBoard /\ ~liveStale /\ Reachable
        /\ Continue
        /\ route' = [route EXCEPT !.zones = live.fill # "none"]
     \/ /\ OwnBoard /\ ~liveStale
        /\ Return("FAILED")
        /\ KeepLocals
     \/ /\ ~(OwnBoard /\ ~liveStale)
        /\ Continue
        /\ KeepLocals
  /\ UNCHANGED <<storeVars, board, editor, gaps>>

\* run_autoroute: the import reads the file again, at the end.
Autoroute ==
  /\ Doing("autoroute")
  /\ \/ Continue /\ route' = [route EXCEPT !.base = disk]
     \/ "failures" \in World /\ Return("FAILED") /\ KeepLocals
  /\ UNCHANGED <<storeVars, board, editor, gaps>>

\* os.replace
Replace ==
  /\ Doing("replace")
  /\ \/ /\ nextEdit <= MaxEdits
        /\ nextEdit' = nextEdit + 1
        /\ disk' = [edits |-> route.base.edits \cup {nextEdit},
                    fill |-> IF route.base.fill = "none" THEN "none" ELSE "stale"]
        /\ Write(Pcb)
        /\ Continue
        /\ route' = [route EXCEPT !.replaced = TRUE, !.base = NoBoard]
     \/ /\ "failures" \in World
        /\ Return("FAILED")
        /\ UNCHANGED <<nextEdit, disk, files>>
        /\ KeepLocals
  /\ UNCHANGED <<memory, live, editor>>
  /\ GapsAfter(IF latestDiskMtimes = {} THEN {"unanchored"} ELSE {})

\* A reload that fails, for the reason how, may have been applied.
TryReload(step, how) ==
  /\ Doing(step)
  /\ \/ /\ Reachable
        /\ RevertLive
        /\ call' = [call EXCEPT !.todo = Tail(@), !.mark = nextEdit]
        /\ route' = [route EXCEPT !.reload = "done"]
     \/ /\ ~Reachable \/ "failures" \in World
        /\ \/ Reachable /\ RevertLive
           \/ UNCHANGED <<board, files>>
        /\ call' = [call EXCEPT !.todo = Tail(@)]
        /\ route' = [route EXCEPT !.reload = how]
  /\ UNCHANGED <<memory, editor>>
  /\ GapsAfter({})

Skip(step) ==
  Doing(step) /\ Continue /\ UNCHANGED <<storeVars, board, editor, gaps>> /\ KeepLocals

Reload ==
  \/ OwnBoard /\ \E how \in {"lost", "failed"} : TryReload("reload", how)
  \/ ~OwnBoard /\ Skip("reload")

\* The one retry, on a fresh handle, if the connection was lost; whatever goes
\* wrong with it leaves the reload failed.
Reopen ==
  \/ /\ route.reload = "lost"
     /\ OpenHandle("reopen")
     /\ route' = [route EXCEPT !.reload = IF call'.board = "target" THEN "lost" ELSE "failed"]
     /\ UNCHANGED <<storeVars, board, editor, gaps>>
  \/ route.reload # "lost" /\ Skip("reopen")

ReloadAgain ==
  \/ route.reload = "lost" /\ TryReload("reloadAgain", "failed")
  \/ route.reload # "lost" /\ Skip("reloadAgain")

Synced == route.reload = "done" /\ route.zones

\* Faulty: refills what the editor holds although the reload failed.
FillUnlessSkipped ==
  /\ Doing("fill")
  /\ IF route.refill /\ route.zones THEN Before(<<"refill", "enforce", "routePersist">>)
                                    ELSE Continue
  /\ UNCHANGED <<storeVars, board, editor, gaps>> /\ KeepLocals

\* The refill runs if the editor reflects the routing.
Fill ==
  /\ Doing("fill")
  /\ IF route.refill /\ Synced THEN Before(<<"refill", "enforce", "routePersist">>)
                               ELSE Continue
  /\ UNCHANGED <<storeVars, board, editor, gaps>> /\ KeepLocals

RoutePersist ==
  /\ BoardRequest("routePersist", SaveLive, "PERSIST_FAILED")
  /\ KeepLocals

PlaceVia ==
  /\ nextEdit <= MaxEdits
  /\ nextEdit' = nextEdit + 1
  /\ live' = [edits |-> live.edits \cup {nextEdit},
              fill |-> IF live.fill = "none" THEN "none" ELSE "stale"]
  /\ UNCHANGED <<disk, files>>

\* Faulty: the vias are left in the editor.
StitchUnsaved ==
  /\ Doing("stitch")
  /\ \/ /\ Continue
        /\ UNCHANGED <<board, files>>
     \/ /\ Synced /\ Reachable
        /\ OnTarget(PlaceVia)
        /\ Continue
     \/ /\ Synced /\ (~Reachable \/ "failures" \in World)
        /\ (Reachable /\ OnTarget(PlaceVia)) \/ UNCHANGED <<board, files>>
        /\ Return("FAILED")
  /\ UNCHANGED <<memory, editor>> /\ KeepLocals
  /\ GapsAfter({})

\* Stitching vias for the pads the fill no longer reaches, refilled, saved and
\* measured again.
Stitch ==
  /\ Doing("stitch")
  /\ \/ /\ Continue
        /\ UNCHANGED <<board, files>>
     \/ /\ Synced /\ Reachable
        /\ OnTarget(PlaceVia)
        /\ Before(<<"refill", "enforce", "routePersist", "build">>)
     \/ /\ Synced /\ (~Reachable \/ "failures" \in World)
        /\ (Reachable /\ OnTarget(PlaceVia)) \/ UNCHANGED <<board, files>>
        /\ Return("FAILED")
  /\ UNCHANGED <<memory, editor>> /\ KeepLocals
  /\ GapsAfter({})

\* Faulty: marks only the reload it tried, as if a closed editor stayed closed.
RegisterRouteIfFailed ==
  /\ Doing("registerRoute")
  /\ Register("pcb", {CollectMtimes})
  /\ IF route.reload = "failed" THEN MarkStale(nextId) ELSE ClearStale
  /\ Return(IF route.refill /\ route.zones /\ route.reload = "failed"
              THEN "REFILL_SKIPPED" ELSE "OK")
  /\ UNCHANGED <<files, board, editor>> /\ KeepLocals
  /\ GapsAfter(IF route.reload = "done" THEN {"reanchored"} ELSE {})

\* The mtimes are collected last, after every save; then D-14.1, and the error
\* of a promised refill that could not run.
RegisterRoute ==
  /\ Doing("registerRoute")
  /\ Register("pcb", {CollectMtimes})
  /\ IF route.reload = "done" THEN ClearStale ELSE MarkStale(nextId)
  /\ Return(IF route.refill /\ route.zones /\ route.reload = "failed"
              THEN "REFILL_SKIPPED" ELSE "OK")
  /\ UNCHANGED <<files, board, editor>> /\ KeepLocals
  /\ GapsAfter(IF route.reload = "done" THEN {"reanchored"} ELSE {})

RouteStep ==
  \/ Open \/ ImplicitSave \/ Count \/ Autoroute \/ Replace
  \/ Reload \/ Reopen \/ ReloadAgain \/ Fill \/ RoutePersist \/ Stitch \/ RegisterRoute

RouteInit == Init /\ route = NoRoute

RouteNext == (Next /\ KeepLocals) \/ BeginRoute \/ RouteStep

RouteSpec == RouteInit /\ [][RouteNext]_routeVars

----------------------------------------------------------------------------
(* Properties                                                              *)

\* The saves after the reload overwrite nothing that was on disk when the
\* editor reloaded: never the routing, whatever fails before them.
RouteSavesKeepDisk ==
  [][RoutePersist =>
       /\ call.mark # 0
       /\ \A e \in disk.edits \ disk'.edits : e >= call.mark]_routeVars

\* ADR-0012 (D-23.2): an undisturbed route_board that reloaded the editor ends
\* with disk = editor, the zones it found filled clear of holes if it was asked
\* to, and a guard that is open.
RouteIsPersisted ==
  [][RegisterRoute /\ call.alone /\ route.reload = "done" =>
       /\ disk = live
       /\ route.refill /\ route.zones => disk.fill # "stale"
       /\ NoExternalEdit' /\ ~liveStale']_routeVars
=============================================================================
