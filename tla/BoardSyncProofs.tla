-------------------------- MODULE BoardSyncProofs --------------------------
(***************************************************************************)
(* Proofs about BoardSync and RouteBoard, for every retention and bound    *)
(* and every choice of World: a step uses the store only through its       *)
(* operations, an editor behind the disk is guarded outside the four gaps, *)
(* a tool's save overwrites nothing its guard could have seen, an          *)
(* undisturbed call leaves disk, editor and guard in agreement, and        *)
(* route_board saves only over what it has reloaded.                       *)
(***************************************************************************)
EXTENDS RouteBoard, SnapshotStoreProofs, SequenceTheorems

(***************************************************************************)
(* Every step is a step of the store or leaves it alone.                   *)
(***************************************************************************)

\* The project has its two files.
LEMMA FilesFacts == Pcb \in Files /\ Sch \in Files
BY FilesAssumption

\* How BoardSync uses the store; it never removes a file.
StoreUse ==
  \/ \E kind \in Kinds : RegisterDisk(kind)
  \/ RegisterLive
  \/ ClearLiveStale
  \/ \E f \in Files : WriteFile(f)
  \/ Restart
  \/ UNCHANGED storeVars

\* A request over IPC writes the .kicad_pcb or no file at all.
LEMMA RequestWrites ==
  ASSUME Mutate \/ Refill \/ Enforce \/ Save \/ PersistFill \/ Revert
  PROVE  UNCHANGED memory /\ (Write(Pcb) \/ UNCHANGED files)
<1>1. ASSUME NEW step, NEW failure, BoardRequest(step, EditLive, failure)
      PROVE  UNCHANGED memory /\ UNCHANGED files
  BY <1>1 DEF BoardRequest, Request, OnTarget, EditLive
<1>2. ASSUME NEW step, NEW failure, NEW fill, BoardRequest(step, SetFill(fill), failure)
      PROVE  UNCHANGED memory /\ UNCHANGED files
  BY <1>2 DEF BoardRequest, Request, OnTarget, SetFill
<1>3. ASSUME NEW step, NEW failure, BoardRequest(step, SaveLive, failure)
      PROVE  UNCHANGED memory /\ (Write(Pcb) \/ UNCHANGED files)
  BY <1>3 DEF BoardRequest, Request, OnTarget, SaveLive
<1>4. ASSUME NEW step, NEW failure, BoardRequest(step, RevertLive, failure)
      PROVE  UNCHANGED memory /\ UNCHANGED files
  BY <1>4 DEF BoardRequest, Request, OnTarget, RevertLive
<1> QED BY <1>1, <1>2, <1>3, <1>4 DEF Mutate, Refill, Enforce, Save, PersistFill, Revert

\* A step registers the disk or the live board, clears the store, writes a
\* file, restarts, or leaves the store alone.
LEMMA StepUsesStore == [Next]_vars => StoreUse
<1> SUFFICES ASSUME [Next]_vars PROVE StoreUse
  OBVIOUS
<1>0. ASSUME UNCHANGED memory, NEW f \in Files, Write(f) \/ UNCHANGED files
      PROVE  StoreUse
  BY <1>0 DEF StoreUse, WriteFile, memory, files, storeVars
<1>1. CASE UNCHANGED storeVars
  BY <1>1 DEF StoreUse
<1>2. CASE Mutate \/ Refill \/ Enforce \/ Save \/ PersistFill \/ Revert
  BY <1>0, <1>2, FilesFacts, RequestWrites
<1>3. CASE RegisterMutation
  BY <1>3 DEF RegisterMutation, RegisterStep, StoreUse, RegisterLive
<1>4. CASE RegisterBoard \/ RegisterFill \/ RegisterSch \/ RegisterReload
  <2>1. "sch" \in Kinds /\ "pcb" \in Kinds
    BY DEF Kinds
  <2> QED BY <1>4, <2>1
          DEF RegisterBoard, RegisterFill, RegisterSaved, RegisterSch, RegisterReload,
              RegisterStep, StoreUse, RegisterDisk
<1>5. CASE Confirm
  BY <1>5 DEF Confirm, StoreUse, ClearLiveStale, files
<1>6. CASE WriteSch
  BY <1>0, <1>6, FilesFacts DEF WriteSch
<1>7. CASE ExternalWrite \/ ExternalSchWrite \/ GuiEdit \/ GuiSave \/ GuiRevert
  BY <1>0, <1>7, FilesFacts
     DEF ExternalWrite, ExternalSchWrite, GuiEdit, GuiSave, GuiRevert,
         EditLive, SaveLive, RevertLive
<1>8. CASE ServerRestart
  BY <1>8 DEF ServerRestart, StoreUse, Restart
<1>9. CASE Begin \/ Guard \/ CheckBase \/ Delta \/ Mismatch \/ Resolve \/ Read \/ Work \/ Zones \/ ChangeEditor
  BY <1>9 DEF Begin, Guard, CheckBase, Delta, Mismatch, Resolve, Read, Work, Zones, ChangeEditor, StoreUse
<1>10. CASE UNCHANGED vars
  BY <1>10 DEF vars, StoreUse
<1> QED BY <1>1, <1>2, <1>3, <1>4, <1>5, <1>6, <1>7, <1>8, <1>9, <1>10
        DEF Next, ToolStep, WorldStep

\* Each of these is a step of SnapshotStore.
LEMMA StepIsStoreStep == [Next]_vars => [StoreNext]_storeVars
BY StepUsesStore DEF StoreUse, StoreNext

\* Whatever the tools, the human and the world do, the store changes only by
\* register, the flag operations, a restart, and writes to its files.
THEOREM ImplementsStore == Spec => StoreRefined
<1>1. Init => StoreInit
  BY DEF Init
<1> QED BY <1>1, StepIsStoreStep, PTL DEF Spec, StoreSpec, StoreRefined

(***************************************************************************)
(* Programs, and the types of BoardSync.                                   *)
(***************************************************************************)

Critical == {"save", "persist", "zones"}

\* A list of steps in which whatever saves, or may go on to, comes after the
\* guard.
GuardFirst(todo) ==
  \A i \in 1..Len(todo) :
    todo[i] \in Critical => \E j \in 1..(i - 1) : todo[j] = "guard"

\* Every program has its guard before any save.
LEMMA ProgramsAreSteps ==
  ASSUME NEW tool \in Tools
  PROVE  /\ Program[tool] \in Seq(Steps) /\ Program[tool] # <<>>
         /\ GuardFirst(Program[tool])
<1>1. IpcEdit \in Seq(Steps) /\ IpcEdit # <<>> /\ GuardFirst(IpcEdit)
  BY DEF IpcEdit, Steps, GuardFirst, Critical
<1>2. MoveFootprint \in Seq(Steps) /\ MoveFootprint # <<>> /\ GuardFirst(MoveFootprint)
  BY DEF MoveFootprint, Steps, GuardFirst, Critical
<1>3. AddZone \in Seq(Steps) /\ AddZone # <<>> /\ GuardFirst(AddZone)
  BY DEF AddZone, Steps, GuardFirst, Critical
<1>4. DeleteTracksBulk \in Seq(Steps) /\ DeleteTracksBulk # <<>> /\ GuardFirst(DeleteTracksBulk)
  BY DEF DeleteTracksBulk, Steps, GuardFirst, Critical
<1>5. FillZones \in Seq(Steps) /\ FillZones # <<>> /\ GuardFirst(FillZones)
  BY DEF FillZones, Steps, GuardFirst, Critical
<1>6. SaveBoard \in Seq(Steps) /\ SaveBoard # <<>> /\ GuardFirst(SaveBoard)
  BY DEF SaveBoard, Steps, GuardFirst, Critical
<1>7. ReloadBoard \in Seq(Steps) /\ ReloadBoard # <<>> /\ GuardFirst(ReloadBoard)
  BY DEF ReloadBoard, Steps, GuardFirst, Critical
<1>8. LiveContext \in Seq(Steps) /\ LiveContext # <<>> /\ GuardFirst(LiveContext)
  BY DEF LiveContext, Steps, GuardFirst, Critical
<1>9. SchContext \in Seq(Steps) /\ SchContext # <<>> /\ GuardFirst(SchContext)
  BY DEF SchContext, Steps, GuardFirst, Critical
<1>10. ContextDelta \in Seq(Steps) /\ ContextDelta # <<>> /\ GuardFirst(ContextDelta)
  BY DEF ContextDelta, Steps, GuardFirst, Critical
<1>11. SchEdit \in Seq(Steps) /\ SchEdit # <<>> /\ GuardFirst(SchEdit)
  BY DEF SchEdit, Steps, GuardFirst, Critical
<1>12. ConfirmReloaded \in Seq(Steps) /\ ConfirmReloaded # <<>> /\ GuardFirst(ConfirmReloaded)
  BY DEF ConfirmReloaded, Steps, GuardFirst, Critical
<1> QED
  <2> DEFINE Good(steps) == steps \in Seq(Steps) /\ steps # <<>> /\ GuardFirst(steps)
  <2>1. /\ Good(IpcEdit) /\ Good(MoveFootprint) /\ Good(AddZone) /\ Good(DeleteTracksBulk)
        /\ Good(FillZones) /\ Good(SaveBoard) /\ Good(ReloadBoard) /\ Good(LiveContext)
        /\ Good(SchContext) /\ Good(ContextDelta) /\ Good(SchEdit) /\ Good(ConfirmReloaded)
    BY <1>1, <1>2, <1>3, <1>4, <1>5, <1>6, <1>7, <1>8, <1>9, <1>10, <1>11, <1>12
  <2> HIDE DEF Good
  <2>2. /\ Good(AddTrack) /\ Good(AddVia) /\ Good(DeleteCopper) /\ Good(SetFootprintRef)
        /\ Good(DrawBoardOutline) /\ Good(AddKeepoutZone) /\ Good(DeleteZone)
        /\ Good(AddSymbol) /\ Good(SetProperty) /\ Good(ConnectPins)
    BY <2>1 DEF AddTrack, AddVia, DeleteCopper, SetFootprintRef, DrawBoardOutline,
                AddKeepoutZone, DeleteZone, AddSymbol, SetProperty, ConnectPins
  <2>3. tool \in AllTools
    BY ToolsAssumption
  <2>4. Good(Program[tool])
    BY <2>1, <2>2, <2>3 DEF AllTools, Program
  <2> QED BY <2>4 DEF Good

\* What Zones puts in place of the rest of a call is not empty.
LEMMA PersistIsSteps == Persist \in Seq(Steps) /\ Persist # <<>>
BY DEF Persist, Steps

\* Whatever the base of a delta, its steps save nothing.
LEMMA DeltaIsSteps ==
  ASSUME NEW entry, entry.kind \in Kinds
  PROVE  DeltaSteps(entry) \in Seq(Steps) /\ GuardFirst(DeltaSteps(entry))
<1>1. CASE entry.mtimes = {}
  BY <1>1 DEF DeltaSteps, Steps, GuardFirst, Critical
<1>2. CASE entry.mtimes # {} /\ entry.kind = "sch"
  BY <1>2 DEF DeltaSteps, Steps, GuardFirst, Critical
<1>3. CASE entry.mtimes # {} /\ entry.kind = "pcb"
  <2>1. DeltaSteps(entry) = <<"build", "registerSch", "mismatch">>
    BY <1>3 DEF DeltaSteps
  <2> QED BY <2>1 DEF Steps, GuardFirst, Critical
<1> QED BY <1>1, <1>2, <1>3 DEF Kinds

\* The call is well formed, and before its guard has passed it has nothing
\* critical to do but behind that guard.
CallOK == call \in Calls /\ (call.mark = 0 => GuardFirst(call.todo))

\* A call that has ended has no guard to pass.
LEMMA ReturnKeeps ==
  ASSUME CallOK, NEW reply \in Replies, Return(reply)
  PROVE  CallOK'
<1>1. MaxEdits \in Nat
  BY MaxEditsAssumption
<1>2. call'.todo = <<>> /\ call' \in Calls
  BY <1>1 DEF CallOK, Return, Idle, Calls, Editors
<1> QED BY <1>2 DEF CallOK, GuardFirst

\* A call that drops a step other than the guard keeps the guard in front.
LEMMA TailKeeps ==
  ASSUME CallOK, Running, Head(call.todo) # "guard"
  PROVE  /\ Tail(call.todo) \in Seq(Steps)
         /\ GuardFirst(call.todo) => GuardFirst(Tail(call.todo))
<1> DEFINE rest == Tail(call.todo)
<1>1. call.todo \in Seq(Steps) /\ call.todo # <<>>
  BY DEF CallOK, Calls, Running
<1>2. /\ rest \in Seq(Steps)
      /\ Len(call.todo) \in Nat
      /\ Len(rest) = Len(call.todo) - 1
      /\ \A i \in 1..Len(rest) : rest[i] = call.todo[i + 1]
  BY <1>1, HeadTailProperties, LenProperties
<1>3. call.todo[1] # "guard"
  BY <1>1
<1>4. ASSUME GuardFirst(call.todo) PROVE GuardFirst(rest)
  <2> HIDE DEF rest
  <2>1. SUFFICES ASSUME NEW i \in 1..Len(rest), rest[i] \in Critical
                 PROVE  \E j \in 1..(i - 1) : rest[j] = "guard"
    BY DEF GuardFirst
  <2>2. i + 1 \in 1..Len(call.todo) /\ call.todo[i + 1] \in Critical
    BY <1>2, <2>1
  <2>3. PICK j \in 1..i : call.todo[j] = "guard"
    BY <1>4, <2>2 DEF GuardFirst
  <2>4. j # 1
    BY <1>3, <2>3
  <2>5. j - 1 \in 1..(i - 1) /\ j - 1 \in 1..Len(rest) /\ rest[j - 1] = "guard"
    BY <1>2, <2>3, <2>4
  <2> QED BY <2>5
<1> QED BY <1>2, <1>4

\* A step other than the guard leaves the guard before the saves.
LEMMA ContinueKeeps ==
  ASSUME CallOK, Running, Head(call.todo) # "guard", Continue
  PROVE  CallOK'
<1>1. CASE Return("OK")
  BY <1>1, ReturnKeeps DEF Replies
<1>2. CASE call' = [call EXCEPT !.todo = Tail(@)]
  BY <1>2, TailKeeps DEF CallOK, Calls
<1> QED BY <1>1, <1>2 DEF Continue

\* A request goes on or ends its call, with or without effect.
LEMMA RequestKeepsCall ==
  ASSUME CallOK, Mutate \/ Refill \/ Enforce \/ Save \/ PersistFill \/ Revert
  PROVE  CallOK'
<1>1. ASSUME NEW step, step # "guard", NEW effect, NEW failure \in Replies,
             Doing(step), Request(effect, failure)
      PROVE  CallOK'
  BY <1>1, ContinueKeeps, ReturnKeeps DEF Request, Doing
<1>2. "FAILED" \in Replies /\ "PERSIST_FAILED" \in Replies
  BY DEF Replies
<1> QED BY <1>1, <1>2 DEF Mutate, Refill, Enforce, Save, PersistFill, Revert, BoardRequest

\* CallOK is kept by every step.
LEMMA CallStep ==
  ASSUME StoreTypeOK, CallOK, editor \in Editors, nextEdit \in 1..(MaxEdits + 1), [Next]_vars
  PROVE  CallOK'
<1>0. /\ \A reply \in Replies : Return(reply) => CallOK'
      /\ Running /\ Head(call.todo) # "guard" /\ Continue => CallOK'
  BY ReturnKeeps, ContinueKeeps
<1>1. {"none", "OK", "EXTERNAL_EDIT_DETECTED", "SNAPSHOT_STALE", "KIND_MISMATCH", "FAILED"}
        \subseteq Replies
  BY DEF Replies
<1>2. CASE Begin
  <2>1. PICK tool \in Tools :
          call' = [todo |-> Program[tool], board |-> "closed", mark |-> 0,
                   reply |-> "none", alone |-> TRUE]
    BY <1>2 DEF Begin
  <2>2. Program[tool] \in Seq(Steps) /\ GuardFirst(Program[tool])
    BY ProgramsAreSteps
  <2>3. 0 \in 0..(MaxEdits + 1)
    BY MaxEditsAssumption
  <2> QED BY <1>1, <2>1, <2>2, <2>3 DEF CallOK, Calls, Editors
<1>3. CASE Guard
  <2>1. CASE call' = [call EXCEPT !.todo = Tail(@), !.mark = nextEdit]
    <3>1. call.todo \in Seq(Steps) /\ call.todo # <<>>
      BY <1>3 DEF Guard, Doing, Running, CallOK, Calls
    <3>2. Tail(call.todo) \in Seq(Steps)
      BY <3>1, HeadTailProperties
    <3>3. nextEdit \in 0..(MaxEdits + 1) /\ nextEdit # 0
      BY MaxEditsAssumption
    <3> QED BY <2>1, <3>2, <3>3 DEF CallOK, Calls
  <2> QED BY <1>0, <1>1, <1>3, <2>1 DEF Guard
<1>4. CASE Resolve
  <2>1. CASE call' = [call EXCEPT !.todo = Tail(@), !.board = editor] /\ editor # "closed"
    <3>1. Running /\ Head(call.todo) # "guard"
      BY <1>4 DEF Resolve, Doing
    <3> QED BY <2>1, <3>1, TailKeeps DEF CallOK, Calls
  <2>2. CASE Return("FAILED")
    BY <1>0, <1>1, <2>2
  <2> QED BY <1>4, <2>1, <2>2 DEF Resolve
<1>5. CASE Read \/ Work
  BY <1>0, <1>1, <1>5 DEF Read, Work, Doing
<1>6. CASE Mutate \/ Refill \/ Enforce \/ Save \/ PersistFill \/ Revert
  BY <1>6, RequestKeepsCall
<1>7. CASE Zones
  <2>1. CASE Return("FAILED") \/ Continue
    BY <1>0, <1>1, <1>7, <2>1 DEF Zones, Doing
  <2>2. CASE call' = [call EXCEPT !.todo = Persist]
    <3>1. call.todo \in Seq(Steps) /\ call.todo # <<>> /\ call.todo[1] = "zones"
      BY <1>7 DEF Zones, Doing, Running, CallOK, Calls
    <3>2. 1 \in 1..Len(call.todo) /\ "zones" \in Critical
      BY <3>1, LenProperties DEF Critical
    <3>3. ~GuardFirst(call.todo)
      BY <3>1, <3>2 DEF GuardFirst
    <3> QED BY <2>2, <3>3, PersistIsSteps DEF CallOK, Calls
  <2> QED BY <1>7, <2>1, <2>2 DEF Zones
<1>8. CASE \/ RegisterMutation \/ RegisterBoard \/ RegisterFill \/ RegisterSch
           \/ RegisterReload \/ Confirm \/ WriteSch
  BY <1>0, <1>1, <1>8
     DEF RegisterMutation, RegisterBoard, RegisterFill, RegisterSaved, RegisterSch,
         RegisterReload, RegisterStep, Confirm, WriteSch, Doing
<1>9. CASE Disturb
  BY <1>9 DEF Disturb, CallOK, Calls
<1>10. CASE ServerRestart
  <2>1. call' = [Idle("none") EXCEPT !.alone = FALSE]
    BY <1>10 DEF ServerRestart
  <2>2. call' = [todo |-> <<>>, board |-> "closed", mark |-> 0,
                 reply |-> "none", alone |-> FALSE]
    BY <2>1 DEF Idle
  <2>3. <<>> \in Seq(Steps) /\ 0 \in 0..(MaxEdits + 1)
    BY MaxEditsAssumption
  <2>4. call'.todo = <<>> /\ call' \in Calls
    BY <1>1, <2>2, <2>3 DEF Calls, Editors
  <2> QED BY <2>4 DEF CallOK, GuardFirst
<1>11. CASE UNCHANGED vars
  BY <1>11 DEF vars, CallOK
<1>12. CASE CheckBase \/ Mismatch
  BY <1>0, <1>1, <1>12 DEF CheckBase, Refusal, Mismatch, Doing
<1>13. CASE Delta
  <2>1. CASE \E base : ValidBase(base) /\ call' = [call EXCEPT !.todo = DeltaSteps(entries[base])]
    <3>1. PICK base \in DOMAIN entries : call' = [call EXCEPT !.todo = DeltaSteps(entries[base])]
      BY <2>1 DEF ValidBase
    <3>2. DeltaSteps(entries[base]) \in Seq(Steps) /\ GuardFirst(DeltaSteps(entries[base]))
      BY DeltaIsSteps DEF StoreTypeOK
    <3> QED BY <3>1, <3>2 DEF CallOK, Calls
  <2>2. CASE \E base : Return(Refusal(base))
    BY <1>0, <1>1, <2>2 DEF Refusal
  <2> QED BY <1>13, <2>1, <2>2 DEF Delta
<1> QED BY <1>2, <1>3, <1>4, <1>5, <1>6, <1>7, <1>8, <1>9, <1>10, <1>11, <1>12, <1>13
        DEF Next, ToolStep, WorldStep, ExternalWrite, ExternalSchWrite, GuiEdit,
            GuiSave, GuiRevert, ChangeEditor

(***************************************************************************)
(* What a step does to the two copies of the board.                        *)
(***************************************************************************)

Contents == [edits : SUBSET (1..MaxEdits), fill : Fills]

BoardOK ==
  /\ disk \in Contents /\ live \in Contents
  /\ editor \in Editors
  /\ gaps \subseteq Gaps
  /\ nextEdit \in 1..(MaxEdits + 1)

\* What a request of the server or the human may do to the board it is on.
BoardEffect ==
  \/ UNCHANGED <<board, files>>
  \/ EditLive
  \/ \E fill \in Fills : SetFill(fill)
  \/ SaveLive
  \/ RevertLive

\* A request may change the board's copies, never the store or the editor.
LEMMA RequestEffect ==
  ASSUME Mutate \/ Refill \/ Enforce \/ Save \/ PersistFill \/ Revert
  PROVE  BoardEffect /\ UNCHANGED <<memory, editor>> /\ GapsAfter({})
<1>1. ASSUME NEW step, NEW failure, BoardRequest(step, EditLive, failure)
      PROVE  BoardEffect /\ UNCHANGED <<memory, editor>> /\ GapsAfter({})
  BY <1>1 DEF BoardRequest, Request, OnTarget, BoardEffect
<1>2. ASSUME NEW step, NEW failure, NEW fill \in Fills,
             BoardRequest(step, SetFill(fill), failure)
      PROVE  BoardEffect /\ UNCHANGED <<memory, editor>> /\ GapsAfter({})
  BY <1>2 DEF BoardRequest, Request, OnTarget, BoardEffect
<1>3. ASSUME NEW step, NEW failure, BoardRequest(step, SaveLive, failure)
      PROVE  BoardEffect /\ UNCHANGED <<memory, editor>> /\ GapsAfter({})
  BY <1>3 DEF BoardRequest, Request, OnTarget, BoardEffect
<1>4. ASSUME NEW step, NEW failure, BoardRequest(step, RevertLive, failure)
      PROVE  BoardEffect /\ UNCHANGED <<memory, editor>> /\ GapsAfter({})
  BY <1>4 DEF BoardRequest, Request, OnTarget, BoardEffect
<1>5. "stale" \in Fills /\ "safe" \in Fills
  BY DEF Fills
<1> QED BY <1>1, <1>2, <1>3, <1>4, <1>5
        DEF Mutate, Refill, Enforce, Save, PersistFill, Revert

\* No request leaves the editor behind by an edit it was not behind by.
LEMMA EffectKeepsUp ==
  ASSUME BoardOK, BoardEffect, UNCHANGED editor
  PROVE  /\ disk'.edits \ live'.edits \subseteq disk.edits \ live.edits
         /\ Behind' => Behind
<1>1. CASE UNCHANGED <<board, files>>
  BY <1>1 DEF board, Behind
<1>2. CASE EditLive
  <2>1. live'.edits = live.edits \cup {nextEdit} /\ disk' = disk
    BY <1>2 DEF EditLive
  <2> QED BY <2>1 DEF Behind
<1>3. ASSUME NEW fill \in Fills, SetFill(fill)
      PROVE  live'.edits = live.edits /\ disk' = disk
  BY <1>3 DEF SetFill, BoardOK, Contents
<1>4. CASE SaveLive \/ RevertLive
  <2>1. disk'.edits = live'.edits
    BY <1>4 DEF SaveLive, RevertLive
  <2> QED BY <2>1 DEF Behind
<1> QED BY <1>1, <1>2, <1>3, <1>4 DEF BoardEffect, Behind

\* The steps of a call that touch neither copy.
Still ==
  \/ Begin \/ Guard \/ CheckBase \/ Delta \/ Mismatch \/ Resolve \/ Read \/ Work \/ Zones
  \/ RegisterMutation \/ RegisterBoard \/ RegisterFill \/ RegisterSch
  \/ RegisterReload \/ Confirm \/ WriteSch \/ ExternalSchWrite \/ ServerRestart
  \/ UNCHANGED vars

\* A step that is not about the board changes nothing of it.
LEMMA StillIsStill ==
  ASSUME Still
  PROVE  UNCHANGED <<disk, live, nextEdit, editor>>
BY DEF Still, Begin, Guard, CheckBase, Delta, Mismatch, Resolve, Read, Work, Zones, RegisterMutation,
       RegisterBoard, RegisterFill, RegisterSaved, RegisterSch, RegisterReload,
       RegisterStep, Confirm, WriteSch, ExternalSchWrite, ServerRestart, board, vars

Moving ==
  \/ Mutate \/ Refill \/ Enforce \/ Save \/ PersistFill \/ Revert
  \/ GuiEdit \/ GuiSave \/ GuiRevert

\* The steps that change the board's copies do so within BoardEffect.
LEMMA MovingEffect ==
  ASSUME Moving
  PROVE  BoardEffect /\ UNCHANGED <<memory, editor>> /\ GapsAfter({})
BY RequestEffect DEF Moving, GuiEdit, GuiSave, GuiRevert, BoardEffect

\* Every step leaves the board alone, moves edits between its copies, or is of
\* the world.
LEMMA NextIs == [Next]_vars => Still \/ Moving \/ ExternalWrite \/ ChangeEditor
BY DEF Next, ToolStep, WorldStep, Still, Moving

\* There are only the four gaps.
LEMMA GapsType ==
  ASSUME BoardOK, NEW new \in SUBSET Gaps, GapsAfter(new)
  PROVE  gaps' \subseteq Gaps
BY DEF BoardOK, GapsAfter

\* Edits that move between the copies are edits that exist.
LEMMA BoardMoves ==
  ASSUME BoardOK, BoardEffect, editor' = editor, gaps' \subseteq Gaps
  PROVE  BoardOK'
<1>1. MaxEdits \in Nat
  BY MaxEditsAssumption
<1>2. CASE UNCHANGED <<board, files>>
  BY <1>2 DEF BoardOK, board
<1>3. CASE EditLive
  <2>1. nextEdit \in 1..MaxEdits /\ nextEdit' = nextEdit + 1 /\ disk' = disk
    BY <1>1, <1>3 DEF EditLive, BoardOK
  <2>2. live' \in Contents
    BY <1>3, <2>1 DEF EditLive, BoardOK, Contents, Fills
  <2> QED BY <1>1, <2>1, <2>2 DEF BoardOK
<1>4. ASSUME NEW fill \in Fills, SetFill(fill)
      PROVE  BoardOK'
  <2>1. live' \in Contents
    BY <1>4 DEF SetFill, BoardOK, Contents, Fills
  <2> QED BY <1>4, <2>1 DEF SetFill, BoardOK
<1>5. CASE SaveLive \/ RevertLive
  BY <1>5 DEF SaveLive, RevertLive, BoardOK
<1> QED BY <1>2, <1>3, <1>4, <1>5 DEF BoardEffect

\* BoardOK is kept by every step.
LEMMA BoardStep ==
  ASSUME BoardOK, [Next]_vars
  PROVE  BoardOK'
<1>0. MaxEdits \in Nat
  BY MaxEditsAssumption
<1>1. gaps' \subseteq Gaps
  <2>1. \A g \in Gaps : GapsAfter({g}) => gaps' \subseteq Gaps
    BY GapsType
  <2>2. GapsAfter({}) => gaps' \subseteq Gaps
    BY GapsType
  <2>3. CASE UNCHANGED gaps
    BY <2>3 DEF BoardOK
  <2>4. CASE Moving
    BY <2>2, <2>4, MovingEffect
  <2>5. CASE ExternalWrite
    BY <2>1, <2>2, <2>5 DEF ExternalWrite, Gaps
  <2>6. CASE ChangeEditor
    BY <2>2, <2>6 DEF ChangeEditor
  <2>7. CASE Still
    BY <2>1, <2>2, <2>3, <2>7
       DEF Still, Begin, Guard, CheckBase, Delta, Mismatch, Resolve, Read, Work, Zones, RegisterMutation,
           RegisterBoard, RegisterFill, RegisterSaved, RegisterSch, RegisterReload,
           Confirm, WriteSch, ExternalSchWrite, ServerRestart, vars, Gaps
  <2> QED BY <2>4, <2>5, <2>6, <2>7, NextIs
<1>2. CASE Still
  BY <1>1, <1>2, StillIsStill DEF BoardOK
<1>3. CASE Moving
  BY <1>1, <1>3, MovingEffect, BoardMoves
<1>4. CASE ExternalWrite
  <2>1. nextEdit \in 1..MaxEdits /\ nextEdit' = nextEdit + 1
    BY <1>0, <1>4 DEF ExternalWrite, MayEdit, BoardOK
  <2>2. disk' \in Contents
    BY <1>4, <2>1 DEF ExternalWrite, BoardOK, Contents
  <2> QED BY <1>0, <1>1, <1>4, <2>1, <2>2 DEF ExternalWrite, BoardOK
<1>5. CASE ChangeEditor
  <2>1. NoBoard \in Contents
    BY DEF NoBoard, Contents, Fills
  <2> QED BY <1>1, <1>5, <2>1 DEF ChangeEditor, BoardOK
<1> QED BY <1>2, <1>3, <1>4, <1>5, NextIs

(***************************************************************************)
(* The guard.                                                              *)
(***************************************************************************)

\* Every file exists and every anchor has the .kicad_pcb in it.
AnchorsPcb ==
  /\ \A f \in Files : mtime[f] # 0
  /\ \A m \in latestDiskMtimes : Pcb \in DOMAIN m

\* Every mtime that is collected is of both project files.
LEMMA AnchorsStep ==
  ASSUME StoreTypeOK, AnchorsPcb, StoreUse
  PROVE  AnchorsPcb'
<1>2. \/ mtime' = mtime
      \/ \E f \in Files : mtime' = [mtime EXCEPT ![f] = clock + 1]
  BY DEF StoreUse, RegisterDisk, RegisterLive, ClearLiveStale, WriteFile, Write,
         Restart, files, storeVars
<1>3. \A f \in Files : mtime'[f] # 0
  BY <1>2 DEF StoreTypeOK, AnchorsPcb
<1>4. \/ latestDiskMtimes' \subseteq latestDiskMtimes
      \/ latestDiskMtimes' = {CollectMtimes}
  BY DEF StoreUse, RegisterDisk, RegisterLive, Register, ClearLiveStale, WriteFile,
         Restart, ForgetAll, memory, storeVars
<1>5. Pcb \in DOMAIN CollectMtimes
  BY FilesFacts DEF AnchorsPcb, CollectMtimes
<1> QED BY <1>3, <1>4, <1>5 DEF AnchorsPcb

\* While flag and anchor stay what they are, a guard that refuses goes on
\* refusing.
LEMMA GuardStays ==
  ASSUME StoreInv, [StoreNext]_storeVars, Guarded,
         UNCHANGED <<liveStale, latestDiskMtimes>>
  PROVE  Guarded'
<1>1. CASE liveStale
  BY <1>1 DEF Guarded
<1>2. CASE ~NoExternalEdit
  <2>1. PICK m \in latestDiskMtimes : \E f \in DOMAIN m : Changed(m, f)
    BY <1>2 DEF NoExternalEdit, Unchanged
  <2>2. PICK f \in DOMAIN m : Changed(m, f)
    BY <2>1
  <2>3. IsMtimes(m) /\ PastWrite(m)
    BY DEF StoreInv, StoreTypeOK, OptionalMtimes, RecordedMtimesPast
  <2>4. mtime'[f] # m[f]
    BY <2>2, <2>3, ChangeIsForEver
  <2> QED BY <2>4 DEF Guarded, NoExternalEdit, Unchanged, Changed
<1> QED BY <1>1, <1>2 DEF Guarded

\* A step with no excuse of its own opens no gap.
LEMMA NoNewGap ==
  ASSUME BehindIsGuarded, GapsAfter({}), Behind' => Behind, Guarded => Guarded'
  PROVE  BehindIsGuarded'
BY DEF BehindIsGuarded, GapsAfter

\* A step that names a gap needs no guard.
LEMMA GapNamed ==
  ASSUME NEW g, GapsAfter({g})
  PROVE  BehindIsGuarded'
BY DEF BehindIsGuarded, GapsAfter

\* A step that takes no edit to the disk alone leaves the editor as guarded as
\* it was.
LEMMA BehindMoves ==
  ASSUME StoreInv, BoardOK, BehindIsGuarded, BoardEffect, UNCHANGED <<memory, editor>>,
         GapsAfter({}), [StoreNext]_storeVars
  PROVE  BehindIsGuarded'
<1>1. UNCHANGED <<liveStale, latestDiskMtimes>> /\ (Behind' => Behind)
  BY EffectKeepsUp DEF memory
<1>2. Guarded => Guarded'
  BY <1>1, GuardStays
<1> QED BY <1>1, <1>2, NoNewGap

\* A write behind the back of the editor opens a gap only where there is no
\* anchor to notice it by.
LEMMA BehindWrites ==
  ASSUME StoreInv, AnchorsPcb, Write(Pcb), UNCHANGED memory,
         GapsAfter(IF latestDiskMtimes = {} THEN {"unanchored"} ELSE {})
  PROVE  BehindIsGuarded'
<1>1. CASE latestDiskMtimes = {}
  BY <1>1, GapNamed
<1>2. CASE latestDiskMtimes # {}
  <2>1. PICK m \in latestDiskMtimes : Pcb \in DOMAIN m
    BY <1>2 DEF AnchorsPcb
  <2>2. m[Pcb] \in 1..clock /\ clock \in Nat /\ mtime \in [Files -> Nat]
    BY <2>1 DEF StoreInv, StoreTypeOK, RecordedMtimesPast, PastWrite
  <2>3. mtime'[Pcb] = clock + 1
    BY <2>2, FilesFacts DEF Write
  <2>4. latestDiskMtimes' = latestDiskMtimes
    BY DEF memory
  <2>5. Guarded'
    BY <2>1, <2>2, <2>3, <2>4 DEF Guarded, NoExternalEdit, Unchanged, Changed
  <2> QED BY <2>5 DEF BehindIsGuarded
<1> QED BY <1>1, <1>2

\* An external write changes an mtime of the anchor; whatever else puts the
\* editor behind the disk sets the flag or names a gap.
LEMMA BehindStep ==
  ASSUME StoreInv, BoardOK, AnchorsPcb, BehindIsGuarded, [Next]_vars
  PROVE  BehindIsGuarded'
<1>0. UNCHANGED <<liveStale, latestDiskMtimes>> /\ Guarded => Guarded'
  BY StepIsStoreStep, GuardStays
<1>1. CASE Moving
  BY <1>1, MovingEffect, BehindMoves, StepIsStoreStep
<1>2. CASE ExternalWrite
  BY <1>2, BehindWrites DEF ExternalWrite
<1>3. CASE ChangeEditor
  <2>1. ~Behind'
    BY <1>3 DEF ChangeEditor, Behind
  <2> QED BY <2>1 DEF BehindIsGuarded
<1>4. CASE Still
  <2>1. Behind' <=> Behind
    BY <1>4, StillIsStill DEF Behind
  <2>2. CASE UNCHANGED <<liveStale, latestDiskMtimes, gaps>>
    BY <1>0, <2>1, <2>2 DEF BehindIsGuarded
  <2>3. CASE RegisterMutation
    <3>1. UNCHANGED <<liveStale, latestDiskMtimes>> /\ GapsAfter({})
      BY <2>3 DEF RegisterMutation, RegisterStep, Register, KeepStale
    <3> QED BY <1>0, <2>1, <3>1, NoNewGap
  <2>4. CASE \E g : GapsAfter({g})
    BY <2>4, GapNamed
  <2> QED BY <1>4, <2>2, <2>3, <2>4
          DEF Still, Begin, Guard, CheckBase, Delta, Mismatch, Resolve, Read, Work, Zones, RegisterBoard,
              RegisterFill, RegisterSaved, RegisterSch, RegisterReload, Confirm,
              WriteSch, ExternalSchWrite, ServerRestart, memory, storeVars, vars
<1> QED BY <1>1, <1>2, <1>3, <1>4, NextIs

(***************************************************************************)
(* The mark of a call: what its guard has seen.                            *)
(***************************************************************************)

MarkOK ==
  /\ call.mark <= nextEdit
  /\ call.mark # 0 /\ gaps = {} /\ Behind =>
       \A e \in disk.edits \ live.edits : e >= call.mark

\* A call's mark changes only where its guard passes, and where it ends.
LEMMA MarkMoves ==
  ASSUME CallOK, [Next]_vars
  PROVE  \/ call'.mark \in {0, call.mark}
         \/ Guard /\ ~Guarded /\ call'.mark = nextEdit
<1>0. call \in Calls
  BY DEF CallOK
<1>1. ASSUME NEW reply, Return(reply) PROVE call'.mark = 0
  BY <1>1 DEF Return, Idle
<1>2. Continue => call'.mark \in {0, call.mark}
  BY <1>0, <1>1 DEF Continue, Calls
<1>3. Disturb => call'.mark = call.mark
  BY <1>0 DEF Disturb, Calls
<1>4. CASE Begin
  BY <1>4 DEF Begin
<1>5. CASE Guard
  BY <1>0, <1>1, <1>5 DEF Guard, Guarded, Calls
<1>6. CASE CheckBase \/ Delta \/ Mismatch \/ Resolve \/ Zones
  BY <1>0, <1>1, <1>2, <1>6 DEF CheckBase, Delta, Mismatch, Resolve, Zones, Calls
<1>7. ASSUME NEW step, NEW effect, NEW failure, BoardRequest(step, effect, failure)
      PROVE  call'.mark \in {0, call.mark}
  BY <1>1, <1>2, <1>7 DEF BoardRequest, Request
<1>8. CASE Mutate \/ Refill \/ Enforce \/ Save \/ PersistFill \/ Revert
  BY <1>7, <1>8 DEF Mutate, Refill, Enforce, Save, PersistFill, Revert
<1>9. CASE \/ Read \/ Work \/ RegisterMutation \/ RegisterBoard \/ RegisterFill
           \/ RegisterSch \/ RegisterReload \/ Confirm \/ WriteSch
  BY <1>1, <1>2, <1>9
     DEF Read, Work, RegisterMutation, RegisterBoard, RegisterFill, RegisterSaved,
         RegisterSch, RegisterReload, RegisterStep, Confirm, WriteSch
<1>10. CASE WorldStep
  <2>1. CASE ServerRestart
    BY <2>1 DEF ServerRestart, Idle
  <2> QED BY <1>3, <1>10, <2>1
          DEF WorldStep, ExternalWrite, ExternalSchWrite, GuiEdit, GuiSave, GuiRevert,
              ChangeEditor
<1>11. CASE UNCHANGED vars
  BY <1>11 DEF vars
<1> QED BY <1>4, <1>5, <1>6, <1>8, <1>9, <1>10, <1>11 DEF Next, ToolStep

\* Once the editor is behind in a known way, it stays so until it catches up.
LEMMA GapsLast ==
  ASSUME [Next]_vars, gaps' = {}, Behind'
  PROVE  gaps = {}
<1>1. ASSUME NEW new, GapsAfter(new) PROVE gaps = {}
  BY <1>1 DEF GapsAfter
<1>2. CASE UNCHANGED gaps
  BY <1>2
<1>3. CASE Moving
  BY <1>1, <1>3, MovingEffect
<1>4. CASE Still \/ ExternalWrite \/ ChangeEditor
  BY <1>1, <1>2, <1>4
     DEF Still, Begin, Guard, CheckBase, Delta, Mismatch, Resolve, Read, Work, Zones, RegisterMutation,
         RegisterBoard, RegisterFill, RegisterSaved, RegisterSch, RegisterReload,
         Confirm, WriteSch, ExternalSchWrite, ServerRestart, ExternalWrite,
         ChangeEditor, vars
<1> QED BY <1>3, <1>4, NextIs

\* A guard that passes finds the editor in step with the disk; what comes to
\* the disk later is later than the mark.
LEMMA MarkStep ==
  ASSUME CallOK, BoardOK, BehindIsGuarded, MarkOK, [Next]_vars
  PROVE  MarkOK'
<1>0. nextEdit \in Nat /\ call.mark \in Nat /\ MaxEdits \in Nat
  BY MaxEditsAssumption DEF BoardOK, CallOK, Calls
<1>1. nextEdit' \in {nextEdit, nextEdit + 1}
  <2>1. CASE Moving
    BY <2>1, MovingEffect
       DEF BoardEffect, board, EditLive, SetFill, SaveLive, RevertLive
  <2> QED BY <2>1, NextIs, StillIsStill DEF ExternalWrite, ChangeEditor
<1>2. call'.mark \in {0, call.mark} \/ (Guard /\ ~Guarded /\ call'.mark = nextEdit)
  BY MarkMoves
<1>3. call'.mark <= nextEdit'
  BY <1>0, <1>1, <1>2 DEF MarkOK
<1>4. ASSUME call'.mark # 0, gaps' = {}, Behind'
      PROVE  \A e \in disk'.edits \ live'.edits : e >= call'.mark
  <2>1. gaps = {}
    BY <1>4, GapsLast
  <2>2. CASE Guard /\ ~Guarded /\ call'.mark = nextEdit
    <3>1. Behind
      BY <1>4, <2>2 DEF Guard, Behind, board
    <3> QED BY <2>1, <2>2, <3>1 DEF BehindIsGuarded
  <2>3. CASE call'.mark = call.mark
    <3>1. CASE Still
      <4>1. UNCHANGED <<disk, live, editor>>
        BY <3>1, StillIsStill
      <4>2. Behind
        BY <1>4, <4>1 DEF Behind
      <4> QED BY <1>4, <2>1, <2>3, <4>1, <4>2 DEF MarkOK
    <3>2. CASE Moving
      <4>1. /\ disk'.edits \ live'.edits \subseteq disk.edits \ live.edits
            /\ Behind
        BY <1>4, <3>2, MovingEffect, EffectKeepsUp
      <4> QED BY <1>4, <2>1, <2>3, <4>1 DEF MarkOK
    <3>3. CASE ExternalWrite
      <4>1. /\ disk'.edits = disk.edits \cup {nextEdit}
            /\ UNCHANGED <<live, editor>>
        BY <3>3 DEF ExternalWrite, BoardOK, Contents
      <4>2. editor = "target"
        BY <1>4, <4>1 DEF Behind
      <4>3. \A e \in disk.edits \ live.edits : e >= call.mark
        BY <1>4, <2>1, <2>3, <4>2 DEF MarkOK, Behind
      <4>4. nextEdit >= call.mark
        BY <1>0 DEF MarkOK
      <4> QED BY <2>3, <4>1, <4>3, <4>4
    <3>4. CASE ChangeEditor
      BY <1>4, <3>4 DEF ChangeEditor, Behind
    <3> QED BY <3>1, <3>2, <3>3, <3>4, NextIs
  <2> QED BY <1>2, <1>4, <2>2, <2>3
<1> QED BY <1>3, <1>4 DEF MarkOK

(***************************************************************************)
(* The inductive invariant and what follows from it.                       *)
(***************************************************************************)

SyncInv ==
  StoreInv /\ CallOK /\ BoardOK /\ AnchorsPcb /\ BehindIsGuarded /\ MarkOK

\* Editor and disk begin equal, with no call running.
LEMMA SyncInit == Init => SyncInv
<1> SUFFICES ASSUME Init PROVE SyncInv
  OBVIOUS
<1>1. StoreInv
  BY StoreInvInit DEF Init
<1>2. MaxEdits \in Nat
  BY MaxEditsAssumption
<1>3. CallOK
  <2>1. /\ call.todo = <<>> /\ <<>> \in Seq(Steps)
        /\ 0 \in 0..(MaxEdits + 1)
        /\ "none" \in Replies /\ "closed" \in Editors
    BY <1>2 DEF Init, Replies, Editors
  <2> QED BY <2>1 DEF Init, CallOK, Calls, GuardFirst
<1>4. BoardOK
  BY <1>2 DEF Init, BoardOK, Contents, Fills, Editors, Gaps
<1>5. AnchorsPcb
  BY DEF Init, StoreInit, AnchorsPcb
<1>6. ~Behind /\ call.mark = 0 /\ nextEdit = 1
  BY DEF Init, Behind
<1>7. BehindIsGuarded /\ MarkOK
  BY <1>6 DEF BehindIsGuarded, MarkOK
<1> QED BY <1>1, <1>3, <1>4, <1>5, <1>7 DEF SyncInv

\* By the lemmas above, one for each part of the invariant.
LEMMA SyncStep == SyncInv /\ [Next]_vars => SyncInv'
<1> SUFFICES ASSUME SyncInv, [Next]_vars PROVE SyncInv'
  OBVIOUS
<1>1. StoreInv'
  BY StepIsStoreStep, StoreInvStep DEF SyncInv
<1>2. CallOK'
  BY CallStep DEF SyncInv, StoreInv, BoardOK
<1>3. BoardOK'
  BY BoardStep DEF SyncInv
<1>4. AnchorsPcb'
  BY AnchorsStep, StepUsesStore DEF SyncInv, StoreInv
<1>5. BehindIsGuarded'
  BY BehindStep DEF SyncInv
<1>6. MarkOK'
  BY MarkStep DEF SyncInv
<1> QED BY <1>1, <1>2, <1>3, <1>4, <1>5, <1>6 DEF SyncInv

\* The store keeps its invariant, a call saves only after its guard, an editor
\* behind the disk is guarded or has a named gap, and what it lacks is newer
\* than the mark of the call.
THEOREM SyncInvariant == Spec => []SyncInv
BY SyncInit, SyncStep, PTL DEF Spec

\* The variables of the composed system keep their types.
THEOREM SyncTypeCorrect == Spec => []TypeOK
<1>1. SyncInv => TypeOK
  BY DEF SyncInv, StoreInv, CallOK, BoardOK, Contents, TypeOK
<1> QED BY <1>1, SyncInvariant, PTL

\* Whatever the interleaving of tools, human, other programs and restarts, an
\* editor behind the disk is guarded outside the four gaps.
THEOREM BehindCorrect == Spec => []BehindIsGuarded
<1>1. SyncInv => BehindIsGuarded
  BY DEF SyncInv
<1> QED BY <1>1, SyncInvariant, PTL

\* The step of a save comes after its guard.
LEMMA SavesAreMarked ==
  ASSUME CallOK, Save \/ PersistFill
  PROVE  call.mark # 0
<1>1. call.todo \in Seq(Steps) /\ call.todo # <<>> /\ call.todo[1] \in {"save", "persist"}
  BY DEF CallOK, Calls, Save, PersistFill, BoardRequest, Doing, Running
<1>2. 1 \in 1..Len(call.todo) /\ call.todo[1] \in Critical
  BY <1>1, LenProperties DEF Critical
<1>3. ~GuardFirst(call.todo)
  BY <1>2 DEF GuardFirst
<1> QED BY <1>3 DEF CallOK

\* A save that does anything copies the board of the editor over the disk.
LEMMA SaveWrites ==
  ASSUME Save \/ PersistFill
  PROVE  disk' = disk \/ (editor = "target" /\ disk' = live)
<1>1. ASSUME NEW step, NEW failure, BoardRequest(step, SaveLive, failure)
      PROVE  disk' = disk \/ (editor = "target" /\ disk' = live)
  BY <1>1 DEF BoardRequest, Request, OnTarget, Reachable, SaveLive, board
<1> QED BY <1>1 DEF Save, PersistFill

\* save_board and the filling tools never save without a guard, and outside
\* the gaps overwrite only what was written after their guard passed.
THEOREM SaveCorrect == Spec => SaveKeepsDisk
<1>1. ASSUME SyncInv, [Next]_vars
      PROVE  Save \/ PersistFill =>
               /\ call.mark # 0
               /\ gaps # {} \/ \A e \in disk.edits \ disk'.edits : e >= call.mark
  <2> SUFFICES ASSUME Save \/ PersistFill
               PROVE  /\ call.mark # 0
                      /\ gaps # {} \/ \A e \in disk.edits \ disk'.edits : e >= call.mark
    OBVIOUS
  <2>1. call.mark # 0
    BY <1>1, SavesAreMarked DEF SyncInv
  <2>2. ASSUME gaps = {}, NEW e \in disk.edits \ disk'.edits
        PROVE  e >= call.mark
    <3>1. editor = "target" /\ disk' = live
      BY <2>2, SaveWrites
    <3>2. Behind /\ e \in disk.edits \ live.edits
      BY <2>2, <3>1 DEF Behind
    <3> QED BY <1>1, <2>1, <2>2, <3>2 DEF SyncInv, MarkOK
  <2> QED BY <2>1, <2>2
<1> QED BY <1>1, SyncInvariant, PTL DEF Spec, SaveKeepsDisk

(***************************************************************************)
(* An undisturbed call.                                                    *)
(***************************************************************************)

FileWrites == {"save", "persist", "writeSch"}
DiskRegisters == {"registerBoard", "registerFill", "registerSch", "registerReload"}

\* The order of the steps: whatever writes a file is registered later; a fill
\* is saved after its clearance and registered right after that; a reload is
\* registered after one read; and a delta is not decided before something else.
Ordered(todo) ==
  /\ \A i \in 1..Len(todo) :
       todo[i] \in FileWrites =>
         \E j \in 1..Len(todo) : j > i /\ todo[j] \in DiskRegisters
  /\ \A i \in 2..Len(todo) :
       /\ todo[i] = "persist" => todo[i - 1] = "enforce"
       /\ todo[i] = "registerFill" => todo[i - 1] = "persist"
       /\ todo[i] = "registerReload" => todo[i - 1] = "read"
  /\ \A i \in 3..Len(todo) : todo[i] = "registerReload" => todo[i - 2] = "revert"
  /\ \A i \in 1..Len(todo) : todo[i] = "delta" => i = Len(todo)

\* A snapshot with mtimes is still to be registered.
WillRegister(todo) == \E i \in 1..Len(todo) : todo[i] \in DiskRegisters

\* The step that a list of steps has at a place, if it is that long.
At(todo, i, step) == Len(todo) >= i /\ todo[i] = step

\* What an undisturbed call has seen, made or saved is still so.
UndisturbedOK ==
  /\ Ordered(call.todo)
  /\ call.alone /\ call.mark # 0 /\ Running => NoExternalEdit \/ WillRegister(call.todo)
  /\ call.alone /\ call.board = "target" =>
       /\ At(call.todo, 1, "persist") => live.fill # "stale"
       /\ At(call.todo, 1, "registerFill") => disk = live /\ live.fill # "stale"
       /\ At(call.todo, 1, "registerReload") \/ At(call.todo, 2, "registerReload") => disk = live

\* Whatever writes a file in a program has its registration after it.
LEMMA ProgramsAreOrdered ==
  ASSUME NEW tool \in Tools
  PROVE  Ordered(Program[tool])
<1> USE DEF Ordered, FileWrites, DiskRegisters
<1>1. Ordered(IpcEdit)
  BY DEF IpcEdit
<1>2. Ordered(MoveFootprint)
  BY DEF MoveFootprint
<1>3. Ordered(AddZone)
  BY DEF AddZone
<1>4. Ordered(DeleteTracksBulk)
  BY DEF DeleteTracksBulk
<1>5. Ordered(FillZones)
  BY DEF FillZones
<1>6. Ordered(SaveBoard)
  BY DEF SaveBoard
<1>7. Ordered(ReloadBoard)
  BY DEF ReloadBoard
<1>8. Ordered(LiveContext)
  BY DEF LiveContext
<1>9. Ordered(SchContext)
  BY DEF SchContext
<1>10. Ordered(ContextDelta)
  BY DEF ContextDelta
<1>11. Ordered(SchEdit)
  BY DEF SchEdit
<1>12. Ordered(ConfirmReloaded)
  BY DEF ConfirmReloaded
<1> HIDE DEF Ordered
<1>13. /\ Ordered(AddTrack) /\ Ordered(AddVia) /\ Ordered(DeleteCopper) /\ Ordered(SetFootprintRef)
       /\ Ordered(DrawBoardOutline) /\ Ordered(AddKeepoutZone) /\ Ordered(DeleteZone)
       /\ Ordered(AddSymbol) /\ Ordered(SetProperty) /\ Ordered(ConnectPins)
  BY <1>1, <1>11 DEF AddTrack, AddVia, DeleteCopper, SetFootprintRef, DrawBoardOutline,
                     AddKeepoutZone, DeleteZone, AddSymbol, SetProperty, ConnectPins
<1>14. tool \in AllTools
  BY ToolsAssumption
<1> QED BY <1>2, <1>3, <1>4, <1>5, <1>6, <1>7, <1>8, <1>9, <1>10, <1>12, <1>13, <1>14
        DEF AllTools, Program

\* The fill is saved and then registered.
LEMMA PersistIsOrdered == Ordered(Persist) /\ WillRegister(Persist)
<1>1. Len(Persist) = 4 /\ Persist[4] \in DiskRegisters
  BY DEF Persist, DiskRegisters
<1>2. WillRegister(Persist)
  BY <1>1 DEF WillRegister
<1>3. Ordered(Persist)
  BY DEF Persist, Ordered, FileWrites, DiskRegisters
<1> QED BY <1>2, <1>3

\* The steps of a delta save nothing and rely on nothing.
LEMMA DeltaIsOrdered ==
  ASSUME NEW entry, entry.kind \in Kinds
  PROVE  Ordered(DeltaSteps(entry)) /\ ~At(DeltaSteps(entry), 1, "persist")
         /\ ~At(DeltaSteps(entry), 1, "registerFill")
         /\ ~At(DeltaSteps(entry), 1, "registerReload")
         /\ ~At(DeltaSteps(entry), 2, "registerReload")
<1> USE DEF Ordered, FileWrites, DiskRegisters, At
<1>1. CASE entry.mtimes = {}
  BY <1>1 DEF DeltaSteps
<1>2. CASE entry.mtimes # {} /\ entry.kind = "sch"
  BY <1>2 DEF DeltaSteps
<1>3. CASE entry.mtimes # {} /\ entry.kind = "pcb"
  <2>1. DeltaSteps(entry) = <<"build", "registerSch", "mismatch">>
    BY <1>3 DEF DeltaSteps
  <2> QED BY <2>1
<1> QED BY <1>1, <1>2, <1>3 DEF Kinds

\* What follows the first step of an ordered list.
LEMMA TailOrdered ==
  ASSUME NEW todo \in Seq(Steps), todo # <<>>, Ordered(todo)
  PROVE  /\ Ordered(Tail(todo))
         /\ At(Tail(todo), 1, "persist") => todo[1] = "enforce"
         /\ At(Tail(todo), 1, "registerFill") => todo[1] = "persist"
         /\ At(Tail(todo), 1, "registerReload") =>
              todo[1] = "read" /\ At(todo, 2, "registerReload")
         /\ At(Tail(todo), 2, "registerReload") => todo[1] = "revert"
         /\ todo[1] \in FileWrites => WillRegister(Tail(todo))
         /\ WillRegister(todo) /\ todo[1] \notin DiskRegisters => WillRegister(Tail(todo))
<1> DEFINE rest == Tail(todo)
<1>1. /\ rest \in Seq(Steps)
      /\ Len(todo) \in Nat
      /\ Len(todo) >= 1
      /\ Len(rest) = Len(todo) - 1
      /\ \A i \in 1..Len(rest) : rest[i] = todo[i + 1]
  BY HeadTailProperties, LenProperties
<1> HIDE DEF rest
<1>2. ASSUME NEW i \in 1..Len(rest), rest[i] \in FileWrites
      PROVE  \E j \in 1..Len(rest) : j > i /\ rest[j] \in DiskRegisters
  <2>1. i + 1 \in 1..Len(todo) /\ todo[i + 1] \in FileWrites
    BY <1>1, <1>2
  <2>2. PICK j \in 1..Len(todo) : j > i + 1 /\ todo[j] \in DiskRegisters
    BY <2>1 DEF Ordered
  <2>3. j - 1 \in 1..Len(rest) /\ j - 1 > i /\ rest[j - 1] \in DiskRegisters
    BY <1>1, <2>2
  <2> QED BY <2>3
<1>3. ASSUME NEW i \in 2..Len(rest)
      PROVE  /\ rest[i] = "persist" => rest[i - 1] = "enforce"
             /\ rest[i] = "registerFill" => rest[i - 1] = "persist"
             /\ rest[i] = "registerReload" => rest[i - 1] = "read"
  <2>1. i + 1 \in 2..Len(todo) /\ (i + 1) - 1 = (i - 1) + 1
    BY <1>1
  <2>2. rest[i] = todo[i + 1] /\ rest[i - 1] = todo[(i + 1) - 1]
    BY <1>1, <2>1
  <2> QED BY <2>1, <2>2 DEF Ordered
<1>4. ASSUME NEW i \in 3..Len(rest), rest[i] = "registerReload"
      PROVE  rest[i - 2] = "revert"
  <2>1. i + 1 \in 3..Len(todo)
    BY <1>1
  <2>2. rest[i] = todo[i + 1] /\ rest[i - 2] = todo[(i + 1) - 2]
    BY <1>1
  <2> QED BY <1>4, <2>1, <2>2 DEF Ordered
<1>5. ASSUME NEW i \in 1..Len(rest), rest[i] = "delta"
      PROVE  i = Len(rest)
  <2>1. i + 1 \in 1..Len(todo) /\ todo[i + 1] = "delta"
    BY <1>1, <1>5
  <2> QED BY <1>1, <2>1 DEF Ordered
<1>6. Ordered(rest)
  BY <1>2, <1>3, <1>4, <1>5 DEF Ordered
<1>7. ASSUME Len(rest) >= 1
      PROVE  /\ rest[1] = todo[2] /\ 2 \in 2..Len(todo) /\ 2 - 1 = 1
             /\ rest[1] = "persist" => todo[1] = "enforce"
             /\ rest[1] = "registerFill" => todo[1] = "persist"
             /\ rest[1] = "registerReload" => todo[1] = "read"
  <2>1. rest[1] = todo[2] /\ 2 \in 2..Len(todo) /\ 2 - 1 = 1
    BY <1>1, <1>7
  <2> QED BY <2>1 DEF Ordered
<1>8. ASSUME Len(rest) >= 2, rest[2] = "registerReload"
      PROVE  todo[1] = "revert"
  <2>1. todo[3] = "registerReload" /\ 3 \in 3..Len(todo) /\ 3 - 2 = 1
    BY <1>1, <1>8
  <2> QED BY <2>1 DEF Ordered
<1>9. ASSUME todo[1] \in FileWrites
      PROVE  WillRegister(rest)
  <2>1. PICK j \in 1..Len(todo) : j > 1 /\ todo[j] \in DiskRegisters
    BY <1>1, <1>9 DEF Ordered
  <2>2. j - 1 \in 1..Len(rest) /\ rest[j - 1] \in DiskRegisters
    BY <1>1, <2>1
  <2> QED BY <2>2 DEF WillRegister
<1>10. ASSUME WillRegister(todo), todo[1] \notin DiskRegisters
       PROVE  WillRegister(rest)
  <2>1. PICK j \in 1..Len(todo) : todo[j] \in DiskRegisters
    BY <1>10 DEF WillRegister
  <2>2. j # 1
    BY <1>10, <2>1
  <2>3. j - 1 \in 1..Len(rest) /\ rest[j - 1] \in DiskRegisters
    BY <1>1, <2>1, <2>2
  <2> QED BY <2>3 DEF WillRegister
<1>11. At(rest, 1, "registerReload") => At(todo, 2, "registerReload")
  BY <1>1, <1>7 DEF At
<1> QED BY <1>6, <1>7, <1>8, <1>9, <1>10, <1>11 DEF At, rest

\* A call that has ended relies on nothing.
LEMMA EmptyIsOrdered == Ordered(<<>>)
BY DEF Ordered

\* A call that ends has nothing to keep.
LEMMA EndedCall ==
  ASSUME call'.todo = <<>>
  PROVE  UndisturbedOK'
BY EmptyIsOrdered DEF UndisturbedOK, Running, At

\* Nor has one that was disturbed.
LEMMA DisturbedCall ==
  ASSUME ~call'.alone, Ordered(call'.todo)
  PROVE  UndisturbedOK'
BY DEF UndisturbedOK

\* A call goes on to its next step, which finds what it stands on.
LEMMA NextStands ==
  ASSUME CallOK, UndisturbedOK, Running,
         call'.todo = Tail(call.todo), call'.alone = call.alone,
         call'.alone /\ call'.mark # 0 => NoExternalEdit' \/ WillRegister(call'.todo),
         call'.alone /\ call'.board = "target" =>
           /\ Head(call.todo) = "enforce" => live'.fill # "stale"
           /\ Head(call.todo) = "persist" => disk' = live' /\ live'.fill # "stale"
           /\ Head(call.todo) = "revert" => disk' = live'
           /\ Head(call.todo) = "read" => UNCHANGED <<disk, live>> /\ call'.board = call.board
  PROVE  UndisturbedOK'
<1>1. call.todo \in Seq(Steps) /\ call.todo # <<>> /\ Ordered(call.todo)
  BY DEF CallOK, Calls, Running, UndisturbedOK
<1>2. /\ Ordered(Tail(call.todo))
      /\ At(Tail(call.todo), 1, "persist") => Head(call.todo) = "enforce"
      /\ At(Tail(call.todo), 1, "registerFill") => Head(call.todo) = "persist"
      /\ At(Tail(call.todo), 1, "registerReload") =>
           Head(call.todo) = "read" /\ At(call.todo, 2, "registerReload")
      /\ At(Tail(call.todo), 2, "registerReload") => Head(call.todo) = "revert"
  BY <1>1, TailOrdered
<1> QED BY <1>2 DEF UndisturbedOK

\* A step that writes no file, and registers none, leaves the guard as it was.
LEMMA GuardKept ==
  ASSUME CallOK, UndisturbedOK, Running, call'.todo = Tail(call.todo), call'.alone = call.alone,
         Head(call.todo) \notin DiskRegisters,
         call'.mark = call.mark, UNCHANGED <<mtime, latestDiskMtimes>>
  PROVE  call'.alone /\ call'.mark # 0 => NoExternalEdit' \/ WillRegister(call'.todo)
<1>1. call.todo \in Seq(Steps) /\ call.todo # <<>> /\ Ordered(call.todo)
  BY DEF CallOK, Calls, Running, UndisturbedOK
<1>2. WillRegister(call.todo) => WillRegister(call'.todo)
  BY <1>1, TailOrdered
<1>3. NoExternalEdit => NoExternalEdit'
  BY DEF NoExternalEdit, Unchanged, Changed
<1> QED BY <1>2, <1>3 DEF UndisturbedOK

\* A step takes a call to its next step or to its end.
LEMMA ContinueIs ==
  ASSUME CallOK, Running, Continue
  PROVE  \/ call'.todo = <<>>
         \/ /\ call'.todo = Tail(call.todo) /\ call'.mark = call.mark
            /\ call'.alone = call.alone /\ call'.board = call.board
BY DEF Continue, Return, Idle, CallOK, Calls

\* A reply ends the call.
LEMMA ReturnEnds ==
  ASSUME NEW reply, Return(reply)
  PROVE  call'.todo = <<>>
BY DEF Return, Idle

\* A step that only looks, and the edits that leave the fills out of date.
LEMMA QuietStep ==
  ASSUME CallOK, UndisturbedOK, Running, call'.todo = Tail(call.todo), call'.alone = call.alone,
         Head(call.todo) \notin DiskRegisters \cup FileWrites \cup {"enforce", "revert"},
         call'.mark = call.mark, UNCHANGED <<mtime, latestDiskMtimes>>,
         Head(call.todo) = "read" => UNCHANGED <<disk, live>> /\ call'.board = call.board
  PROVE  UndisturbedOK'
<1>1. call'.alone /\ call'.mark # 0 => NoExternalEdit' \/ WillRegister(call'.todo)
  BY GuardKept
<1>2. Head(call.todo) # "persist"
  BY DEF FileWrites
<1> QED BY <1>1, <1>2, NextStands

\* What a request of each kind does where it goes on.
LEMMA RequestGoesOn ==
  ASSUME NEW step, NEW effect, NEW failure, BoardRequest(step, effect, failure)
  PROVE  /\ Running /\ Head(call.todo) = step /\ UNCHANGED latestDiskMtimes
         /\ \/ call'.todo = <<>>
            \/ Continue /\ (call.board = "target" => effect)
                        /\ (call.board # "target" => UNCHANGED files)
<1>1. UNCHANGED latestDiskMtimes
  BY DEF BoardRequest, memory
<1>2. ASSUME OnTarget(effect)
      PROVE  /\ call.board = "target" => effect
             /\ call.board # "target" => UNCHANGED files
  BY <1>2 DEF OnTarget
<1> QED BY <1>1, <1>2, ReturnEnds DEF BoardRequest, Request, Doing

\* A request leaves disk and editor as the step after it relies on, or ends
\* the call.
LEMMA RequestUndisturbed ==
  ASSUME CallOK, BoardOK, UndisturbedOK,
         Mutate \/ Refill \/ Enforce \/ Save \/ PersistFill \/ Revert
  PROVE  UndisturbedOK'
<1> USE DEF FileWrites, DiskRegisters
<1>1. CASE call'.todo = <<>>
  BY <1>1, EndedCall
<1>2. CASE Mutate /\ call'.todo # <<>>
  <2>1. /\ Running /\ Head(call.todo) = "mutate" /\ UNCHANGED latestDiskMtimes /\ Continue
        /\ call.board = "target" => EditLive
        /\ call.board # "target" => UNCHANGED files
    BY <1>2, RequestGoesOn DEF Mutate
  <2>2. UNCHANGED mtime
    BY <2>1 DEF EditLive, files
  <2> QED BY <1>2, <2>1, <2>2, ContinueIs, QuietStep
<1>3. CASE Refill /\ call'.todo # <<>>
  <2>1. /\ Running /\ Head(call.todo) = "refill" /\ UNCHANGED latestDiskMtimes /\ Continue
        /\ call.board = "target" => SetFill("stale")
        /\ call.board # "target" => UNCHANGED files
    BY <1>3, RequestGoesOn DEF Refill
  <2>2. UNCHANGED mtime
    BY <2>1 DEF SetFill, files
  <2> QED BY <1>3, <2>1, <2>2, ContinueIs, QuietStep
<1>4. CASE Enforce /\ call'.todo # <<>>
  <2>1. /\ Running /\ Head(call.todo) = "enforce" /\ UNCHANGED latestDiskMtimes /\ Continue
        /\ call.board = "target" => SetFill("safe")
        /\ call.board # "target" => UNCHANGED files
    BY <1>4, RequestGoesOn DEF Enforce
  <2>2. UNCHANGED mtime
    BY <2>1 DEF SetFill, files
  <2>3. call'.todo = Tail(call.todo) /\ call'.alone = call.alone /\ call'.mark = call.mark
        /\ call'.board = call.board
    BY <1>4, <2>1, ContinueIs
  <2>4. call.board = "target" => live'.fill # "stale"
    BY <2>1 DEF SetFill, BoardOK, Contents
  <2>5. call'.alone /\ call'.mark # 0 => NoExternalEdit' \/ WillRegister(call'.todo)
    BY <2>1, <2>2, <2>3, GuardKept
  <2> QED BY <2>1, <2>3, <2>4, <2>5, NextStands
<1>5. CASE (Save \/ PersistFill) /\ call'.todo # <<>>
  <2>1. /\ Running /\ Head(call.todo) \in {"save", "persist"} /\ Continue
        /\ Save => Head(call.todo) = "save"
        /\ call.board = "target" => SaveLive
    BY <1>5, RequestGoesOn DEF Save, PersistFill
  <2>2. call'.todo = Tail(call.todo) /\ call'.alone = call.alone /\ call'.board = call.board
    BY <1>5, <2>1, ContinueIs
  <2>3. WillRegister(call'.todo)
    <3>1. call.todo \in Seq(Steps) /\ call.todo # <<>> /\ Ordered(call.todo)
      BY <2>1 DEF CallOK, Calls, Running, UndisturbedOK
    <3>2. call.todo[1] \in FileWrites
      BY <2>1
    <3> QED BY <2>2, <3>1, <3>2, TailOrdered
  <2>4. call.alone /\ call.board = "target" /\ Head(call.todo) = "persist" => live.fill # "stale"
    <3>1. Head(call.todo) = "persist" => At(call.todo, 1, "persist")
      BY <2>1, LenProperties DEF At, Running, CallOK, Calls
    <3> QED BY <3>1 DEF UndisturbedOK
  <2>5. call.board = "target" => disk' = live' /\ live' = live
    BY <2>1 DEF SaveLive
  <2>6. /\ Head(call.todo) # "enforce" /\ Head(call.todo) # "revert" /\ Head(call.todo) # "read"
    BY <2>1
  <2> QED BY <2>1, <2>2, <2>3, <2>4, <2>5, <2>6, NextStands
<1>6. CASE Revert /\ call'.todo # <<>>
  <2>1. /\ Running /\ Head(call.todo) = "revert" /\ UNCHANGED latestDiskMtimes /\ Continue
        /\ call.board = "target" => RevertLive
        /\ call.board # "target" => UNCHANGED files
    BY <1>6, RequestGoesOn DEF Revert
  <2>2. UNCHANGED mtime /\ (call.board = "target" => disk' = live')
    BY <2>1 DEF RevertLive, files
  <2>3. call'.todo = Tail(call.todo) /\ call'.alone = call.alone /\ call'.mark = call.mark
        /\ call'.board = call.board
    BY <1>6, <2>1, ContinueIs
  <2>4. call'.alone /\ call'.mark # 0 => NoExternalEdit' \/ WillRegister(call'.todo)
    BY <2>1, <2>2, <2>3, GuardKept
  <2> QED BY <2>1, <2>2, <2>3, <2>4, NextStands
<1> QED BY <1>1, <1>2, <1>3, <1>4, <1>5, <1>6

\* The mtimes just recorded are those of the disk.
LEMMA JustRecorded ==
  ASSUME NEW kind, Register(kind, {CollectMtimes}), UNCHANGED files
  PROVE  NoExternalEdit'
<1>1. latestDiskMtimes' = {CollectMtimes} /\ mtime' = mtime
  BY DEF Register, files
<1>2. \A f \in DOMAIN CollectMtimes : mtime[f] = CollectMtimes[f]
  BY DEF CollectMtimes
<1> QED BY <1>1, <1>2 DEF NoExternalEdit, Unchanged, Changed

\* A registration records what is there, which the guard then accepts.
LEMMA RegisterUndisturbed ==
  ASSUME CallOK, UndisturbedOK,
         RegisterMutation \/ RegisterBoard \/ RegisterFill \/ RegisterSch \/ RegisterReload
  PROVE  UndisturbedOK'
<1>1. /\ Running /\ Continue /\ UNCHANGED <<files, board>>
      /\ Head(call.todo) \in {"registerLive"} \cup DiskRegisters
      /\ Head(call.todo) = "registerLive" => RegisterMutation
      /\ ~RegisterMutation => NoExternalEdit'
  <2>1. CASE RegisterMutation
    BY <2>1 DEF RegisterMutation, RegisterStep, Doing
  <2>2. ASSUME NEW step \in DiskRegisters, NEW kind, RegisterStep(step, kind, {CollectMtimes})
        PROVE  /\ Running /\ Continue /\ UNCHANGED <<files, board>>
               /\ Head(call.todo) = step /\ NoExternalEdit'
    BY <2>2, JustRecorded DEF RegisterStep, Doing
  <2>3. {"registerBoard", "registerFill", "registerSch", "registerReload"} \subseteq DiskRegisters
        /\ "registerLive" \notin DiskRegisters
    BY DEF DiskRegisters
  <2>4. CASE RegisterBoard
    BY <2>2, <2>3, <2>4 DEF RegisterBoard, RegisterSaved
  <2>5. CASE RegisterFill
    BY <2>2, <2>3, <2>5 DEF RegisterFill, RegisterSaved
  <2>6. CASE RegisterSch
    BY <2>2, <2>3, <2>6 DEF RegisterSch
  <2>7. CASE RegisterReload
    BY <2>2, <2>3, <2>7 DEF RegisterReload
  <2> QED BY <2>1, <2>4, <2>5, <2>6, <2>7
<1>2. CASE call'.todo = <<>>
  BY <1>2, EndedCall
<1>3. CASE RegisterMutation /\ call'.todo # <<>>
  <2>1. UNCHANGED <<mtime, latestDiskMtimes>>
    BY <1>3 DEF RegisterMutation, RegisterStep, Register, files
  <2>2. Head(call.todo) = "registerLive"
    BY <1>3 DEF RegisterMutation, RegisterStep, Doing
  <2> QED BY <1>1, <1>3, <2>1, <2>2, ContinueIs, QuietStep DEF DiskRegisters, FileWrites
<1>4. CASE ~RegisterMutation /\ call'.todo # <<>>
  <2>1. call'.todo = Tail(call.todo) /\ call'.alone = call.alone /\ NoExternalEdit'
    BY <1>1, <1>4, ContinueIs
  <2>2. /\ Head(call.todo) # "enforce" /\ Head(call.todo) # "persist"
        /\ Head(call.todo) # "revert" /\ Head(call.todo) # "read"
    BY <1>1 DEF DiskRegisters
  <2> QED BY <1>1, <2>1, <2>2, NextStands
<1> QED BY <1>2, <1>3, <1>4

\* The steps that only look or choose what comes next.
LEMMA LookUndisturbed ==
  ASSUME StoreTypeOK, CallOK, UndisturbedOK,
         \/ Guard \/ CheckBase \/ Delta \/ Mismatch \/ Resolve \/ Read \/ Work \/ Zones \/ Confirm
  PROVE  UndisturbedOK'
<1> USE DEF FileWrites, DiskRegisters
<1>1. CASE call'.todo = <<>>
  BY <1>1, EndedCall
<1>2. CASE (Read \/ Work \/ CheckBase \/ Mismatch) /\ call'.todo # <<>>
  <2>1. /\ Running /\ Continue /\ UNCHANGED <<storeVars, board>>
        /\ Head(call.todo) \in {"read", "backup", "build", "base"}
    BY <1>2, ReturnEnds DEF Read, Work, CheckBase, Mismatch, Doing
  <2>2. UNCHANGED <<mtime, latestDiskMtimes, disk, live>>
    BY <2>1 DEF storeVars, memory, files, board
  <2> QED BY <1>2, <2>1, <2>2, ContinueIs, QuietStep
<1>3. CASE Confirm /\ call'.todo # <<>>
  <2>1. /\ Running /\ Continue /\ UNCHANGED <<mtime, latestDiskMtimes>>
        /\ Head(call.todo) = "confirm"
    BY <1>3 DEF Confirm, Doing, files
  <2> QED BY <1>3, <2>1, ContinueIs, QuietStep
<1>4. CASE Resolve /\ call'.todo # <<>>
  <2>1. /\ Running /\ Head(call.todo) = "resolve" /\ UNCHANGED <<mtime, latestDiskMtimes>>
        /\ call' = [call EXCEPT !.todo = Tail(@), !.board = editor]
    BY <1>4, ReturnEnds DEF Resolve, Doing, storeVars, memory, files
  <2>2. call'.todo = Tail(call.todo) /\ call'.alone = call.alone /\ call'.mark = call.mark
    BY <2>1 DEF CallOK, Calls
  <2> QED BY <2>1, <2>2, QuietStep
<1>5. CASE Guard /\ call'.todo # <<>>
  <2>1. /\ Running /\ Head(call.todo) = "guard" /\ UNCHANGED <<mtime, latestDiskMtimes>>
        /\ NoExternalEdit /\ call' = [call EXCEPT !.todo = Tail(@), !.mark = nextEdit]
    BY <1>5, ReturnEnds DEF Guard, Doing, storeVars, memory, files
  <2>2. call'.todo = Tail(call.todo) /\ call'.alone = call.alone
    BY <2>1 DEF CallOK, Calls
  <2>3. NoExternalEdit'
    BY <2>1 DEF NoExternalEdit, Unchanged, Changed
  <2> QED BY <2>1, <2>2, <2>3, NextStands
<1>6. CASE Zones /\ call'.todo # <<>>
  <2>1. /\ Running /\ Head(call.todo) = "zones" /\ UNCHANGED <<mtime, latestDiskMtimes>>
        /\ Continue \/ call' = [call EXCEPT !.todo = Persist]
    BY <1>6, ReturnEnds DEF Zones, Doing, storeVars, memory, files
  <2>2. CASE Continue
    BY <1>6, <2>1, <2>2, ContinueIs, QuietStep
  <2>3. CASE call' = [call EXCEPT !.todo = Persist]
    <3>1. call'.todo = Persist
      BY <2>3 DEF CallOK, Calls
    <3>2. /\ ~At(Persist, 1, "persist") /\ ~At(Persist, 1, "registerFill")
          /\ ~At(Persist, 1, "registerReload") /\ ~At(Persist, 2, "registerReload")
      BY DEF Persist, At
    <3> QED BY <3>1, <3>2, PersistIsOrdered DEF UndisturbedOK
  <2> QED BY <2>1, <2>2, <2>3
<1>7. CASE Delta /\ call'.todo # <<>>
  <2>1. PICK base : ValidBase(base) /\ call' = [call EXCEPT !.todo = DeltaSteps(entries[base])]
    BY <1>7, ReturnEnds DEF Delta
  <2>2. entries[base].kind \in Kinds
    BY <2>1 DEF ValidBase, StoreTypeOK
  <2>3. /\ call'.todo = DeltaSteps(entries[base])
        /\ call'.alone = call.alone /\ call'.mark = call.mark
    BY <2>1 DEF CallOK, Calls
  <2>4. ~WillRegister(call.todo)
    <3>1. call.todo \in Seq(Steps) /\ call.todo # <<>> /\ call.todo[1] = "delta" /\ Ordered(call.todo)
      BY <1>7 DEF Delta, Doing, Running, CallOK, Calls, UndisturbedOK
    <3>2. 1 \in 1..Len(call.todo) /\ Len(call.todo) \in Nat
      BY <3>1, LenProperties
    <3>3. Len(call.todo) = 1
      BY <3>1, <3>2 DEF Ordered
    <3> QED BY <3>1, <3>3 DEF WillRegister
  <2>5. Running /\ UNCHANGED <<mtime, latestDiskMtimes>>
    BY <1>7 DEF Delta, Doing, storeVars, memory, files
  <2>6. call'.alone /\ call'.mark # 0 => NoExternalEdit'
    BY <2>3, <2>4, <2>5 DEF UndisturbedOK, NoExternalEdit, Unchanged, Changed
  <2> QED BY <2>2, <2>3, <2>6, DeltaIsOrdered DEF UndisturbedOK
<1> QED BY <1>1, <1>2, <1>3, <1>4, <1>5, <1>6, <1>7

\* The schematic's write has its registration after it.
LEMMA WriteSchUndisturbed ==
  ASSUME CallOK, UndisturbedOK, WriteSch
  PROVE  UndisturbedOK'
<1>1. CASE call'.todo = <<>>
  BY <1>1, EndedCall
<1>2. CASE call'.todo # <<>>
  <2>1. Running /\ Head(call.todo) = "writeSch" /\ Continue
    BY <1>2, ReturnEnds DEF WriteSch, Doing
  <2>2. call'.todo = Tail(call.todo) /\ call'.alone = call.alone
    BY <1>2, <2>1, ContinueIs
  <2>3. call.todo \in Seq(Steps) /\ call.todo # <<>> /\ Ordered(call.todo)
    BY <2>1 DEF CallOK, Calls, Running, UndisturbedOK
  <2>4. call.todo[1] \in FileWrites
    BY <2>1 DEF FileWrites
  <2>5. WillRegister(call'.todo)
    BY <2>2, <2>3, <2>4, TailOrdered
  <2> QED BY <2>1, <2>2, <2>5, NextStands
<1> QED BY <1>1, <1>2

\* UndisturbedOK is kept by every step; what the world does ends its claim.
LEMMA UndisturbedStep ==
  ASSUME StoreTypeOK, CallOK, BoardOK, UndisturbedOK, [Next]_vars
  PROVE  UndisturbedOK'
<1>1. CASE Begin
  <2>1. PICK tool \in Tools :
          call' = [todo |-> Program[tool], board |-> "closed", mark |-> 0,
                   reply |-> "none", alone |-> TRUE]
    BY <1>1 DEF Begin
  <2> QED BY <2>1, ProgramsAreOrdered DEF UndisturbedOK
<1>2. CASE WorldStep
  <2>1. CASE ServerRestart
    BY <2>1, EndedCall DEF ServerRestart, Idle
  <2>2. CASE Disturb
    BY <2>2, DisturbedCall DEF Disturb, CallOK, Calls, UndisturbedOK
  <2> QED BY <1>2, <2>1, <2>2
          DEF WorldStep, ExternalWrite, ExternalSchWrite, GuiEdit, GuiSave, GuiRevert, ChangeEditor
<1>3. CASE ToolStep
  BY <1>3, RequestUndisturbed, RegisterUndisturbed, LookUndisturbed, WriteSchUndisturbed
     DEF ToolStep
<1>4. CASE UNCHANGED vars
  BY <1>4
     DEF vars, storeVars, memory, files, board, UndisturbedOK, Running, NoExternalEdit,
         Unchanged, Changed
<1> QED BY <1>1, <1>2, <1>3, <1>4 DEF Next

\* No call is running.
LEMMA UndisturbedInit == Init => UndisturbedOK
BY EmptyIsOrdered DEF Init, UndisturbedOK, Running, At

\* The steps of every call are in order, and what a call that nobody disturbs has
\* seen, made or saved is still so.
THEOREM UndisturbedInvariant == Spec => []UndisturbedOK
<1>1. SyncInv /\ SyncInv' /\ UndisturbedOK /\ [Next]_vars => UndisturbedOK'
  BY UndisturbedStep DEF SyncInv, StoreInv
<1> QED BY <1>1, UndisturbedInit, SyncInvariant, PTL DEF Spec

\* The last step of a call writes no file, and if it registers nothing then the
\* guard is as open as it was when it passed.
LEMMA LastStep ==
  ASSUME CallOK, UndisturbedOK, Running, Tail(call.todo) = <<>>
  PROVE  /\ Head(call.todo) \notin FileWrites
         /\ call.alone /\ call.mark # 0 /\ Head(call.todo) \notin DiskRegisters => NoExternalEdit
<1>1. call.todo \in Seq(Steps) /\ call.todo # <<>> /\ Ordered(call.todo)
  BY DEF CallOK, Calls, Running, UndisturbedOK
<1>2. ~WillRegister(<<>>)
  BY DEF WillRegister
<1>3. /\ call.todo[1] \notin FileWrites
      /\ WillRegister(call.todo) => call.todo[1] \in DiskRegisters
  BY <1>1, <1>2, TailOrdered
<1> QED BY <1>3 DEF UndisturbedOK

\* A call that goes on ends only after its last step.
LEMMA EndOfContinue ==
  ASSUME CallOK, Running, Continue, call'.todo = <<>>
  PROVE  Tail(call.todo) = <<>>
<1>1. call.todo \in Seq(Steps) /\ call.todo # <<>>
  BY DEF CallOK, Calls, Running
<1>2. CASE Len(call.todo) = 1
  <2>1. Tail(call.todo) \in Seq(Steps) /\ Len(Tail(call.todo)) = 0
    BY <1>1, <1>2, HeadTailProperties
  <2> QED BY <2>1, EmptySeq
<1>3. CASE Len(call.todo) # 1
  BY <1>3 DEF Continue, CallOK, Calls
<1> QED BY <1>2, <1>3

\* The last step of a call that answers OK leaves the guard open.
LEMMA EndsKnown ==
  ASSUME CallOK, BoardOK, StoreTypeOK, UndisturbedOK, [Next]_vars,
         Running, call'.todo = <<>>, call'.reply = "OK", call.alone, call.mark # 0
  PROVE  NoExternalEdit'
<1>0. ~\E reply : reply # "OK" /\ Return(reply)
  BY DEF Return, Idle
<1>1. ASSUME Tail(call.todo) = <<>>, Head(call.todo) \notin DiskRegisters,
             UNCHANGED <<mtime, latestDiskMtimes>>
      PROVE  NoExternalEdit'
  BY <1>1, LastStep DEF NoExternalEdit, Unchanged, Changed
<1>2. CASE WorldStep \/ UNCHANGED vars
  <2>1. CASE ServerRestart
    BY <2>1 DEF ServerRestart, Idle
  <2>2. CASE Disturb
    BY <2>2 DEF Disturb, CallOK, Calls, Running
  <2>3. CASE UNCHANGED vars
    BY <2>3 DEF vars, Running
  <2> QED BY <1>2, <2>1, <2>2, <2>3
          DEF WorldStep, ExternalWrite, ExternalSchWrite, GuiEdit, GuiSave, GuiRevert, ChangeEditor
<1>3. CASE Begin
  BY <1>3 DEF Begin
<1>4. ASSUME NEW step \in {"mutate", "refill", "enforce", "revert", "save", "persist"},
             NEW effect, NEW failure, failure # "OK", BoardRequest(step, effect, failure)
      PROVE  /\ Tail(call.todo) = <<>> /\ Head(call.todo) \notin DiskRegisters \cup {"save", "persist"}
             /\ UNCHANGED latestDiskMtimes /\ (effect \/ UNCHANGED files)
  <2>1. Continue /\ (effect \/ UNCHANGED files) /\ Head(call.todo) = step
    BY <1>0, <1>4 DEF BoardRequest, Request, OnTarget, Doing
  <2>2. Tail(call.todo) = <<>>
    BY <2>1, EndOfContinue
  <2>3. Head(call.todo) \notin FileWrites /\ UNCHANGED latestDiskMtimes
    BY <1>4, <2>2, LastStep DEF BoardRequest, memory
  <2> QED BY <2>1, <2>2, <2>3 DEF FileWrites, DiskRegisters
<1>5. CASE Mutate
  <2>1. /\ Tail(call.todo) = <<>> /\ Head(call.todo) \notin DiskRegisters
        /\ UNCHANGED latestDiskMtimes /\ (EditLive \/ UNCHANGED files)
    BY <1>4, <1>5 DEF Mutate
  <2> QED BY <1>1, <2>1 DEF EditLive, files
<1>6. CASE Refill \/ Enforce
  <2>1. PICK fill \in Fills : 
          /\ Tail(call.todo) = <<>> /\ Head(call.todo) \notin DiskRegisters
          /\ UNCHANGED latestDiskMtimes /\ (SetFill(fill) \/ UNCHANGED files)
    BY <1>4, <1>6 DEF Refill, Enforce, Fills
  <2> QED BY <1>1, <2>1 DEF SetFill, files
<1>7. CASE Revert
  <2>1. /\ Tail(call.todo) = <<>> /\ Head(call.todo) \notin DiskRegisters
        /\ UNCHANGED latestDiskMtimes /\ (RevertLive \/ UNCHANGED files)
    BY <1>4, <1>7 DEF Revert
  <2> QED BY <1>1, <2>1 DEF RevertLive, files
<1>8. CASE Save \/ PersistFill
  <2>1. Head(call.todo) \notin {"save", "persist"}
    BY <1>4, <1>8 DEF Save, PersistFill
  <2> QED BY <1>8, <2>1 DEF Save, PersistFill, BoardRequest, Doing
<1>9. CASE RegisterBoard \/ RegisterFill \/ RegisterSch \/ RegisterReload
  BY <1>9, JustRecorded
     DEF RegisterBoard, RegisterFill, RegisterSaved, RegisterSch, RegisterReload, RegisterStep
<1>10. CASE Read \/ Work \/ CheckBase \/ Mismatch \/ RegisterMutation \/ Confirm
  <2>1. /\ Continue /\ UNCHANGED <<mtime, latestDiskMtimes>>
        /\ Head(call.todo) \in {"read", "backup", "build", "base", "registerLive", "confirm"}
    BY <1>0, <1>10
       DEF Read, Work, CheckBase, Refusal, Mismatch, RegisterMutation, RegisterStep, Register,
           Confirm, Doing, storeVars, memory, files
  <2> QED BY <1>1, <2>1, EndOfContinue DEF DiskRegisters
<1>11. CASE Resolve
  <2>1. /\ UNCHANGED <<mtime, latestDiskMtimes>> /\ Head(call.todo) = "resolve"
        /\ call' = [call EXCEPT !.todo = Tail(@), !.board = editor]
    BY <1>0, <1>11 DEF Resolve, Doing, storeVars, memory, files
  <2>2. Tail(call.todo) = <<>>
    BY <2>1 DEF CallOK, Calls
  <2> QED BY <1>1, <2>1, <2>2 DEF DiskRegisters
<1>12. CASE Guard
  BY <1>0, <1>12
     DEF Guard, storeVars, memory, files, NoExternalEdit, Unchanged, Changed
<1>13. CASE Zones
  <2>1. /\ UNCHANGED <<mtime, latestDiskMtimes>> /\ Head(call.todo) = "zones"
        /\ Continue \/ call' = [call EXCEPT !.todo = Persist]
    BY <1>0, <1>13 DEF Zones, Doing, storeVars, memory, files
  <2>2. call' # [call EXCEPT !.todo = Persist]
    BY PersistIsSteps DEF CallOK, Calls
  <2> QED BY <1>1, <2>1, <2>2, EndOfContinue DEF DiskRegisters
<1>14. CASE Delta
  <2>1. PICK base : ValidBase(base) /\ call' = [call EXCEPT !.todo = DeltaSteps(entries[base])]
    BY <1>0, <1>14 DEF Delta, Refusal
  <2>2. entries[base].kind \in Kinds /\ call'.todo = DeltaSteps(entries[base])
    BY <2>1 DEF ValidBase, StoreTypeOK, CallOK, Calls
  <2>3. DeltaSteps(entries[base]) # <<>>
    BY <2>2 DEF DeltaSteps, Kinds
  <2> QED BY <2>2, <2>3
<1>15. CASE WriteSch
  <2>1. Continue /\ Head(call.todo) = "writeSch"
    BY <1>0, <1>15 DEF WriteSch, Doing
  <2>2. Head(call.todo) \notin FileWrites
    BY <2>1, EndOfContinue, LastStep
  <2> QED BY <2>1, <2>2 DEF FileWrites
<1> QED BY <1>2, <1>3, <1>5, <1>6, <1>7, <1>8, <1>9, <1>10, <1>11, <1>12, <1>13, <1>14, <1>15
        DEF Next, ToolStep

\* The server's own writes never make its guard refuse: every one is registered,
\* after it was made, by the call that made it.
THEOREM OwnWritesCorrect == Spec => OwnWritesAreKnown
<1>1. ASSUME SyncInv, UndisturbedOK, [Next]_vars
      PROVE  Running /\ ~Running' /\ call.alone /\ call.mark # 0 /\ call'.reply = "OK" =>
               NoExternalEdit'
  BY <1>1, EndsKnown DEF SyncInv, StoreInv, Running
<1> QED BY <1>1, SyncInvariant, UndisturbedInvariant, PTL DEF Spec, OwnWritesAreKnown

\* A registration stands on what its call has left.
LEMMA RegistersStand ==
  ASSUME CallOK, NEW step, NEW kind, NEW mtimes, RegisterStep(step, kind, mtimes)
  PROVE  At(call.todo, 1, step) /\ UNCHANGED <<files, board, editor>>
<1>1. call.todo \in Seq(Steps) /\ call.todo # <<>> /\ call.todo[1] = step
  BY DEF RegisterStep, Doing, Running, CallOK, Calls
<1> QED BY <1>1, LenProperties DEF At, RegisterStep

\* What a filling tool registers.
LEMMA FillStands ==
  SyncInv /\ UndisturbedOK =>
    (RegisterFill /\ call.alone /\ call.board = "target" =>
       disk = live /\ disk.fill # "stale" /\ NoExternalEdit')
<1> SUFFICES ASSUME SyncInv, UndisturbedOK, RegisterFill, call.alone, call.board = "target"
             PROVE  disk = live /\ disk.fill # "stale" /\ NoExternalEdit'
  OBVIOUS
<1>1. RegisterStep("registerFill", "pcb", {CollectMtimes})
  BY DEF RegisterFill, RegisterSaved
<1>2. At(call.todo, 1, "registerFill") /\ UNCHANGED files
  BY <1>1, RegistersStand DEF SyncInv
<1>3. disk = live /\ live.fill # "stale"
  BY <1>2 DEF UndisturbedOK
<1>4. NoExternalEdit'
  BY <1>1, <1>2, JustRecorded DEF RegisterStep
<1> QED BY <1>3, <1>4

\* D-23.2: what a filling tool registers is on disk, as the editor holds it, with
\* its fills clear of holes.
THEOREM FillCorrect == Spec => FillIsPersisted
BY FillStands, SyncInvariant, UndisturbedInvariant, PTL DEF FillIsPersisted

\* What a reload registers.
LEMMA ReloadStands ==
  SyncInv /\ UndisturbedOK =>
    (RegisterReload /\ call.alone /\ call.board = "target" =>
       ~Behind' /\ ~liveStale' /\ NoExternalEdit')
<1> SUFFICES ASSUME SyncInv, UndisturbedOK, RegisterReload, call.alone, call.board = "target"
             PROVE  ~Behind' /\ ~liveStale' /\ NoExternalEdit'
  OBVIOUS
<1>1. RegisterStep("registerReload", "pcb", {CollectMtimes}) /\ ~liveStale'
  BY DEF RegisterReload, ClearStale
<1>2. At(call.todo, 1, "registerReload") /\ UNCHANGED <<files, board, editor>>
  BY <1>1, RegistersStand DEF SyncInv
<1>3. disk = live
  BY <1>2 DEF UndisturbedOK
<1>4. ~Behind'
  BY <1>2, <1>3 DEF Behind, board
<1>5. NoExternalEdit'
  BY <1>1, <1>2, JustRecorded DEF RegisterStep
<1> QED BY <1>1, <1>4, <1>5

\* After a reload that nobody disturbed the mutating tools may go on: the editor
\* has what the disk has, no flag is left, and the guard knows the disk.
THEOREM ReloadCorrect == Spec => ReloadUnblocks
BY ReloadStands, SyncInvariant, UndisturbedInvariant, PTL DEF ReloadUnblocks

(***************************************************************************)
(* route_board.                                                            *)
(***************************************************************************)

\* The steps a route_board has left, from the last one back: once it has
\* measured what it stitched, while it saves a refill, and from its start.
Last == <<"registerRoute">>
Measuring == <<"build", "registerRoute">>
StitchPersisting == <<"routePersist", "build", "registerRoute">>
StitchEnforcing == <<"enforce", "routePersist", "build", "registerRoute">>
StitchRefilling == <<"refill", "enforce", "routePersist", "build", "registerRoute">>
Stitching == <<"stitch", "registerRoute">>
Checking == <<"build", "stitch", "registerRoute">>
Persisting == <<"routePersist", "build", "stitch", "registerRoute">>
Enforcing == <<"enforce", "routePersist", "build", "stitch", "registerRoute">>
Refilling == <<"refill", "enforce", "routePersist", "build", "stitch", "registerRoute">>
Filling == <<"fill", "build", "stitch", "registerRoute">>
ReloadingAgain == <<"reloadAgain", "fill", "build", "stitch", "registerRoute">>
Reopening == <<"reopen", "reloadAgain", "fill", "build", "stitch", "registerRoute">>
Reloading == <<"reload", "reopen", "reloadAgain", "fill", "build", "stitch", "registerRoute">>
Replacing == <<"replace", "reload", "reopen", "reloadAgain", "fill", "build", "stitch", "registerRoute">>
Autorouting == <<"autoroute", "replace", "reload", "reopen", "reloadAgain", "fill", "build", "stitch",
                 "registerRoute">>
Building == <<"build", "autoroute", "replace", "reload", "reopen", "reloadAgain", "fill", "build",
              "stitch", "registerRoute">>
Counting == <<"count", "build", "autoroute", "replace", "reload", "reopen", "reloadAgain", "fill",
              "build", "stitch", "registerRoute">>
Saving == <<"implicitSave", "count", "build", "autoroute", "replace", "reload", "reopen",
            "reloadAgain", "fill", "build", "stitch", "registerRoute">>
Opening == <<"open", "implicitSave", "count", "build", "autoroute", "replace", "reload", "reopen",
             "reloadAgain", "fill", "build", "stitch", "registerRoute">>

\* Before the reload, while it is tried, while a refill is saved, and after.
BeforeReload == {RouteSteps, Opening, Saving, Counting, Building, Autorouting, Replacing, Reloading}
Retrying == {Reopening, ReloadingAgain, Filling}
SavingFill == {Refilling, Enforcing, Persisting, StitchRefilling, StitchEnforcing, StitchPersisting}
AfterFill == {Checking, Stitching, Measuring, Last}
RoutePlaces == BeforeReload \cup Retrying \cup SavingFill \cup AfterFill

\* Steps that no other tool has.
RouteOnly == {"open", "implicitSave", "count", "autoroute", "replace", "reload", "reopen",
              "reloadAgain", "fill", "routePersist", "stitch", "registerRoute"}

Reloads == {"none", "done", "lost", "failed"}
Locals == [refill : BOOLEAN, base : Contents, zones : BOOLEAN, replaced : BOOLEAN,
           reload : Reloads]

\* Where a route_board stands: it reloads once, marks what it reloaded, and
\* refills and saves only after that.
RoutePlace ==
  /\ call.todo \in RoutePlaces
  /\ call.todo \in BeforeReload => route.reload = "none"
  /\ call.mark # 0 <=> route.reload = "done"
  /\ call.todo \in SavingFill => route.reload = "done"
  /\ route.reload \in {"lost", "done"} => call.board = "target"

\* What the editor lacks once it has reloaded was made after that.
RouteMark ==
  call.mark # 0 /\ editor = "target" => \A e \in disk.edits \ live.edits : e >= call.mark

\* If nobody disturbs it, what it has reloaded, refilled or saved is still so.
RouteUndisturbed ==
  call.alone /\ route.reload = "done" =>
    /\ call.todo \notin SavingFill => disk = live
    /\ Head(call.todo) = "routePersist" => live.fill # "stale"
    /\ call.todo \in AfterFill /\ route.refill /\ route.zones => disk.fill # "stale"

RouteOK ==
  /\ route \in Locals
  /\ Routing => RoutePlace /\ RouteMark /\ RouteUndisturbed
  /\ ~Routing => \A i \in 1..Len(call.todo) : call.todo[i] \notin RouteOnly

\* What kind of list each of them is.
IsRoute(todo) ==
  /\ todo \in Seq(Steps) /\ todo # <<>>
  /\ todo[Len(todo)] = "registerRoute"
  /\ \A i \in 1..Len(todo) : todo[i] \notin Critical

IsPlace(todo, step, length) ==
  IsRoute(todo) /\ Len(todo) = length /\ Head(todo) = step

\* The places of a route_board, each with its first step and its length.
LEMMA PlacesAre ==
  /\ IsPlace(RouteSteps, "backup", 14)
  /\ IsPlace(Opening, "open", 13)
  /\ IsPlace(Saving, "implicitSave", 12)
  /\ IsPlace(Counting, "count", 11)
  /\ IsPlace(Building, "build", 10)
  /\ IsPlace(Autorouting, "autoroute", 9)
  /\ IsPlace(Replacing, "replace", 8)
  /\ IsPlace(Reloading, "reload", 7)
  /\ IsPlace(Reopening, "reopen", 6)
  /\ IsPlace(ReloadingAgain, "reloadAgain", 5)
  /\ IsPlace(Filling, "fill", 4)
  /\ IsPlace(Checking, "build", 3)
  /\ IsPlace(Stitching, "stitch", 2)
  /\ IsPlace(Last, "registerRoute", 1)
  /\ IsPlace(Refilling, "refill", 6)
  /\ IsPlace(Enforcing, "enforce", 5)
  /\ IsPlace(Persisting, "routePersist", 4)
  /\ IsPlace(StitchRefilling, "refill", 5)
  /\ IsPlace(StitchEnforcing, "enforce", 4)
  /\ IsPlace(StitchPersisting, "routePersist", 3)
  /\ IsPlace(Measuring, "build", 2)
<1> USE DEF IsPlace, IsRoute, Steps, Critical
<1>1. IsPlace(RouteSteps, "backup", 14)
  BY DEF RouteSteps
<1>2. IsPlace(Opening, "open", 13)
  BY DEF Opening
<1>3. IsPlace(Saving, "implicitSave", 12)
  BY DEF Saving
<1>4. IsPlace(Counting, "count", 11)
  BY DEF Counting
<1>5. IsPlace(Building, "build", 10)
  BY DEF Building
<1>6. IsPlace(Autorouting, "autoroute", 9)
  BY DEF Autorouting
<1>7. IsPlace(Replacing, "replace", 8)
  BY DEF Replacing
<1>8. IsPlace(Reloading, "reload", 7)
  BY DEF Reloading
<1>9. IsPlace(Reopening, "reopen", 6)
  BY DEF Reopening
<1>10. IsPlace(ReloadingAgain, "reloadAgain", 5)
  BY DEF ReloadingAgain
<1>11. IsPlace(Filling, "fill", 4)
  BY DEF Filling
<1>12. IsPlace(Checking, "build", 3)
  BY DEF Checking
<1>13. IsPlace(Stitching, "stitch", 2)
  BY DEF Stitching
<1>14. IsPlace(Last, "registerRoute", 1)
  BY DEF Last
<1>15. IsPlace(Refilling, "refill", 6)
  BY DEF Refilling
<1>16. IsPlace(Enforcing, "enforce", 5)
  BY DEF Enforcing
<1>17. IsPlace(Persisting, "routePersist", 4)
  BY DEF Persisting
<1>18. IsPlace(StitchRefilling, "refill", 5)
  BY DEF StitchRefilling
<1>19. IsPlace(StitchEnforcing, "enforce", 4)
  BY DEF StitchEnforcing
<1>20. IsPlace(StitchPersisting, "routePersist", 3)
  BY DEF StitchPersisting
<1>21. IsPlace(Measuring, "build", 2)
  BY DEF Measuring
<1> HIDE DEF IsPlace
<1> QED BY <1>1, <1>2, <1>3, <1>4, <1>5, <1>6, <1>7, <1>8, <1>9, <1>10, <1>11, <1>12, <1>13, <1>14, <1>15, <1>16, <1>17, <1>18, <1>19, <1>20, <1>21

\* The same, read off the lists.
LEMMA PlaceHeads ==
  /\ Head(RouteSteps) = "backup" /\ Len(RouteSteps) = 14
  /\ Head(Opening) = "open" /\ Len(Opening) = 13
  /\ Head(Saving) = "implicitSave" /\ Len(Saving) = 12
  /\ Head(Counting) = "count" /\ Len(Counting) = 11
  /\ Head(Building) = "build" /\ Len(Building) = 10
  /\ Head(Autorouting) = "autoroute" /\ Len(Autorouting) = 9
  /\ Head(Replacing) = "replace" /\ Len(Replacing) = 8
  /\ Head(Reloading) = "reload" /\ Len(Reloading) = 7
  /\ Head(Reopening) = "reopen" /\ Len(Reopening) = 6
  /\ Head(ReloadingAgain) = "reloadAgain" /\ Len(ReloadingAgain) = 5
  /\ Head(Filling) = "fill" /\ Len(Filling) = 4
  /\ Head(Checking) = "build" /\ Len(Checking) = 3
  /\ Head(Stitching) = "stitch" /\ Len(Stitching) = 2
  /\ Head(Last) = "registerRoute" /\ Len(Last) = 1
  /\ Head(Refilling) = "refill" /\ Len(Refilling) = 6
  /\ Head(Enforcing) = "enforce" /\ Len(Enforcing) = 5
  /\ Head(Persisting) = "routePersist" /\ Len(Persisting) = 4
  /\ Head(StitchRefilling) = "refill" /\ Len(StitchRefilling) = 5
  /\ Head(StitchEnforcing) = "enforce" /\ Len(StitchEnforcing) = 4
  /\ Head(StitchPersisting) = "routePersist" /\ Len(StitchPersisting) = 3
  /\ Head(Measuring) = "build" /\ Len(Measuring) = 2
BY PlacesAre, Zenon DEF IsPlace

\* Two lists of steps, one after the other.
LEMMA Joins ==
  ASSUME NEW s \in Seq(Steps), NEW t \in Seq(Steps)
  PROVE  /\ s \o t \in Seq(Steps) /\ Len(s \o t) = Len(s) + Len(t)
         /\ \A i \in 1..(Len(s) + Len(t)) :
              (s \o t)[i] = IF i <= Len(s) THEN s[i] ELSE t[i - Len(s)]
BY ConcatProperties

\* What comes after each of them.
LEMMA PlacesFollow ==
  /\ Tail(RouteSteps) = Opening
  /\ Tail(Opening) = Saving
  /\ Tail(Saving) = Counting
  /\ Tail(Counting) = Building
  /\ Tail(Building) = Autorouting
  /\ Tail(Autorouting) = Replacing
  /\ Tail(Replacing) = Reloading
  /\ Tail(Reloading) = Reopening
  /\ Tail(Reopening) = ReloadingAgain
  /\ Tail(ReloadingAgain) = Filling
  /\ Tail(Filling) = Checking
  /\ Tail(Checking) = Stitching
  /\ Tail(Stitching) = Last
  /\ Tail(Refilling) = Enforcing
  /\ Tail(Enforcing) = Persisting
  /\ Tail(Persisting) = Checking
  /\ Tail(StitchRefilling) = StitchEnforcing
  /\ Tail(StitchEnforcing) = StitchPersisting
  /\ Tail(StitchPersisting) = Measuring
  /\ Tail(Measuring) = Last
  /\ <<"refill", "enforce", "routePersist">> \o Tail(Filling) = Refilling
  /\ <<"refill", "enforce", "routePersist", "build">> \o Tail(Stitching) = StitchRefilling
<1>1. Tail(RouteSteps) = Opening
  BY DEF RouteSteps, Opening
<1>2. Tail(Opening) = Saving
  BY DEF Opening, Saving
<1>3. Tail(Saving) = Counting
  BY DEF Saving, Counting
<1>4. Tail(Counting) = Building
  BY DEF Counting, Building
<1>5. Tail(Building) = Autorouting
  BY DEF Building, Autorouting
<1>6. Tail(Autorouting) = Replacing
  BY DEF Autorouting, Replacing
<1>7. Tail(Replacing) = Reloading
  BY DEF Replacing, Reloading
<1>8. Tail(Reloading) = Reopening
  BY DEF Reloading, Reopening
<1>9. Tail(Reopening) = ReloadingAgain
  BY DEF Reopening, ReloadingAgain
<1>10. Tail(ReloadingAgain) = Filling
  BY DEF ReloadingAgain, Filling
<1>11. Tail(Filling) = Checking
  BY DEF Filling, Checking
<1>12. Tail(Checking) = Stitching
  BY DEF Checking, Stitching
<1>13. Tail(Stitching) = Last
  BY DEF Stitching, Last
<1>14. Tail(Refilling) = Enforcing
  BY DEF Refilling, Enforcing
<1>15. Tail(Enforcing) = Persisting
  BY DEF Enforcing, Persisting
<1>16. Tail(Persisting) = Checking
  BY DEF Persisting, Checking
<1>17. Tail(StitchRefilling) = StitchEnforcing
  BY DEF StitchRefilling, StitchEnforcing
<1>18. Tail(StitchEnforcing) = StitchPersisting
  BY DEF StitchEnforcing, StitchPersisting
<1>19. Tail(StitchPersisting) = Measuring
  BY DEF StitchPersisting, Measuring
<1>20. Tail(Measuring) = Last
  BY DEF Measuring, Last
<1>21. <<"refill", "enforce", "routePersist">> \o Checking = Refilling
  <2> DEFINE refill == <<"refill", "enforce", "routePersist">>
  <2>1. /\ refill \in Seq(Steps) /\ Len(refill) = 3
        /\ refill[1] = "refill" /\ refill[2] = "enforce" /\ refill[3] = "routePersist"
    BY DEF Steps
  <2>2. /\ Checking \in Seq(Steps) /\ Len(Checking) = 3
        /\ Checking[1] = "build" /\ Checking[2] = "stitch" /\ Checking[3] = "registerRoute"
    BY DEF Checking, Steps
  <2>3. /\ Refilling \in Seq(Steps) /\ Len(Refilling) = 6
        /\ Refilling[1] = "refill" /\ Refilling[2] = "enforce" /\ Refilling[3] = "routePersist"
        /\ Refilling[4] = "build" /\ Refilling[5] = "stitch" /\ Refilling[6] = "registerRoute"
    BY DEF Refilling, Steps
  <2> HIDE DEF refill
  <2>4. /\ refill \o Checking \in Seq(Steps) /\ Len(refill \o Checking) = Len(refill) + Len(Checking)
        /\ \A i \in 1..(Len(refill) + Len(Checking)) :
             (refill \o Checking)[i] = IF i <= Len(refill) THEN refill[i] ELSE Checking[i - Len(refill)]
    BY <2>1, <2>2, Joins
  <2>5. \A i \in 1..6 : (refill \o Checking)[i] = Refilling[i]
    BY <2>1, <2>2, <2>3, <2>4
  <2>6. Len(refill \o Checking) = 6
    BY <2>1, <2>2, <2>4
  <2>7. refill \o Checking = Refilling
    BY <2>3, <2>4, <2>5, <2>6, SeqEqual
  <2> QED BY <2>7 DEF refill
<1>22. <<"refill", "enforce", "routePersist", "build">> \o Last = StitchRefilling
  <2> DEFINE refill == <<"refill", "enforce", "routePersist", "build">>
  <2>1. /\ refill \in Seq(Steps) /\ Len(refill) = 4
        /\ refill[1] = "refill" /\ refill[2] = "enforce" /\ refill[3] = "routePersist"
        /\ refill[4] = "build"
    BY DEF Steps
  <2>2. Last \in Seq(Steps) /\ Len(Last) = 1 /\ Last[1] = "registerRoute"
    BY DEF Last, Steps
  <2>3. /\ StitchRefilling \in Seq(Steps) /\ Len(StitchRefilling) = 5
        /\ StitchRefilling[1] = "refill" /\ StitchRefilling[2] = "enforce"
        /\ StitchRefilling[3] = "routePersist" /\ StitchRefilling[4] = "build"
        /\ StitchRefilling[5] = "registerRoute"
    BY DEF StitchRefilling, Steps
  <2> HIDE DEF refill
  <2>4. /\ refill \o Last \in Seq(Steps) /\ Len(refill \o Last) = Len(refill) + Len(Last)
        /\ \A i \in 1..(Len(refill) + Len(Last)) :
             (refill \o Last)[i] = IF i <= Len(refill) THEN refill[i] ELSE Last[i - Len(refill)]
    BY <2>1, <2>2, Joins
  <2>5. \A i \in 1..5 : (refill \o Last)[i] = StitchRefilling[i]
    BY <2>1, <2>2, <2>3, <2>4
  <2>6. Len(refill \o Last) = 5
    BY <2>1, <2>2, <2>4
  <2>7. refill \o Last = StitchRefilling
    BY <2>3, <2>4, <2>5, <2>6, SeqEqual
  <2> QED BY <2>7 DEF refill
<1> QED BY <1>1, <1>2, <1>3, <1>4, <1>5, <1>6, <1>7, <1>8, <1>9, <1>10, <1>11, <1>12, <1>13, <1>14, <1>15, <1>16, <1>17, <1>18, <1>19, <1>20, <1>21, <1>22

\* The classes have nothing in common, and a step tells where a call stands.
LEMMA PlacesDiffer ==
  ASSUME NEW todo \in RoutePlaces
  PROVE  /\ IsRoute(todo)
         /\ todo \in BeforeReload => todo \notin Retrying \cup SavingFill \cup AfterFill
         /\ todo \in Retrying => todo \notin SavingFill \cup AfterFill
         /\ todo \in SavingFill => todo \notin AfterFill
         /\ Head(todo) \in RouteOnly \cup {"backup", "build", "refill", "enforce"}
         /\ Head(todo) = "backup" => todo = RouteSteps
         /\ Head(todo) = "open" => todo = Opening
         /\ Head(todo) = "implicitSave" => todo = Saving
         /\ Head(todo) = "count" => todo = Counting
         /\ Head(todo) = "build" => todo \in {Building, Checking, Measuring}
         /\ Head(todo) = "autoroute" => todo = Autorouting
         /\ Head(todo) = "replace" => todo = Replacing
         /\ Head(todo) = "reload" => todo = Reloading
         /\ Head(todo) = "reopen" => todo = Reopening
         /\ Head(todo) = "reloadAgain" => todo = ReloadingAgain
         /\ Head(todo) = "fill" => todo = Filling
         /\ Head(todo) = "refill" => todo \in {Refilling, StitchRefilling}
         /\ Head(todo) = "enforce" => todo \in {Enforcing, StitchEnforcing}
         /\ Head(todo) = "routePersist" => todo \in {Persisting, StitchPersisting}
         /\ Head(todo) = "stitch" => todo = Stitching
         /\ Head(todo) = "registerRoute" => todo = Last
<1>1. todo \in BeforeReload \/ todo \in Retrying \/ todo \in SavingFill \/ todo \in AfterFill
  BY DEF RoutePlaces
<1>2. ASSUME todo \in BeforeReload
      PROVE  IsRoute(todo) /\ Len(todo) >= 7
  <2>1. IsRoute(todo)
    BY <1>2, PlacesAre, Zenon DEF BeforeReload, IsPlace
  <2>2. Len(todo) \in {7, 8, 9, 10, 11, 12, 13, 14}
    BY <1>2, PlaceHeads, Zenon DEF BeforeReload
  <2>3. Len(todo) >= 7
    <3>1. \A n \in {7, 8, 9, 10, 11, 12, 13, 14} : n >= 7
      OBVIOUS
    <3> QED BY <2>2, <3>1, Zenon
  <2> QED BY <2>1, <2>3, Zenon
<1>3. ASSUME todo \in Retrying
      PROVE  IsRoute(todo) /\ Len(todo) < 7 /\ Head(todo) \in {"reopen", "reloadAgain", "fill"}
  <2>1. IsRoute(todo)
    BY <1>3, PlacesAre, Zenon DEF Retrying, IsPlace
  <2>2. Len(todo) \in {4, 5, 6}
    BY <1>3, PlaceHeads, Zenon DEF Retrying
  <2>3. Head(todo) \in {"reopen", "reloadAgain", "fill"}
    BY <1>3, PlaceHeads DEF Retrying
  <2>4. Len(todo) < 7
    BY <2>1, <2>2 DEF IsRoute
  <2> QED BY <2>1, <2>3, <2>4, Zenon
<1>4. ASSUME todo \in SavingFill
      PROVE  IsRoute(todo) /\ Len(todo) < 7 /\ Head(todo) \in {"refill", "enforce", "routePersist"}
  <2>1. IsRoute(todo)
    BY <1>4, PlacesAre, Zenon DEF SavingFill, IsPlace
  <2>2. Len(todo) \in {3, 4, 5, 6}
    BY <1>4, PlaceHeads, Zenon DEF SavingFill
  <2>3. Head(todo) \in {"refill", "enforce", "routePersist"}
    BY <1>4, PlaceHeads DEF SavingFill
  <2>4. Len(todo) < 7
    BY <2>1, <2>2 DEF IsRoute
  <2> QED BY <2>1, <2>3, <2>4, Zenon
<1>5. ASSUME todo \in AfterFill
      PROVE  IsRoute(todo) /\ Len(todo) < 7 /\ Head(todo) \in {"build", "stitch", "registerRoute"}
  <2>1. IsRoute(todo)
    BY <1>5, PlacesAre, Zenon DEF AfterFill, IsPlace
  <2>2. Len(todo) \in {1, 2, 3}
    BY <1>5, PlaceHeads, Zenon DEF AfterFill
  <2>3. Head(todo) \in {"build", "stitch", "registerRoute"}
    BY <1>5, PlaceHeads DEF AfterFill
  <2>4. Len(todo) < 7
    BY <2>1, <2>2 DEF IsRoute
  <2> QED BY <2>1, <2>3, <2>4, Zenon
<1>6. /\ todo \in BeforeReload => todo \notin Retrying \cup SavingFill \cup AfterFill
      /\ todo \in Retrying => todo \notin SavingFill \cup AfterFill
      /\ todo \in SavingFill => todo \notin AfterFill
  BY <1>2, <1>3, <1>4, <1>5
<1>7. Head(todo) \in RouteOnly \cup {"backup", "build", "refill", "enforce"}
  BY <1>1, PlaceHeads DEF BeforeReload, Retrying, SavingFill, AfterFill, RouteOnly
<1>8. CASE todo \in BeforeReload
  BY <1>2, <1>6, <1>7, <1>8, PlaceHeads DEF BeforeReload
<1>9. CASE todo \in Retrying
  BY <1>3, <1>6, <1>7, <1>9, PlaceHeads DEF Retrying
<1>10. CASE todo \in SavingFill
  BY <1>4, <1>6, <1>7, <1>10, PlaceHeads DEF SavingFill
<1>11. CASE todo \in AfterFill
  BY <1>5, <1>6, <1>7, <1>11, PlaceHeads DEF AfterFill
<1> QED BY <1>1, <1>8, <1>9, <1>10, <1>11

\* The classes of what comes after each of them.
LEMMA PlacesClasses ==
  /\ {RouteSteps, Opening, Saving, Counting, Building, Autorouting, Replacing, Reloading}
       = BeforeReload
  /\ {Reopening, ReloadingAgain, Filling} = Retrying
  /\ {Refilling, Enforcing, Persisting, StitchRefilling, StitchEnforcing, StitchPersisting}
       = SavingFill
  /\ {Checking, Stitching, Measuring, Last} = AfterFill
  /\ RoutePlaces = BeforeReload \cup Retrying \cup SavingFill \cup AfterFill
BY DEF BeforeReload, Retrying, SavingFill, AfterFill, RoutePlaces

\* What is not about the call: the store, the two copies of the board, the
\* anchors and the gaps.
StateOK == StoreInv /\ BoardOK /\ AnchorsPcb /\ BehindIsGuarded

RouteInv == SyncInv /\ RouteOK

\* At every place the registration comes last.
LEMMA PlaceRoutes ==
  ASSUME NEW todo \in RoutePlaces
  PROVE  /\ todo \in Seq(Steps) /\ todo # <<>>
         /\ todo[Len(todo)] = "registerRoute" /\ GuardFirst(todo)
BY PlacesDiffer DEF IsRoute, GuardFirst

\* A step shared with other tools leaves the locals of route_board alone.
LEMMA KeptLocals ==
  ASSUME KeepLocals, call'.todo \in RoutePlaces
  PROVE  route' = route
<1>1. call'.todo # <<>> /\ call'.todo[Len(call'.todo)] = "registerRoute"
  BY PlaceRoutes
<1> QED BY <1>1 DEF KeepLocals, Routing, Running

\* A step of route_board belongs to a route_board.
LEMMA IsRouting ==
  ASSUME CallOK, RouteOK, NEW step \in RouteOnly, Doing(step)
  PROVE  Routing
<1>1. call.todo \in Seq(Steps) /\ call.todo # <<>> /\ call.todo[1] = step
  BY DEF Doing, Running, CallOK, Calls
<1>2. 1 \in 1..Len(call.todo)
  BY <1>1, LenProperties
<1> QED BY <1>1, <1>2 DEF RouteOK

\* A call that ends takes its locals with it.
LEMMA RouteEnds ==
  ASSUME StateOK', CallOK, NEW reply \in Replies, Return(reply), KeepLocals
  PROVE  RouteInv'
<1>1. CallOK' /\ call'.mark = 0 /\ call'.todo = <<>>
  BY ReturnKeeps DEF Return, Idle
<1>2. MarkOK'
  <2>1. nextEdit' \in Nat /\ nextEdit' >= 0
    BY MaxEditsAssumption DEF StateOK, BoardOK
  <2> QED BY <1>1, <2>1 DEF MarkOK
<1>3. route' = NoRoute /\ ~Routing'
  BY <1>1 DEF KeepLocals, Routing, Running
<1>4. NoRoute \in Locals
  BY DEF NoRoute, Locals, NoBoard, Contents, Fills, Reloads
<1>5. RouteOK'
  BY <1>1, <1>3, <1>4 DEF RouteOK
<1> QED BY <1>1, <1>2, <1>5 DEF RouteInv, SyncInv, StateOK

\* What is to be shown of a step after which a route_board goes on.
LEMMA RouteGoesOn ==
  ASSUME StateOK', call' \in Calls, call'.todo \in RoutePlaces, call'.mark <= nextEdit',
         route' \in Locals, RoutePlace', RouteMark', RouteUndisturbed'
  PROVE  RouteInv'
<1>1. /\ call'.todo # <<>> /\ GuardFirst(call'.todo)
      /\ call'.todo[Len(call'.todo)] = "registerRoute"
  BY PlaceRoutes
<1>2. CallOK'
  BY <1>1 DEF CallOK
<1>3. MarkOK'
  BY DEF MarkOK, RouteMark, Behind
<1>4. RouteOK'
  BY <1>1 DEF RouteOK, Routing, Running
<1> QED BY <1>2, <1>3, <1>4 DEF RouteInv, SyncInv, StateOK

\* Before the reload nothing is marked, whatever is done to the board.
LEMMA RouteBefore ==
  ASSUME RouteInv, Routing, StateOK', call.todo \in BeforeReload,
         call' \in Calls, call'.todo \in BeforeReload, call'.mark = call.mark,
         route' \in Locals, route'.reload = route.reload
  PROVE  RouteInv'
<1>1. route.reload = "none" /\ call.mark = 0
  BY DEF RouteInv, RouteOK, RoutePlace
<1>2. call'.todo \in RoutePlaces /\ call'.todo \notin SavingFill
  BY PlacesDiffer DEF RoutePlaces
<1>3. call'.mark <= nextEdit'
  BY <1>1, MaxEditsAssumption DEF StateOK, BoardOK
<1>4. RoutePlace' /\ RouteMark' /\ RouteUndisturbed'
  BY <1>1, <1>2 DEF RoutePlace, RouteMark, RouteUndisturbed
<1> QED BY <1>2, <1>3, <1>4, RouteGoesOn

\* After it, a step that changes nothing.
LEMMA RouteLooks ==
  ASSUME RouteInv, Routing, StateOK', UNCHANGED <<disk, live, editor, nextEdit>>,
         call' \in Calls, call'.todo \in RoutePlaces \ BeforeReload, call.todo \notin SavingFill,
         call'.mark = call.mark, call'.board = call.board, call'.alone = call.alone, route' = route,
         call'.todo \in SavingFill => route.reload = "done" /\ Head(call'.todo) # "routePersist",
         call'.todo \in AfterFill /\ route.reload = "done" /\ route.refill /\ route.zones =>
           call.todo \in AfterFill
  PROVE  RouteInv'
<1>1. RoutePlace /\ RouteMark /\ RouteUndisturbed /\ route \in Locals
  BY DEF RouteInv, RouteOK
<1>2. call'.mark <= nextEdit'
  BY DEF RouteInv, SyncInv, MarkOK
<1>3. RoutePlace'
  BY <1>1 DEF RoutePlace
<1>4. RouteMark'
  BY <1>1 DEF RouteMark
<1>5. Head(call'.todo) = "routePersist" => call'.todo \in SavingFill
  BY PlacesDiffer DEF SavingFill
<1>6. RouteUndisturbed'
  BY <1>1, <1>5 DEF RouteUndisturbed
<1> QED BY <1>1, <1>2, <1>3, <1>4, <1>6, RouteGoesOn

\* A step takes a route_board from a place to the next one.
LEMMA ContinuePlace ==
  ASSUME CallOK, Running, Continue, Tail(call.todo) \in RoutePlaces
  PROVE  /\ call' \in Calls /\ call'.todo = Tail(call.todo) /\ call'.mark = call.mark
         /\ call'.board = call.board /\ call'.alone = call.alone
<1>1. Tail(call.todo) \in Seq(Steps) /\ Tail(call.todo) # <<>>
  BY PlaceRoutes
<1>2. call'.todo # <<>>
  BY <1>1, EndOfContinue
<1>3. call' = [call EXCEPT !.todo = Tail(@)]
  BY <1>2 DEF Continue, Return, Idle
<1> QED BY <1>1, <1>3 DEF CallOK, Calls

\* The three ways a step of route_board treats store and board.
LEMMA StateStill ==
  ASSUME SyncInv, UNCHANGED <<storeVars, board, editor, gaps>>
  PROVE  StateOK'
<1>1. StoreInv'
  BY StoreInvStep DEF SyncInv
<1>2. BoardOK'
  BY DEF SyncInv, BoardOK, board
<1>3. AnchorsPcb'
  BY AnchorsStep DEF SyncInv, StoreInv, StoreUse
<1>4. BehindIsGuarded'
  BY DEF SyncInv, BehindIsGuarded, Behind, Guarded, NoExternalEdit, Unchanged, Changed,
         storeVars, memory, files, board
<1> QED BY <1>1, <1>2, <1>3, <1>4 DEF StateOK

\* A step that moves edits between the copies keeps the state, call aside.
LEMMA StateMoves ==
  ASSUME SyncInv, BoardEffect, UNCHANGED <<memory, editor>>, GapsAfter({})
  PROVE  StateOK'
<1>1. StoreUse
  <2>1. Write(Pcb) \/ UNCHANGED files
    BY DEF BoardEffect, EditLive, SetFill, SaveLive, RevertLive
  <2> QED BY <2>1, FilesFacts DEF StoreUse, WriteFile, memory, files, storeVars
<1>2. [StoreNext]_storeVars
  BY <1>1 DEF StoreUse, StoreNext
<1>3. StoreInv'
  BY <1>2, StoreInvStep DEF SyncInv
<1>4. AnchorsPcb'
  BY <1>1, AnchorsStep DEF SyncInv, StoreInv
<1>5. BehindIsGuarded'
  BY <1>2, BehindMoves DEF SyncInv
<1>6. gaps' \subseteq Gaps
  BY GapsType DEF SyncInv
<1>7. BoardOK'
  BY <1>6, BoardMoves DEF SyncInv
<1> QED BY <1>3, <1>4, <1>5, <1>7 DEF StateOK

\* So does a write of the disk that the anchor notices, or there is none.
LEMMA StateReplaced ==
  ASSUME SyncInv, Write(Pcb), UNCHANGED <<memory, live, editor>>,
         disk' \in Contents, nextEdit' \in 1..(MaxEdits + 1),
         GapsAfter(IF latestDiskMtimes = {} THEN {"unanchored"} ELSE {})
  PROVE  StateOK'
<1>1. StoreUse
  BY FilesFacts DEF StoreUse, WriteFile
<1>2. [StoreNext]_storeVars
  BY <1>1 DEF StoreUse, StoreNext
<1>3. StoreInv'
  BY <1>2, StoreInvStep DEF SyncInv
<1>4. AnchorsPcb'
  BY <1>1, AnchorsStep DEF SyncInv, StoreInv
<1>5. BehindIsGuarded'
  BY BehindWrites DEF SyncInv
<1>6. gaps' \subseteq Gaps
  <2>1. (IF latestDiskMtimes = {} THEN {"unanchored"} ELSE {}) \in SUBSET Gaps
    BY DEF Gaps
  <2> QED BY <2>1, GapsType DEF SyncInv
<1>7. BoardOK'
  BY <1>6 DEF SyncInv, BoardOK
<1> QED BY <1>3, <1>4, <1>5, <1>7 DEF StateOK

\* What RouteInv says of a running route_board.
LEMMA RoutingFacts ==
  ASSUME RouteInv
  PROVE  /\ SyncInv /\ CallOK /\ RouteOK /\ call \in Calls /\ route \in Locals /\ BoardOK
         /\ MaxEdits \in Nat
         /\ Routing => Running /\ call.todo \in RoutePlaces /\ RoutePlace /\ RouteMark /\ RouteUndisturbed
BY MaxEditsAssumption DEF RouteInv, SyncInv, CallOK, RouteOK, RoutePlace, Routing

\* A step that goes on to the next place, with whatever handle and mark.
LEMMA WalkTypes ==
  ASSUME CallOK, Tail(call.todo) \in RoutePlaces, NEW b \in Editors,
         NEW m \in 0..(MaxEdits + 1),
         \/ call' = [call EXCEPT !.todo = Tail(@), !.board = b] /\ m = call.mark
         \/ call' = [call EXCEPT !.todo = Tail(@), !.mark = m] /\ b = call.board
         \/ call' = [call EXCEPT !.todo = Tail(@)] /\ m = call.mark /\ b = call.board
  PROVE  /\ call' \in Calls /\ call'.todo = Tail(call.todo) /\ call'.board = b /\ call'.mark = m
         /\ call'.alone = call.alone
BY PlaceRoutes DEF CallOK, Calls

\* The two errors of route_board's steps are replies.
LEMMA FailedIsReply == "FAILED" \in Replies /\ "PERSIST_FAILED" \in Replies
BY DEF Replies

\* A route_board begins at its first place, with nothing reloaded.
LEMMA BeginRouteStep ==
  ASSUME RouteInv, BeginRoute
  PROVE  RouteInv'
<1>1. StateOK'
  BY StateStill, RoutingFacts DEF BeginRoute
<1>2. RouteSteps \in RoutePlaces /\ RouteSteps \in BeforeReload /\ RouteSteps \notin SavingFill
  BY PlacesClasses, PlacesDiffer
<1>3. /\ call'.todo = RouteSteps /\ call'.mark = 0 /\ call'.board = "closed"
      /\ call'.alone = TRUE /\ call'.reply = "none"
      /\ call' = [todo |-> RouteSteps, board |-> "closed", mark |-> 0, reply |-> "none", alone |-> TRUE]
  BY DEF BeginRoute
<1>4. call' \in Calls
  <2>1. RouteSteps \in Seq(Steps) /\ 0 \in 0..(MaxEdits + 1) /\ "closed" \in Editors /\ "none" \in Replies
    BY <1>2, PlaceRoutes, RoutingFacts DEF Editors, Replies
  <2> QED BY <1>3, <2>1 DEF Calls
<1>5. route' \in Locals /\ route'.reload = "none"
  <2>1. PICK refill \in BOOLEAN : route' = [NoRoute EXCEPT !.refill = refill]
    BY DEF BeginRoute
  <2>2. NoRoute \in Locals /\ NoRoute.reload = "none"
    BY DEF NoRoute, Locals, NoBoard, Contents, Fills, Reloads
  <2> QED BY <2>1, <2>2 DEF Locals
<1>6. call'.mark <= nextEdit'
  BY <1>1, <1>3, RoutingFacts DEF StateOK, BoardOK
<1>7. RoutePlace' /\ RouteMark' /\ RouteUndisturbed'
  BY <1>2, <1>3, <1>5 DEF RoutePlace, RouteMark, RouteUndisturbed
<1> QED BY <1>1, <1>2, <1>3, <1>4, <1>5, <1>6, <1>7, RouteGoesOn

\* The handle it opens is of the board in the editor, whichever that is.
LEMMA OpenStep ==
  ASSUME RouteInv, Open
  PROVE  RouteInv'
<1>1. Doing("open") /\ StateOK' /\ KeepLocals
  BY StateStill, RoutingFacts DEF Open, OpenHandle
<1>2. Routing /\ call.todo = Opening
  BY <1>1, IsRouting, RoutingFacts, PlacesDiffer DEF RouteOnly, Doing
<1>3. CASE Return("FAILED")
  BY <1>1, <1>3, RouteEnds, RoutingFacts, FailedIsReply
<1>4. CASE OpenHandle("open")
  <2>1. Tail(call.todo) = Saving /\ Saving \in RoutePlaces /\ Saving \in BeforeReload /\ Opening \in BeforeReload
    BY <1>2, PlacesFollow, PlacesClasses
  <2>2. PICK b \in Editors : call' = [call EXCEPT !.todo = Tail(@), !.board = b]
    BY <1>4, RoutingFacts DEF OpenHandle, BoardOK, Editors
  <2>3. call' \in Calls /\ call'.todo = Saving /\ call'.mark = call.mark
    BY <2>1, <2>2, WalkTypes, RoutingFacts DEF Calls
  <2>4. route' = route
    BY <1>1, <2>1, <2>3, KeptLocals
  <2> QED BY <1>1, <1>2, <2>1, <2>3, <2>4, RouteBefore, RoutingFacts
<1> QED BY <1>3, <1>4 DEF Open

\* The implicit save is before the reload; it is no step that RouteMark is
\* about.
LEMMA ImplicitSaveStep ==
  ASSUME RouteInv, ImplicitSave
  PROVE  RouteInv'
<1>1. Doing("implicitSave") /\ KeepLocals /\ UNCHANGED <<memory, editor>> /\ GapsAfter({})
  BY DEF ImplicitSave
<1>2. Routing /\ call.todo = Saving
  BY <1>1, IsRouting, RoutingFacts, PlacesDiffer DEF RouteOnly, Doing
<1>3. BoardEffect /\ (Continue \/ Return("FAILED"))
  BY DEF ImplicitSave, Request, BoardEffect
<1>4. StateOK'
  BY <1>1, <1>3, StateMoves, RoutingFacts
<1>5. CASE Return("FAILED")
  BY <1>1, <1>4, <1>5, RouteEnds, RoutingFacts, FailedIsReply
<1>6. CASE Continue
  <2>1. Tail(call.todo) = Counting /\ Counting \in RoutePlaces /\ Counting \in BeforeReload /\ Saving \in BeforeReload
    BY <1>2, PlacesFollow, PlacesClasses
  <2>2. call' \in Calls /\ call'.todo = Counting /\ call'.mark = call.mark
    BY <1>2, <1>6, <2>1, ContinuePlace, RoutingFacts
  <2>3. route' = route
    BY <1>1, <2>1, <2>2, KeptLocals
  <2> QED BY <1>2, <1>4, <2>1, <2>2, <2>3, RouteBefore, RoutingFacts
<1> QED BY <1>3, <1>5, <1>6

\* Zones are counted only when the flag is clear.
LEMMA CountStep ==
  ASSUME RouteInv, Count
  PROVE  RouteInv'
<1>1. Doing("count") /\ StateOK'
  BY StateStill, RoutingFacts DEF Count
<1>2. Routing /\ call.todo = Counting
  BY <1>1, IsRouting, RoutingFacts, PlacesDiffer DEF RouteOnly, Doing
<1>3. CASE Return("FAILED") /\ KeepLocals
  BY <1>1, <1>3, RouteEnds, RoutingFacts, FailedIsReply
<1>4. CASE Continue /\ (KeepLocals \/ route' = [route EXCEPT !.zones = live.fill # "none"])
  <2>1. Tail(call.todo) = Building /\ Building \in RoutePlaces /\ Building \in BeforeReload /\ Counting \in BeforeReload
    BY <1>2, PlacesFollow, PlacesClasses
  <2>2. call' \in Calls /\ call'.todo = Building /\ call'.mark = call.mark
    BY <1>2, <1>4, <2>1, ContinuePlace, RoutingFacts
  <2>3. KeepLocals => route' = route
    BY <2>1, <2>2, KeptLocals
  <2>4. route' \in Locals /\ route'.reload = route.reload
    BY <1>4, <2>3, RoutingFacts DEF Locals
  <2> QED BY <1>1, <1>2, <2>1, <2>2, <2>4, RouteBefore
<1> QED BY <1>3, <1>4 DEF Count

\* What is routed is the disk as it is.
LEMMA AutorouteStep ==
  ASSUME RouteInv, Autoroute
  PROVE  RouteInv'
<1>1. Doing("autoroute") /\ StateOK'
  BY StateStill, RoutingFacts DEF Autoroute
<1>2. Routing /\ call.todo = Autorouting
  BY <1>1, IsRouting, RoutingFacts, PlacesDiffer DEF RouteOnly, Doing
<1>3. CASE Return("FAILED") /\ KeepLocals
  BY <1>1, <1>3, RouteEnds, RoutingFacts, FailedIsReply
<1>4. CASE Continue /\ route' = [route EXCEPT !.base = disk]
  <2>1. /\ Tail(call.todo) = Replacing /\ Replacing \in RoutePlaces
        /\ Replacing \in BeforeReload /\ Autorouting \in BeforeReload
    BY <1>2, PlacesFollow, PlacesClasses
  <2>2. call' \in Calls /\ call'.todo = Replacing /\ call'.mark = call.mark
    BY <1>2, <1>4, <2>1, ContinuePlace, RoutingFacts
  <2>3. route' \in Locals /\ route'.reload = route.reload
    BY <1>4, RoutingFacts DEF Locals, BoardOK
  <2> QED BY <1>1, <1>2, <2>1, <2>2, <2>3, RouteBefore
<1> QED BY <1>3, <1>4 DEF Autoroute

\* The routing is a new edit that only the disk has; the anchor guards the
\* editor.
LEMMA ReplaceStep ==
  ASSUME RouteInv, Replace
  PROVE  RouteInv'
<1>1. /\ Doing("replace") /\ UNCHANGED <<memory, live, editor>>
      /\ GapsAfter(IF latestDiskMtimes = {} THEN {"unanchored"} ELSE {})
  BY DEF Replace
<1>2. Routing /\ call.todo = Replacing
  BY <1>1, IsRouting, RoutingFacts, PlacesDiffer DEF RouteOnly, Doing
<1>3. CASE Return("FAILED") /\ UNCHANGED <<nextEdit, disk, files>> /\ KeepLocals
  <2>1. [StoreNext]_storeVars /\ StoreUse
    BY <1>1, <1>3 DEF storeVars, StoreUse, memory, files
  <2>2. StoreInv' /\ AnchorsPcb'
    BY <2>1, StoreInvStep, AnchorsStep, RoutingFacts DEF SyncInv, StoreInv
  <2>3. gaps' \subseteq Gaps
    <3>1. (IF latestDiskMtimes = {} THEN {"unanchored"} ELSE {}) \in SUBSET Gaps
      BY DEF Gaps
    <3> QED BY <1>1, <3>1, GapsType, RoutingFacts
  <2>4. BoardOK'
    BY <1>1, <1>3, <2>3, RoutingFacts DEF BoardOK
  <2>5. BehindIsGuarded'
    <3>1. (Behind' => Behind) /\ (Guarded => Guarded')
      BY <1>1, <1>3 DEF Behind, Guarded, NoExternalEdit, Unchanged, Changed, memory, files
    <3> QED BY <1>1, <3>1, RoutingFacts DEF SyncInv, BehindIsGuarded, GapsAfter
  <2>6. StateOK'
    BY <2>2, <2>4, <2>5 DEF StateOK
  <2> QED BY <1>3, <2>6, RouteEnds, RoutingFacts, FailedIsReply
<1>4. CASE /\ nextEdit <= MaxEdits /\ nextEdit' = nextEdit + 1
           /\ disk' = [edits |-> route.base.edits \cup {nextEdit},
                       fill |-> IF route.base.fill = "none" THEN "none" ELSE "stale"]
           /\ Write(Pcb) /\ Continue
           /\ route' = [route EXCEPT !.replaced = TRUE, !.base = NoBoard]
  <2>1. nextEdit \in 1..MaxEdits /\ nextEdit' \in 1..(MaxEdits + 1)
    BY <1>4, RoutingFacts DEF BoardOK
  <2>2. disk' \in Contents
    BY <1>4, <2>1, RoutingFacts DEF Locals, Contents, Fills
  <2>3. StateOK'
    BY <1>1, <1>4, <2>1, <2>2, StateReplaced, RoutingFacts
  <2>4. /\ Tail(call.todo) = Reloading /\ Reloading \in RoutePlaces
        /\ Reloading \in BeforeReload /\ Replacing \in BeforeReload
    BY <1>2, PlacesFollow, PlacesClasses
  <2>5. call' \in Calls /\ call'.todo = Reloading /\ call'.mark = call.mark
    BY <1>2, <1>4, <2>4, ContinuePlace, RoutingFacts
  <2>6. route' \in Locals /\ route'.reload = route.reload
    <3>1. NoBoard \in Contents
      BY DEF NoBoard, Contents, Fills
    <3> QED BY <1>4, <3>1, RoutingFacts DEF Locals
  <2> QED BY <1>2, <2>3, <2>4, <2>5, <2>6, RouteBefore
<1> QED BY <1>3, <1>4 DEF Replace

\* A try to reload: it marks what it reloaded, or leaves no mark.
LEMMA TryReloadStep ==
  ASSUME RouteInv, Routing, NEW step, NEW how \in {"lost", "failed"}, TryReload(step, how),
         call.mark = 0, call.board = "target",
         Tail(call.todo) \in Retrying
  PROVE  RouteInv'
<1>1. UNCHANGED <<memory, editor>> /\ GapsAfter({})
  BY DEF TryReload
<1>2. BoardEffect
  BY DEF TryReload, BoardEffect
<1>3. StateOK'
  BY <1>1, <1>2, StateMoves, RoutingFacts
<1>4. Tail(call.todo) \in RoutePlaces /\ Tail(call.todo) \notin BeforeReload \cup SavingFill \cup AfterFill
  BY PlacesClasses, PlacesDiffer
<1>5. Head(Tail(call.todo)) # "routePersist"
  BY PlaceHeads DEF Retrying
<1>6. CASE /\ RevertLive
           /\ call' = [call EXCEPT !.todo = Tail(@), !.mark = nextEdit]
           /\ route' = [route EXCEPT !.reload = "done"]
  <2>1. nextEdit \in 0..(MaxEdits + 1) /\ nextEdit # 0 /\ nextEdit' = nextEdit /\ live' = disk /\ disk' = disk
    BY <1>6, RoutingFacts DEF BoardOK, RevertLive
  <2>2. /\ call' \in Calls /\ call'.todo = Tail(call.todo) /\ call'.board = "target"
        /\ call'.mark = nextEdit /\ call'.alone = call.alone
    BY <1>4, <1>6, <2>1, WalkTypes, RoutingFacts DEF Calls
  <2>3. route' \in Locals /\ route'.reload = "done"
    BY <1>6, RoutingFacts DEF Locals, Reloads
  <2>4. call'.mark <= nextEdit'
    BY <2>1, <2>2, RoutingFacts DEF BoardOK
  <2>5. RoutePlace' /\ RouteMark' /\ RouteUndisturbed'
    BY <1>4, <1>5, <2>1, <2>2, <2>3 DEF RoutePlace, RouteMark, RouteUndisturbed
  <2> QED BY <1>3, <1>4, <2>2, <2>3, <2>4, <2>5, RouteGoesOn
<1>7. CASE /\ call' = [call EXCEPT !.todo = Tail(@)]
           /\ route' = [route EXCEPT !.reload = how]
  <2>1. /\ call' \in Calls /\ call'.todo = Tail(call.todo) /\ call'.board = "target"
        /\ call'.mark = 0 /\ call'.alone = call.alone
    BY <1>4, <1>7, WalkTypes, RoutingFacts DEF Calls
  <2>2. route' \in Locals /\ route'.reload = how
    BY <1>7, RoutingFacts DEF Locals, Reloads
  <2>3. call'.mark <= nextEdit'
    BY <1>3, <2>1, RoutingFacts DEF StateOK, BoardOK
  <2>4. RoutePlace' /\ RouteMark' /\ RouteUndisturbed'
    BY <1>4, <2>1, <2>2 DEF RoutePlace, RouteMark, RouteUndisturbed
  <2> QED BY <1>3, <1>4, <2>1, <2>2, <2>3, <2>4, RouteGoesOn
<1> QED BY <1>6, <1>7 DEF TryReload

\* A step that is not needed.
LEMMA SkipStep ==
  ASSUME RouteInv, Routing, NEW step, Skip(step), Tail(call.todo) \in Retrying,
         call.todo \notin SavingFill
  PROVE  RouteInv'
<1>1. Continue /\ UNCHANGED <<storeVars, board, editor, gaps>> /\ KeepLocals /\ StateOK'
  BY StateStill, RoutingFacts DEF Skip
<1>2. Tail(call.todo) \in RoutePlaces \ BeforeReload /\ Tail(call.todo) \notin SavingFill \cup AfterFill
  BY PlacesClasses, PlacesDiffer
<1>3. /\ call' \in Calls /\ call'.todo = Tail(call.todo) /\ call'.mark = call.mark
      /\ call'.board = call.board /\ call'.alone = call.alone
  BY <1>1, <1>2, ContinuePlace, RoutingFacts
<1>4. route' = route
  BY <1>1, <1>2, <1>3, KeptLocals
<1>5. UNCHANGED <<disk, live, editor, nextEdit>>
  BY <1>1 DEF board
<1> QED BY <1>1, <1>2, <1>3, <1>4, <1>5, RouteLooks

\* A reload brings the disk into the editor, and notes the edits there are.
LEMMA ReloadStep ==
  ASSUME RouteInv, Reload
  PROVE  RouteInv'
<1>1. Doing("reload")
  BY DEF Reload, TryReload, Skip
<1>2. Routing /\ call.todo = Reloading
  BY <1>1, IsRouting, RoutingFacts, PlacesDiffer DEF RouteOnly, Doing
<1>3. /\ Tail(call.todo) = Reopening /\ Reopening \in Retrying
      /\ Reloading \in BeforeReload /\ Reloading \in RoutePlaces
  BY <1>2, PlacesFollow, PlacesClasses
<1>4. Reloading \notin SavingFill
  BY <1>3, PlacesDiffer
<1>5. call.mark = 0
  BY <1>2, <1>3, RoutingFacts DEF RoutePlace
<1>6. CASE ~OwnBoard /\ Skip("reload")
  BY <1>2, <1>3, <1>4, <1>6, SkipStep
<1>7. CASE OwnBoard /\ \E how \in {"lost", "failed"} : TryReload("reload", how)
  BY <1>2, <1>3, <1>5, <1>7, TryReloadStep DEF OwnBoard
<1> QED BY <1>6, <1>7 DEF Reload

\* A fresh handle is opened only when the first reload found no KiCad.
LEMMA ReopenStep ==
  ASSUME RouteInv, Reopen
  PROVE  RouteInv'
<1>1. Doing("reopen")
  BY DEF Reopen, OpenHandle, Skip
<1>2. Routing /\ call.todo = Reopening
  BY <1>1, IsRouting, RoutingFacts, PlacesDiffer DEF RouteOnly, Doing
<1>3. /\ Tail(call.todo) = ReloadingAgain /\ ReloadingAgain \in Retrying
      /\ Reopening \in Retrying /\ Reopening \in RoutePlaces /\ ReloadingAgain \in RoutePlaces
  BY <1>2, PlacesFollow, PlacesClasses
<1>4. Reopening \notin SavingFill /\ ReloadingAgain \notin BeforeReload \cup SavingFill \cup AfterFill
  BY <1>3, PlacesDiffer
<1>5. CASE Skip("reopen")
  BY <1>2, <1>3, <1>4, <1>5, SkipStep
<1>6. CASE /\ route.reload = "lost" /\ OpenHandle("reopen")
           /\ route' = [route EXCEPT !.reload = IF call'.board = "target" THEN "lost" ELSE "failed"]
           /\ UNCHANGED <<storeVars, board, editor, gaps>>
  <2>1. StateOK'
    BY <1>6, StateStill, RoutingFacts
  <2>2. PICK b \in Editors : call' = [call EXCEPT !.todo = Tail(@), !.board = b]
    BY <1>6, RoutingFacts DEF OpenHandle, BoardOK, Editors
  <2>3. /\ call' \in Calls /\ call'.todo = ReloadingAgain /\ call'.board = b
        /\ call'.mark = call.mark /\ call'.alone = call.alone
    BY <1>3, <2>2, WalkTypes, RoutingFacts DEF Calls
  <2>4. call.mark = 0
    BY <1>2, <1>6, RoutingFacts DEF RoutePlace
  <2>5. /\ route' \in Locals
        /\ route'.reload = "lost" \/ route'.reload = "failed"
        /\ route'.reload = "lost" => call'.board = "target"
    BY <1>6, RoutingFacts DEF Locals, Reloads
  <2>6. call'.mark <= nextEdit'
    BY <2>1, <2>3, <2>4, RoutingFacts DEF StateOK, BoardOK
  <2>7. RoutePlace' /\ RouteMark' /\ RouteUndisturbed'
    BY <1>3, <1>4, <2>3, <2>4, <2>5 DEF RoutePlace, RouteMark, RouteUndisturbed
  <2> QED BY <1>3, <2>1, <2>3, <2>5, <2>6, <2>7, RouteGoesOn
<1> QED BY <1>5, <1>6 DEF Reopen

\* The second reload is as the first one.
LEMMA ReloadAgainStep ==
  ASSUME RouteInv, ReloadAgain
  PROVE  RouteInv'
<1>1. Doing("reloadAgain")
  BY DEF ReloadAgain, TryReload, Skip
<1>2. Routing /\ call.todo = ReloadingAgain
  BY <1>1, IsRouting, RoutingFacts, PlacesDiffer DEF RouteOnly, Doing
<1>3. /\ Tail(call.todo) = Filling /\ Filling \in Retrying
      /\ ReloadingAgain \in Retrying /\ ReloadingAgain \in RoutePlaces
  BY <1>2, PlacesFollow, PlacesClasses
<1>4. ReloadingAgain \notin SavingFill
  BY <1>3, PlacesDiffer
<1>5. CASE Skip("reloadAgain")
  BY <1>2, <1>3, <1>4, <1>5, SkipStep
<1>6. CASE route.reload = "lost" /\ TryReload("reloadAgain", "failed")
  <2>1. call.mark = 0 /\ call.board = "target"
    BY <1>2, <1>6, RoutingFacts DEF RoutePlace
  <2> QED BY <1>2, <1>3, <1>6, <2>1, TryReloadStep
<1> QED BY <1>5, <1>6 DEF ReloadAgain

\* The steps of a refill come before what is left, only if the reload was
\* done.
LEMMA FillStep ==
  ASSUME RouteInv, Fill
  PROVE  RouteInv'
<1>1. Doing("fill") /\ UNCHANGED <<storeVars, board, editor, gaps>> /\ KeepLocals /\ StateOK'
  BY StateStill, RoutingFacts DEF Fill
<1>2. Routing /\ call.todo = Filling
  BY <1>1, IsRouting, RoutingFacts, PlacesDiffer DEF RouteOnly, Doing
<1>3. /\ Tail(Filling) = Checking /\ Checking \in AfterFill /\ Refilling \in SavingFill
      /\ Filling \in Retrying
      /\ <<"refill", "enforce", "routePersist">> \o Tail(Filling) = Refilling
      /\ {Filling, Checking, Refilling} \subseteq RoutePlaces
  BY PlacesFollow, PlacesClasses
<1>4. /\ Filling \notin SavingFill /\ Checking \notin BeforeReload \cup SavingFill
      /\ Refilling \notin BeforeReload \cup AfterFill /\ Head(Refilling) # "routePersist"
  BY <1>3, PlacesDiffer, PlaceHeads
<1>5. UNCHANGED <<disk, live, editor, nextEdit>>
  BY <1>1 DEF board
<1>6. CASE route.refill /\ Synced /\ Before(<<"refill", "enforce", "routePersist">>)
  <2>1. call' = [call EXCEPT !.todo = Refilling]
    BY <1>2, <1>3, <1>6 DEF Before
  <2>2. Refilling \in Seq(Steps)
    BY <1>3, PlaceRoutes
  <2>3. /\ call' \in Calls /\ call'.todo = Refilling /\ call'.mark = call.mark
        /\ call'.board = call.board /\ call'.alone = call.alone
    BY <2>1, <2>2, RoutingFacts DEF Calls
  <2>4. route' = route
    BY <1>1, <1>3, <2>3, KeptLocals
  <2>5. route.reload = "done"
    BY <1>6 DEF Synced
  <2> QED BY <1>1, <1>2, <1>3, <1>4, <1>5, <2>3, <2>4, <2>5, RouteLooks
<1>7. CASE ~(route.refill /\ Synced) /\ Continue
  <2>1. /\ call' \in Calls /\ call'.todo = Checking /\ call'.mark = call.mark
        /\ call'.board = call.board /\ call'.alone = call.alone
    BY <1>2, <1>3, <1>7, ContinuePlace, RoutingFacts
  <2>2. route' = route
    BY <1>1, <1>3, <2>1, KeptLocals
  <2>3. ~(route.reload = "done" /\ route.refill /\ route.zones)
    BY <1>7 DEF Synced
  <2> QED BY <1>1, <1>2, <1>3, <1>4, <1>5, <2>1, <2>2, <2>3, RouteLooks
<1> QED BY <1>1, <1>6, <1>7 DEF Fill

\* A request after the reload may only add to what the editor has.
LEMMA MarkMoved ==
  ASSUME RouteInv, Routing, BoardEffect, UNCHANGED editor, call'.mark = call.mark
  PROVE  RouteMark' /\ call'.mark <= nextEdit'
<1>1. disk'.edits \ live'.edits \subseteq disk.edits \ live.edits
  BY EffectKeepsUp, RoutingFacts
<1>2. RouteMark'
  BY <1>1, RoutingFacts DEF RouteMark
<1>3. nextEdit' \in {nextEdit, nextEdit + 1} /\ nextEdit \in Nat /\ call.mark \in Nat
  <2>1. nextEdit' \in {nextEdit, nextEdit + 1}
    BY DEF BoardEffect, board, EditLive, SetFill, SaveLive, RevertLive
  <2> QED BY <2>1, RoutingFacts DEF BoardOK, Calls
<1>4. call.mark <= nextEdit
  BY RoutingFacts DEF SyncInv, MarkOK
<1> QED BY <1>2, <1>3, <1>4

\* A step of the refill, from the edit that makes it needed to its save.
LEMMA SavingStep ==
  ASSUME RouteInv, Routing, StateOK', BoardEffect, UNCHANGED editor,
         call' \in Calls, call'.mark = call.mark, call'.board = call.board,
         call'.alone = call.alone, route' = route, route.reload = "done",
         call'.todo \in SavingFill \cup AfterFill,
         call'.todo \in SavingFill /\ call.alone /\ Head(call'.todo) = "routePersist" =>
           live'.fill # "stale",
         call'.todo \in AfterFill /\ call.alone => disk' = live' /\ disk'.fill # "stale"
  PROVE  RouteInv'
<1>1. call'.todo \in RoutePlaces /\ call'.todo \notin BeforeReload
  BY PlacesClasses, PlacesDiffer
<1>2. RouteMark' /\ call'.mark <= nextEdit'
  BY MarkMoved
<1>3. RoutePlace'
  BY <1>1, RoutingFacts DEF RoutePlace
<1>4. call'.todo \in AfterFill => Head(call'.todo) # "routePersist"
  BY PlaceHeads DEF AfterFill
<1>5. RouteUndisturbed'
  BY <1>4 DEF RouteUndisturbed
<1> QED BY <1>1, <1>2, <1>3, <1>5, RouteGoesOn, RoutingFacts

\* The refill is saved on the board that was reloaded.
LEMMA RoutePersistStep ==
  ASSUME RouteInv, RoutePersist
  PROVE  RouteInv'
<1>1. /\ Doing("routePersist") /\ KeepLocals /\ UNCHANGED <<memory, editor>> /\ GapsAfter({})
      /\ Return("PERSIST_FAILED") \/ (Continue /\ OnTarget(SaveLive))
  BY DEF RoutePersist, BoardRequest, Request
<1>2. BoardEffect
  BY DEF RoutePersist, BoardRequest, Request, OnTarget, BoardEffect
<1>3. StateOK'
  BY <1>1, <1>2, StateMoves, RoutingFacts
<1>4. Routing /\ call.todo \in {Persisting, StitchPersisting} /\ Head(call.todo) = "routePersist"
  BY <1>1, IsRouting, RoutingFacts, PlacesDiffer DEF RouteOnly, Doing
<1>5. /\ Tail(call.todo) \in {Checking, Measuring} /\ {Checking, Measuring} \subseteq AfterFill
      /\ {Checking, Measuring} \subseteq RoutePlaces
      /\ call.todo \in SavingFill
  BY <1>4, PlacesFollow, PlacesClasses
<1>6. CASE Return("PERSIST_FAILED")
  BY <1>1, <1>3, <1>6, RouteEnds, RoutingFacts, FailedIsReply
<1>7. CASE Continue /\ OnTarget(SaveLive)
  <2>1. /\ call' \in Calls /\ call'.todo = Tail(call.todo) /\ call'.mark = call.mark
        /\ call'.board = call.board /\ call'.alone = call.alone
    BY <1>4, <1>5, <1>7, ContinuePlace, RoutingFacts
  <2>2. route' = route
    BY <1>1, <1>5, <2>1, KeptLocals
  <2>3. route.reload = "done" /\ call.board = "target"
    BY <1>4, <1>5, RoutingFacts DEF RoutePlace
  <2>4. disk' = live /\ live' = live
    BY <1>7, <2>3 DEF OnTarget, SaveLive
  <2>5. call.alone => live.fill # "stale"
    BY <1>4, <2>3, RoutingFacts DEF RouteUndisturbed
  <2>6. call'.todo \in AfterFill /\ call'.todo \notin SavingFill
    <3>1. call'.todo \in AfterFill /\ call'.todo \in RoutePlaces
      BY <1>5, <2>1
    <3> QED BY <3>1, PlacesDiffer
  <2> QED BY <1>1, <1>2, <1>3, <1>4, <2>1, <2>2, <2>3, <2>4, <2>5, <2>6, SavingStep
<1> QED BY <1>1, <1>6, <1>7

\* Stitching vias are followed by a refill and its save.
LEMMA StitchStep ==
  ASSUME RouteInv, Stitch
  PROVE  RouteInv'
<1>1. /\ Doing("stitch") /\ KeepLocals /\ UNCHANGED <<memory, editor>> /\ GapsAfter({})
  BY DEF Stitch
<1>2. PlaceVia => EditLive
  BY DEF PlaceVia, EditLive
<1>3. BoardEffect
  BY <1>2 DEF Stitch, OnTarget, BoardEffect
<1>4. StateOK'
  BY <1>1, <1>3, StateMoves, RoutingFacts
<1>5. Routing /\ call.todo = Stitching
  BY <1>1, IsRouting, RoutingFacts, PlacesDiffer DEF RouteOnly, Doing
<1>6. /\ Tail(Stitching) = Last /\ {Stitching, Last} \subseteq AfterFill /\ StitchRefilling \in SavingFill
      /\ <<"refill", "enforce", "routePersist", "build">> \o Tail(Stitching) = StitchRefilling
      /\ {Stitching, Last, StitchRefilling} \subseteq RoutePlaces
  BY PlacesFollow, PlacesClasses
<1>7. /\ Stitching \notin SavingFill /\ Last \notin BeforeReload \cup SavingFill
      /\ StitchRefilling \notin AfterFill /\ Head(StitchRefilling) # "routePersist"
  BY <1>6, PlacesDiffer, PlaceHeads
<1>8. CASE Return("FAILED")
  BY <1>1, <1>4, <1>8, RouteEnds, RoutingFacts, FailedIsReply
<1>9. CASE Continue /\ UNCHANGED <<board, files>>
  <2>1. /\ call' \in Calls /\ call'.todo = Last /\ call'.mark = call.mark
        /\ call'.board = call.board /\ call'.alone = call.alone
    BY <1>5, <1>6, <1>9, ContinuePlace, RoutingFacts
  <2>2. route' = route
    BY <1>1, <1>6, <2>1, KeptLocals
  <2>3. UNCHANGED <<disk, live, editor, nextEdit>>
    BY <1>1, <1>9 DEF board
  <2> QED BY <1>4, <1>5, <1>6, <1>7, <2>1, <2>2, <2>3, RouteLooks
<1>10. CASE Synced /\ Before(<<"refill", "enforce", "routePersist", "build">>)
  <2>1. call' = [call EXCEPT !.todo = StitchRefilling]
    BY <1>5, <1>6, <1>10 DEF Before
  <2>2. StitchRefilling \in Seq(Steps)
    BY <1>6, PlaceRoutes
  <2>3. /\ call' \in Calls /\ call'.todo = StitchRefilling /\ call'.mark = call.mark
        /\ call'.board = call.board /\ call'.alone = call.alone
    BY <2>1, <2>2, RoutingFacts DEF Calls
  <2>4. route' = route
    BY <1>1, <1>6, <2>3, KeptLocals
  <2>5. route.reload = "done"
    BY <1>10 DEF Synced
  <2> QED BY <1>1, <1>3, <1>4, <1>5, <1>6, <1>7, <2>3, <2>4, <2>5, SavingStep
<1> QED BY <1>8, <1>9, <1>10 DEF Stitch

\* The mtimes are recorded, and the flag says whether the editor has the
\* routing.
LEMMA RegisterRouteStep ==
  ASSUME RouteInv, RegisterRoute
  PROVE  RouteInv'
<1>1. /\ Doing("registerRoute") /\ Register("pcb", {CollectMtimes})
      /\ UNCHANGED <<files, board, editor>> /\ KeepLocals
      /\ ClearStale \/ MarkStale(nextId)
  BY DEF RegisterRoute
<1>2. PICK reply \in Replies : Return(reply)
  BY DEF RegisterRoute, Replies
<1>3. StoreUse
  BY <1>1 DEF StoreUse, RegisterDisk, Kinds
<1>4. StoreInv' /\ AnchorsPcb'
  BY <1>3, StoreInvStep, AnchorsStep, RoutingFacts DEF SyncInv, StoreInv, StoreUse, StoreNext
<1>5. BoardOK'
  <2>1. (IF route.reload = "done" THEN {"reanchored"} ELSE {}) \in SUBSET Gaps
    BY DEF Gaps
  <2>2. gaps' \subseteq Gaps
    BY <2>1, GapsType, RoutingFacts DEF RegisterRoute
  <2> QED BY <1>1, <2>2, RoutingFacts DEF BoardOK, board
<1>6. BehindIsGuarded'
  <2>1. CASE route.reload = "done"
    BY <2>1, GapNamed DEF RegisterRoute
  <2>2. CASE route.reload # "done"
    BY <2>2 DEF RegisterRoute, MarkStale, BehindIsGuarded, Guarded
  <2> QED BY <2>1, <2>2
<1>7. StateOK'
  BY <1>4, <1>5, <1>6 DEF StateOK
<1> QED BY <1>1, <1>2, <1>7, RouteEnds, RoutingFacts

\* By the lemmas above, one for each step of route_board.
LEMMA RouteStepKeeps ==
  ASSUME RouteInv, RouteStep
  PROVE  RouteInv'
BY OpenStep, ImplicitSaveStep, CountStep, AutorouteStep, ReplaceStep, ReloadStep, ReopenStep,
   ReloadAgainStep, FillStep, RoutePersistStep, StitchStep, RegisterRouteStep DEF RouteStep

\* A route_board takes three steps of the other tools, and the world goes on.
LEMMA RoutingNext ==
  ASSUME RouteInv, Routing, Next
  PROVE  Work \/ Refill \/ Enforce \/ WorldStep
<1>1. Running /\ Head(call.todo) \in RouteOnly \cup {"backup", "build", "refill", "enforce"}
  BY RoutingFacts, PlacesDiffer
<1>2. ~Begin
  BY <1>1 DEF Begin
<1>3. /\ ~Guard /\ ~CheckBase /\ ~Delta /\ ~Mismatch /\ ~Resolve /\ ~Read /\ ~Zones
      /\ ~Confirm /\ ~WriteSch
  BY <1>1 DEF Guard, CheckBase, Delta, Mismatch, Resolve, Read, Zones, Confirm, WriteSch, Doing, RouteOnly
<1>4. ~Mutate /\ ~Save /\ ~PersistFill /\ ~Revert
  BY <1>1 DEF Mutate, Save, PersistFill, Revert, BoardRequest, Doing, RouteOnly
<1>5. ~RegisterMutation /\ ~RegisterBoard /\ ~RegisterFill /\ ~RegisterSch /\ ~RegisterReload
  BY <1>1
     DEF RegisterMutation, RegisterBoard, RegisterFill, RegisterSaved, RegisterSch, RegisterReload,
         RegisterStep, Doing, RouteOnly
<1> QED BY <1>2, <1>3, <1>4, <1>5 DEF Next, ToolStep

\* The steps that route_board shares with other tools, its refills aside.
LEMMA RoutingWork ==
  ASSUME RouteInv, Routing, Work, KeepLocals
  PROVE  RouteInv'
<1>1. /\ Doing("backup") \/ Doing("build")
      /\ UNCHANGED <<storeVars, board, editor, gaps>> /\ StateOK'
      /\ Continue \/ Return("FAILED")
  BY StateStill, RoutingFacts DEF Work
<1>2. call.todo \in {RouteSteps, Building, Checking, Measuring}
  BY <1>1, RoutingFacts, PlacesDiffer DEF Doing
<1>3. CASE Return("FAILED")
  BY <1>1, <1>3, RouteEnds, RoutingFacts, FailedIsReply
<1>4. CASE Continue /\ call.todo \in {RouteSteps, Building}
  <2>1. /\ Tail(call.todo) \in BeforeReload /\ Tail(call.todo) \in RoutePlaces
        /\ call.todo \in BeforeReload
    BY <1>4, PlacesFollow, PlacesClasses
  <2>2. /\ call' \in Calls /\ call'.todo = Tail(call.todo) /\ call'.mark = call.mark
    BY <1>4, <2>1, ContinuePlace, RoutingFacts
  <2>3. route' = route
    BY <2>1, <2>2, KeptLocals
  <2> QED BY <1>1, <2>1, <2>2, <2>3, RouteBefore, RoutingFacts
<1>5. CASE Continue /\ call.todo \in {Checking, Measuring}
  <2>1. /\ Tail(call.todo) \in AfterFill /\ Tail(call.todo) \in RoutePlaces
        /\ call.todo \in AfterFill
    BY <1>5, PlacesFollow, PlacesClasses
  <2>2. /\ call' \in Calls /\ call'.todo = Tail(call.todo) /\ call'.mark = call.mark
        /\ call'.board = call.board /\ call'.alone = call.alone
    BY <1>5, <2>1, ContinuePlace, RoutingFacts
  <2>3. route' = route
    BY <2>1, <2>2, KeptLocals
  <2>4. UNCHANGED <<disk, live, editor, nextEdit>>
    BY <1>1 DEF board
  <2>5. Tail(call.todo) \notin BeforeReload \cup SavingFill /\ call.todo \notin SavingFill
    BY <2>1, RoutingFacts, PlacesDiffer
  <2> QED BY <1>1, <2>1, <2>2, <2>3, <2>4, <2>5, RouteLooks
<1> QED BY <1>1, <1>2, <1>3, <1>4, <1>5

\* A refill or its clearance, of the board that was reloaded.
LEMMA RoutingRefill ==
  ASSUME RouteInv, Routing, Refill \/ Enforce, KeepLocals
  PROVE  RouteInv'
<1>1. /\ Doing("refill") \/ Doing("enforce")
      /\ Doing("refill") => Refill
      /\ Doing("enforce") => Enforce
      /\ Return("FAILED") \/ Continue
  BY DEF Refill, Enforce, BoardRequest, Request, Doing
<1>2. BoardEffect /\ UNCHANGED <<memory, editor>> /\ GapsAfter({})
  BY RequestEffect
<1>3. StateOK'
  BY <1>2, StateMoves, RoutingFacts
<1>4. call.todo \in {Refilling, StitchRefilling, Enforcing, StitchEnforcing}
  BY <1>1, RoutingFacts, PlacesDiffer DEF Doing
<1>5. /\ Tail(call.todo) \in {Enforcing, StitchEnforcing, Persisting, StitchPersisting}
      /\ Tail(call.todo) \in SavingFill /\ call.todo \in SavingFill
      /\ Tail(call.todo) \in RoutePlaces
      /\ Head(Tail(call.todo)) = "routePersist" => Head(call.todo) = "enforce"
  <2>1. /\ Tail(call.todo) \in {Enforcing, StitchEnforcing, Persisting, StitchPersisting}
        /\ Tail(call.todo) \in {Enforcing, StitchEnforcing} \/ call.todo \in {Enforcing, StitchEnforcing}
    BY <1>4, PlacesFollow
  <2>2. /\ Tail(call.todo) \in SavingFill /\ call.todo \in SavingFill
        /\ Tail(call.todo) \in RoutePlaces
    BY <1>4, <2>1, PlacesClasses
  <2>3. /\ Tail(call.todo) \in {Enforcing, StitchEnforcing} => Head(Tail(call.todo)) # "routePersist"
        /\ call.todo \in {Enforcing, StitchEnforcing} => Head(call.todo) = "enforce"
    BY PlaceHeads
  <2> QED BY <2>1, <2>2, <2>3
<1>6. CASE Return("FAILED")
  BY <1>3, <1>6, RouteEnds, RoutingFacts, FailedIsReply
<1>7. CASE Continue
  <2>1. /\ call' \in Calls /\ call'.todo = Tail(call.todo) /\ call'.mark = call.mark
        /\ call'.board = call.board /\ call'.alone = call.alone
    BY <1>5, <1>7, ContinuePlace, RoutingFacts
  <2>2. route' = route
    BY <1>5, <2>1, KeptLocals
  <2>3. route.reload = "done" /\ call.board = "target"
    BY <1>5, RoutingFacts DEF RoutePlace
  <2>4. call'.todo \notin AfterFill
    BY <1>5, <2>1, PlacesDiffer
  <2>5. Head(call.todo) = "enforce" => live'.fill # "stale"
    <3>1. ASSUME Head(call.todo) = "enforce" PROVE live'.fill # "stale"
      <4>1. Enforce /\ call'.todo # <<>>
        BY <1>1, <1>5, <2>1, <3>1, PlaceRoutes, RoutingFacts DEF Doing
      <4>2. SetFill("safe")
        BY <2>3, <4>1, RequestGoesOn DEF Enforce
      <4> QED BY <4>2, RoutingFacts DEF SetFill, BoardOK, Contents
    <3> QED BY <3>1
  <2> QED BY <1>2, <1>3, <1>5, <2>1, <2>2, <2>3, <2>4, <2>5, SavingStep
<1> QED BY <1>1, <1>6, <1>7

\* The world may move the copies, which ends what is claimed of an undisturbed
\* call; it cannot undo the mark.
LEMMA RoutingWorld ==
  ASSUME RouteInv, Routing, WorldStep, KeepLocals
  PROVE  RouteInv'
<1>1. [Next]_vars
  BY DEF Next
<1>2. SyncInv'
  BY <1>1, SyncStep, RoutingFacts
<1>3. StateOK'
  BY <1>2 DEF SyncInv, StateOK
<1>4. CASE ServerRestart
  <2>1. call'.todo = <<>>
    BY <1>4 DEF ServerRestart, Idle
  <2>2. route' = NoRoute /\ ~Routing'
    BY <2>1 DEF KeepLocals, Routing, Running
  <2>3. NoRoute \in Locals
    BY DEF NoRoute, Locals, NoBoard, Contents, Fills, Reloads
  <2>4. RouteOK'
    BY <2>1, <2>2, <2>3 DEF RouteOK
  <2> QED BY <1>2, <2>4 DEF RouteInv
<1>5. CASE /\ Disturb
           /\ ExternalWrite \/ ExternalSchWrite \/ GuiEdit \/ GuiSave \/ GuiRevert \/ ChangeEditor
  <2>1. /\ call' \in Calls /\ call'.todo = call.todo /\ call'.mark = call.mark
        /\ call'.board = call.board /\ ~call'.alone
    BY <1>5, RoutingFacts DEF Disturb, Calls
  <2>2. route' = route
    BY <2>1, KeptLocals, RoutingFacts
  <2>3. call'.mark <= nextEdit'
    BY <1>2, <2>1 DEF SyncInv, MarkOK
  <2>4. RoutePlace' /\ RouteUndisturbed'
    BY <2>1, <2>2, RoutingFacts DEF RoutePlace, RouteUndisturbed
  <2>5. RouteMark'
    <3>1. CASE GuiEdit \/ GuiSave \/ GuiRevert
      <4>1. BoardEffect /\ UNCHANGED editor
        BY <3>1, MovingEffect DEF Moving
      <4> QED BY <2>1, <4>1, MarkMoved
    <3>2. CASE ExternalSchWrite
      BY <2>1, <3>2, RoutingFacts DEF ExternalSchWrite, board, RouteMark
    <3>3. CASE ExternalWrite
      <4>1. disk'.edits = disk.edits \cup {nextEdit} /\ UNCHANGED <<live, editor>>
        BY <3>3, RoutingFacts DEF ExternalWrite, BoardOK, Contents
      <4>2. nextEdit >= call.mark
        BY RoutingFacts DEF SyncInv, MarkOK, BoardOK, Calls
      <4> QED BY <2>1, <4>1, <4>2, RoutingFacts DEF RouteMark
    <3>4. CASE ChangeEditor
      BY <3>4 DEF ChangeEditor, RouteMark
    <3> QED BY <1>5, <3>1, <3>2, <3>3, <3>4
  <2> QED BY <1>3, <2>1, <2>2, <2>3, <2>4, <2>5, RouteGoesOn, RoutingFacts
<1> QED BY <1>4, <1>5
        DEF WorldStep, ExternalWrite, ExternalSchWrite, GuiEdit, GuiSave, GuiRevert, ChangeEditor

\* The other tools never come to a step of route_board.
Foreign(todo) == \A i \in 1..Len(todo) : todo[i] \notin RouteOnly

\* The programs of the other tools have none of the steps of route_board.
LEMMA ForeignPrograms ==
  ASSUME NEW tool \in Tools
  PROVE  Foreign(Program[tool])
<1> USE DEF Foreign, RouteOnly
<1>1. Foreign(IpcEdit)
  BY DEF IpcEdit
<1>2. Foreign(MoveFootprint)
  BY DEF MoveFootprint
<1>3. Foreign(AddZone)
  BY DEF AddZone
<1>4. Foreign(DeleteTracksBulk)
  BY DEF DeleteTracksBulk
<1>5. Foreign(FillZones)
  BY DEF FillZones
<1>6. Foreign(SaveBoard)
  BY DEF SaveBoard
<1>7. Foreign(ReloadBoard)
  BY DEF ReloadBoard
<1>8. Foreign(LiveContext)
  BY DEF LiveContext
<1>9. Foreign(SchContext)
  BY DEF SchContext
<1>10. Foreign(ContextDelta)
  BY DEF ContextDelta
<1>11. Foreign(SchEdit)
  BY DEF SchEdit
<1>12. Foreign(ConfirmReloaded)
  BY DEF ConfirmReloaded
<1> HIDE DEF Foreign
<1>13. /\ Foreign(AddTrack) /\ Foreign(AddVia) /\ Foreign(DeleteCopper) /\ Foreign(SetFootprintRef)
       /\ Foreign(DrawBoardOutline) /\ Foreign(AddKeepoutZone) /\ Foreign(DeleteZone)
       /\ Foreign(AddSymbol) /\ Foreign(SetProperty) /\ Foreign(ConnectPins)
  BY <1>1, <1>11 DEF AddTrack, AddVia, DeleteCopper, SetFootprintRef, DrawBoardOutline,
                     AddKeepoutZone, DeleteZone, AddSymbol, SetProperty, ConnectPins
<1>14. tool \in AllTools
  BY ToolsAssumption
<1> QED BY <1>2, <1>3, <1>4, <1>5, <1>6, <1>7, <1>8, <1>9, <1>10, <1>12, <1>13, <1>14
        DEF AllTools, Program

\* Nor have the steps that are put in their place.
LEMMA ForeignRest ==
  /\ Foreign(Persist) /\ Foreign(<<>>)
  /\ \A entry : entry.kind \in Kinds => Foreign(DeltaSteps(entry))
<1>1. Foreign(Persist) /\ Foreign(<<>>)
  BY DEF Foreign, Persist, RouteOnly
<1>2. ASSUME NEW entry, entry.kind \in Kinds
      PROVE  Foreign(DeltaSteps(entry))
  <2>1. CASE entry.mtimes = {}
    BY <2>1 DEF DeltaSteps, Foreign, RouteOnly
  <2>2. CASE entry.mtimes # {} /\ entry.kind = "sch"
    BY <2>2 DEF DeltaSteps, Foreign, RouteOnly
  <2>3. CASE entry.mtimes # {} /\ entry.kind = "pcb"
    <3>1. DeltaSteps(entry) = <<"build", "registerSch", "mismatch">>
      BY <2>3 DEF DeltaSteps
    <3> QED BY <3>1 DEF Foreign, RouteOnly
  <2> QED BY <1>2, <2>1, <2>2, <2>3 DEF Kinds
<1> QED BY <1>1, <1>2

\* Nor has what is left of them.
LEMMA ForeignTail ==
  ASSUME NEW todo \in Seq(Steps), todo # <<>>, Foreign(todo)
  PROVE  Foreign(Tail(todo))
<1> DEFINE rest == Tail(todo)
<1>1. /\ Len(todo) \in Nat /\ Len(rest) = Len(todo) - 1
      /\ \A i \in 1..Len(rest) : rest[i] = todo[i + 1]
  BY HeadTailProperties, LenProperties
<1> HIDE DEF rest
<1>2. ASSUME NEW i \in 1..Len(rest) PROVE rest[i] \notin RouteOnly
  <2>1. i + 1 \in 1..Len(todo)
    BY <1>1
  <2> QED BY <1>1, <2>1 DEF Foreign
<1> QED BY <1>2 DEF Foreign, rest

\* What a step of a call of another tool leaves of its steps.
LEMMA TodoMoves ==
  ASSUME StoreTypeOK, CallOK, [Next]_vars
  PROVE  \/ call'.todo = call.todo \/ call'.todo = <<>> \/ call'.todo = Persist
         \/ Running /\ call'.todo = Tail(call.todo)
         \/ \E tool \in Tools : call'.todo = Program[tool]
         \/ \E entry : entry.kind \in Kinds /\ call'.todo = DeltaSteps(entry)
<1>1. ASSUME NEW reply, Return(reply) PROVE call'.todo = <<>>
  BY <1>1, ReturnEnds
<1>2. ASSUME Running, Continue PROVE call'.todo = <<>> \/ call'.todo = Tail(call.todo)
  BY <1>2, ContinueIs
<1>3. CASE Begin
  BY <1>3 DEF Begin
<1>4. CASE Guard \/ Resolve
  BY <1>1, <1>4 DEF Guard, Resolve, Doing, CallOK, Calls
<1>5. CASE Delta
  <2>1. CASE \E base : ValidBase(base) /\ call' = [call EXCEPT !.todo = DeltaSteps(entries[base])]
    <3>1. PICK base \in DOMAIN entries : call' = [call EXCEPT !.todo = DeltaSteps(entries[base])]
      BY <2>1 DEF ValidBase
    <3>2. entries[base].kind \in Kinds /\ call'.todo = DeltaSteps(entries[base])
      BY <3>1 DEF StoreTypeOK, CallOK, Calls
    <3> QED BY <3>2
  <2> QED BY <1>1, <1>5, <2>1 DEF Delta
<1>6. CASE Zones
  BY <1>1, <1>2, <1>6 DEF Zones, Doing, CallOK, Calls
<1>7. CASE Read \/ Work \/ CheckBase \/ Mismatch \/ Confirm \/ WriteSch
  BY <1>1, <1>2, <1>7 DEF Read, Work, CheckBase, Mismatch, Confirm, WriteSch, Doing
<1>8. CASE Mutate \/ Refill \/ Enforce \/ Save \/ PersistFill \/ Revert
  <2>1. ASSUME NEW step, NEW effect, NEW failure, BoardRequest(step, effect, failure)
        PROVE  Running /\ (call'.todo = <<>> \/ call'.todo = Tail(call.todo))
    BY <1>2, <2>1, RequestGoesOn
  <2> QED BY <1>8, <2>1 DEF Mutate, Refill, Enforce, Save, PersistFill, Revert
<1>9. CASE RegisterMutation \/ RegisterBoard \/ RegisterFill \/ RegisterSch \/ RegisterReload
  BY <1>2, <1>9
     DEF RegisterMutation, RegisterBoard, RegisterFill, RegisterSaved, RegisterSch,
         RegisterReload, RegisterStep, Doing
<1>10. CASE WorldStep
  <2>1. CASE ServerRestart
    BY <2>1 DEF ServerRestart, Idle
  <2>2. CASE Disturb
    BY <2>2 DEF Disturb, CallOK, Calls
  <2> QED BY <1>10, <2>1, <2>2
          DEF WorldStep, ExternalWrite, ExternalSchWrite, GuiEdit, GuiSave, GuiRevert, ChangeEditor
<1>11. CASE UNCHANGED vars
  BY <1>11 DEF vars
<1> QED BY <1>3, <1>4, <1>5, <1>6, <1>7, <1>8, <1>9, <1>10, <1>11 DEF Next, ToolStep

\* The calls of other tools stay calls of other tools.
LEMMA ForeignStep ==
  ASSUME RouteInv, ~Routing, Next, KeepLocals
  PROVE  RouteInv'
<1>1. [Next]_vars /\ SyncInv'
  BY SyncStep, RoutingFacts
<1>2. Foreign(call.todo)
  BY DEF RouteInv, RouteOK, Foreign
<1>3. Foreign(call'.todo)
  <2>1. StoreTypeOK /\ CallOK
    BY RoutingFacts DEF SyncInv, StoreInv
  <2>2. Running => Foreign(Tail(call.todo))
    BY <1>2, <2>1, ForeignTail DEF Running, CallOK, Calls
  <2> QED BY <1>1, <1>2, <2>1, <2>2, TodoMoves, ForeignPrograms, ForeignRest
<1>4. ~Routing'
  <2>1. ASSUME call'.todo # <<>> PROVE call'.todo[Len(call'.todo)] \notin RouteOnly
    <3>1. call'.todo \in Seq(Steps)
      BY <1>1 DEF SyncInv, CallOK, Calls
    <3>2. Len(call'.todo) \in 1..Len(call'.todo)
      BY <2>1, <3>1, LenProperties
    <3> QED BY <1>3, <3>2 DEF Foreign
  <2>2. "registerRoute" \in RouteOnly
    BY DEF RouteOnly
  <2> QED BY <2>1, <2>2 DEF Routing, Running
<1>5. route' = NoRoute
  BY <1>4 DEF KeepLocals
<1>6. NoRoute \in Locals
  BY DEF NoRoute, Locals, NoBoard, Contents, Fills, Reloads
<1>7. RouteOK'
  BY <1>3, <1>4, <1>5, <1>6 DEF RouteOK, Foreign
<1> QED BY <1>1, <1>7 DEF RouteInv

\* Nothing has changed.
LEMMA RouteStutter ==
  ASSUME RouteInv, UNCHANGED routeVars
  PROVE  RouteInv'
<1>1. UNCHANGED vars /\ route' = route
  BY DEF routeVars
<1>2. SyncInv'
  BY <1>1, SyncStep, RoutingFacts
<1>3. UNCHANGED <<disk, live, editor, call>>
  BY <1>1 DEF vars
<1>4. RouteOK'
  BY <1>1, <1>3, RoutingFacts
     DEF RouteOK, Routing, Running, RoutePlace, RouteMark, RouteUndisturbed
<1> QED BY <1>2, <1>4 DEF RouteInv

\* RouteInv is kept by every step of the composition.
LEMMA RouteInvStep == RouteInv /\ [RouteNext]_routeVars => RouteInv'
<1>1. RouteInv /\ Next /\ KeepLocals => RouteInv'
  BY RoutingNext, RoutingWork, RoutingRefill, RoutingWorld, ForeignStep
<1>2. RouteInv /\ BeginRoute => RouteInv'
  BY BeginRouteStep
<1>3. RouteInv /\ RouteStep => RouteInv'
  BY RouteStepKeeps
<1>4. RouteInv /\ UNCHANGED routeVars => RouteInv'
  BY RouteStutter
<1> QED BY <1>1, <1>2, <1>3, <1>4 DEF RouteNext

\* No call is running.
LEMMA RouteInvInit == RouteInit => RouteInv
<1> SUFFICES ASSUME RouteInit PROVE RouteInv
  OBVIOUS
<1>1. SyncInv
  BY SyncInit DEF RouteInit
<1>2. NoRoute \in Locals
  BY DEF NoRoute, Locals, NoBoard, Contents, Fills, Reloads
<1>3. call.todo = <<>> /\ ~Routing
  BY DEF RouteInit, Init, Routing, Running
<1>4. RouteOK
  BY <1>2, <1>3 DEF RouteInit, RouteOK
<1> QED BY <1>1, <1>4 DEF RouteInv

\* With route_board among the tools: the invariant of the other tools, and where
\* a route_board stands.
THEOREM RouteInvariant == RouteSpec => []RouteInv
BY RouteInvInit, RouteInvStep, PTL DEF RouteSpec

\* An editor behind the disk is guarded, also where route_board has replaced the
\* file behind its back: it leaves the flag, the anchor or a named gap.
THEOREM RouteBehindCorrect == RouteSpec => []BehindIsGuarded
<1>1. RouteInv => BehindIsGuarded
  BY DEF RouteInv, SyncInv
<1> QED BY <1>1, RouteInvariant, PTL

\* With route_board among the tools the other tools still save nothing without a
\* guard, nor over what their guard could have seen.
THEOREM RouteSaveCorrect == RouteSpec => SaveKeepsDisk
<1>1. ASSUME RouteInv
      PROVE  Save \/ PersistFill =>
               /\ call.mark # 0
               /\ gaps # {} \/ \A e \in disk.edits \ disk'.edits : e >= call.mark
  <2> SUFFICES ASSUME Save \/ PersistFill
               PROVE  /\ call.mark # 0
                      /\ gaps # {} \/ \A e \in disk.edits \ disk'.edits : e >= call.mark
    OBVIOUS
  <2>1. call.mark # 0 /\ MarkOK
    BY <1>1, SavesAreMarked DEF RouteInv, SyncInv
  <2>2. ASSUME gaps = {}, NEW e \in disk.edits \ disk'.edits
        PROVE  e >= call.mark
    <3>1. editor = "target" /\ disk' = live
      BY <2>2, SaveWrites
    <3>2. Behind /\ e \in disk.edits \ live.edits
      BY <2>2, <3>1 DEF Behind
    <3> QED BY <2>1, <2>2, <3>2 DEF MarkOK
  <2> QED BY <2>1, <2>2
<1> QED BY <1>1, RouteInvariant, PTL DEF SaveKeepsDisk

\* The save after the refill: a route_board that saves has reloaded, and the disk
\* changes to what the editor holds or not at all.
LEMMA RoutePersistSaves ==
  ASSUME RouteInv, RoutePersist
  PROVE  /\ Routing /\ call.mark # 0
         /\ disk' = disk \/ (editor = "target" /\ disk' = live)
<1>1. Doing("routePersist")
  BY DEF RoutePersist, BoardRequest
<1>2. Routing /\ call.todo \in {Persisting, StitchPersisting}
  BY <1>1, IsRouting, RoutingFacts, PlacesDiffer DEF RouteOnly, Doing
<1>3. call.mark # 0
  BY <1>2, RoutingFacts, PlacesClasses DEF RoutePlace
<1>4. disk' = disk \/ (editor = "target" /\ disk' = live)
  BY DEF RoutePersist, BoardRequest, Request, OnTarget, Reachable, SaveLive, board
<1> QED BY <1>2, <1>3, <1>4

\* The saves of route_board overwrite nothing that was on disk when the editor
\* reloaded: never the routing, and never without a reload.
THEOREM RouteSavesCorrect == RouteSpec => RouteSavesKeepDisk
<1>1. ASSUME RouteInv
      PROVE  RoutePersist =>
               /\ call.mark # 0
               /\ \A e \in disk.edits \ disk'.edits : e >= call.mark
  <2> SUFFICES ASSUME RoutePersist
               PROVE  /\ call.mark # 0
                      /\ \A e \in disk.edits \ disk'.edits : e >= call.mark
    OBVIOUS
  <2>1. Routing /\ call.mark # 0 /\ RouteMark
    BY <1>1, RoutePersistSaves, RoutingFacts
  <2>2. ASSUME NEW e \in disk.edits \ disk'.edits
        PROVE  e >= call.mark
    <3>1. editor = "target" /\ disk' = live
      BY <1>1, <2>2, RoutePersistSaves
    <3> QED BY <2>1, <2>2, <3>1 DEF RouteMark
  <2> QED BY <2>1, <2>2
<1> QED BY <1>1, RouteInvariant, PTL DEF RouteSavesKeepDisk

\* ADR-0012: an undisturbed route_board that reloaded the editor ends with the
\* board of the editor on disk, the fills it was asked for clear of holes, and a
\* guard that is open.
THEOREM RoutePersistedCorrect == RouteSpec => RouteIsPersisted
<1>1. ASSUME RouteInv
      PROVE  RegisterRoute /\ call.alone /\ route.reload = "done" =>
               /\ disk = live
               /\ route.refill /\ route.zones => disk.fill # "stale"
               /\ NoExternalEdit' /\ ~liveStale'
  <2> SUFFICES ASSUME RegisterRoute, call.alone, route.reload = "done"
               PROVE  /\ disk = live
                      /\ route.refill /\ route.zones => disk.fill # "stale"
                      /\ NoExternalEdit' /\ ~liveStale'
    OBVIOUS
  <2>1. Routing /\ call.todo = Last
    BY <1>1, IsRouting, RoutingFacts, PlacesDiffer DEF RegisterRoute, RouteOnly, Doing
  <2>2. Last \in AfterFill /\ Last \notin SavingFill
    BY <2>1, RoutingFacts, PlacesClasses, PlacesDiffer
  <2>3. /\ disk = live
        /\ route.refill /\ route.zones => disk.fill # "stale"
    BY <1>1, <2>1, <2>2, RoutingFacts DEF RouteUndisturbed
  <2>4. NoExternalEdit'
    BY JustRecorded DEF RegisterRoute
  <2>5. ~liveStale'
    BY DEF RegisterRoute, ClearStale
  <2> QED BY <2>3, <2>4, <2>5
<1> QED BY <1>1, RouteInvariant, PTL DEF RouteIsPersisted

(***************************************************************************)
(* What the other theorems say, with route_board among the tools.          *)
(***************************************************************************)

\* route_board too uses the store through its operations.
LEMMA RouteUsesStore == [RouteNext]_routeVars => StoreUse
<1> SUFFICES ASSUME [RouteNext]_routeVars PROVE StoreUse
  OBVIOUS
<1>0. ASSUME UNCHANGED memory, Write(Pcb) \/ UNCHANGED files
      PROVE  StoreUse
  BY <1>0, FilesFacts DEF StoreUse, WriteFile, memory, files, storeVars
<1>1. CASE Next \/ UNCHANGED routeVars
  BY <1>1, StepUsesStore DEF routeVars
<1>2. CASE BeginRoute \/ Open \/ Count \/ Autoroute \/ Fill
  BY <1>2 DEF BeginRoute, Open, Count, Autoroute, Fill, StoreUse
<1>3. CASE ImplicitSave
  <2>1. UNCHANGED memory /\ (SaveLive \/ UNCHANGED files)
    BY <1>3 DEF ImplicitSave, Request
  <2> QED BY <1>0, <2>1 DEF SaveLive
<1>4. CASE Replace
  BY <1>0, <1>4 DEF Replace
<1>5. ASSUME NEW step, NEW how, TryReload(step, how)
      PROVE  StoreUse
  BY <1>0, <1>5 DEF TryReload, RevertLive
<1>6. ASSUME NEW step, Skip(step)
      PROVE  StoreUse
  BY <1>6 DEF Skip, StoreUse
<1>7. CASE Reload
  BY <1>5, <1>6, <1>7 DEF Reload
<1>8. CASE Reopen
  BY <1>6, <1>8 DEF Reopen, StoreUse
<1>9. CASE ReloadAgain
  BY <1>5, <1>6, <1>9 DEF ReloadAgain
<1>10. CASE RoutePersist
  <2>1. UNCHANGED memory /\ (SaveLive \/ UNCHANGED files)
    BY <1>10 DEF RoutePersist, BoardRequest, Request, OnTarget
  <2> QED BY <1>0, <2>1 DEF SaveLive
<1>11. CASE Stitch
  <2>1. UNCHANGED memory /\ (PlaceVia \/ UNCHANGED files)
    BY <1>11 DEF Stitch, OnTarget
  <2> QED BY <1>0, <2>1 DEF PlaceVia
<1>12. CASE RegisterRoute
  <2>1. "pcb" \in Kinds
    BY DEF Kinds
  <2> QED BY <1>12, <2>1 DEF RegisterRoute, StoreUse, RegisterDisk
<1> QED BY <1>1, <1>2, <1>3, <1>4, <1>7, <1>8, <1>9, <1>10, <1>11, <1>12
        DEF RouteNext, RouteStep

\* route_board too changes the store only through its operations, and the files
\* only as writes the store can see.
THEOREM RouteImplementsStore == RouteSpec => StoreRefined
<1>1. RouteInit => StoreInit
  BY DEF RouteInit, Init
<1>2. [RouteNext]_routeVars => [StoreNext]_storeVars
  BY RouteUsesStore DEF StoreUse, StoreNext
<1> QED BY <1>1, <1>2, PTL DEF RouteSpec, StoreSpec, StoreRefined

\* What the store promises on its own it therefore keeps in the whole system: the
\* retention, the anchor, the flag, refusals for ever, and exact edit detection.
THEOREM StorePromisesKept ==
  RouteSpec => /\ [](RetentionWindow /\ AnchorIsNewestDisk /\ FlagNamesSnapshot)
               /\ StaleNeverRevives /\ DetectsEdits
BY RouteImplementsStore, RetentionCorrect, AnchorCorrect, FlagCorrect, StaleForEver,
   ImplementsDetector, PTL DEF StoreRefined

\* The types of the composed system.
THEOREM RouteTypeCorrect == RouteSpec => []TypeOK
<1>1. RouteInv => TypeOK
  BY DEF RouteInv, SyncInv, StoreInv, CallOK, BoardOK, Contents, TypeOK
<1> QED BY <1>1, RouteInvariant, PTL

\* What is left of a route_board is a route_board, until nothing is left.
LEMMA RouteRests ==
  ASSUME RouteInv, Routing, call'.todo \in {call.todo, Tail(call.todo)}
  PROVE  call'.todo = <<>> \/ Routing'
<1>1. call.todo \in Seq(Steps) /\ call.todo # <<>> /\ call.todo[Len(call.todo)] = "registerRoute"
  BY RoutingFacts DEF Calls, Routing, Running
<1>2. CASE call'.todo = call.todo
  BY <1>1, <1>2 DEF Routing, Running
<1>3. CASE call'.todo = Tail(call.todo) /\ call'.todo # <<>>
  <2>1. /\ Tail(call.todo) \in Seq(Steps) /\ Len(Tail(call.todo)) = Len(call.todo) - 1
        /\ \A i \in 1..Len(Tail(call.todo)) : Tail(call.todo)[i] = call.todo[i + 1]
    BY <1>1, HeadTailProperties
  <2>2. Len(call'.todo) \in 1..Len(call'.todo)
    BY <1>3, <2>1, LenProperties
  <2>3. call'.todo[Len(call'.todo)] = "registerRoute"
    BY <1>1, <1>3, <2>1, <2>2, LenProperties
  <2> QED BY <1>3, <2>3 DEF Routing, Running
<1> QED BY <1>2, <1>3

\* A route_board goes on until its call ends.
LEMMA RouteIsRoute ==
  ASSUME RouteInv, Routing, RouteNext
  PROVE  call'.todo = <<>> \/ Routing'
<1>0. /\ CallOK /\ Running
      /\ \A b : (call' = [call EXCEPT !.todo = Tail(@), !.board = b]) => call'.todo = Tail(call.todo)
      /\ \A m : (call' = [call EXCEPT !.todo = Tail(@), !.mark = m]) => call'.todo = Tail(call.todo)
      /\ call' = [call EXCEPT !.todo = Tail(@)] => call'.todo = Tail(call.todo)
  BY RoutingFacts DEF CallOK, Calls
<1>1. ASSUME Continue \/ \E reply : Return(reply)
      PROVE  call'.todo = <<>> \/ call'.todo = Tail(call.todo)
  BY <1>0, <1>1, ContinueIs, ReturnEnds
<1>2. CASE Next
  <2>1. CASE Work \/ Refill \/ Enforce
    BY <1>1, <2>1, RouteRests DEF Work, Refill, Enforce, BoardRequest, Request
  <2>2. CASE ServerRestart
    BY <2>2 DEF ServerRestart, Idle
  <2>3. CASE Disturb
    <3>1. call'.todo = call.todo
      BY <2>3, RoutingFacts DEF Disturb, Calls
    <3> QED BY <3>1, RouteRests
  <2> QED BY <1>2, <2>1, <2>2, <2>3, RoutingNext
          DEF WorldStep, ExternalWrite, ExternalSchWrite, GuiEdit, GuiSave, GuiRevert, ChangeEditor
<1>3. CASE BeginRoute
  BY <1>0, <1>3 DEF BeginRoute
<1>4. CASE Open \/ ImplicitSave \/ Count \/ Autoroute \/ Replace \/ RoutePersist \/ RegisterRoute
  <2>1. call'.todo = <<>> \/ call'.todo = Tail(call.todo)
    BY <1>0, <1>1, <1>4
       DEF Open, OpenHandle, ImplicitSave, Request, Count, Autoroute, Replace, RoutePersist,
           BoardRequest, RegisterRoute
  <2> QED BY <2>1, RouteRests
<1>5. CASE Reload \/ Reopen \/ ReloadAgain
  <2>1. call'.todo = <<>> \/ call'.todo = Tail(call.todo)
    BY <1>0, <1>1, <1>5 DEF Reload, Reopen, OpenHandle, ReloadAgain, TryReload, Skip
  <2> QED BY <2>1, RouteRests
<1>6. CASE Fill \/ Stitch
  <2>1. CASE Continue \/ \E reply : Return(reply)
    BY <1>1, <2>1, RouteRests
  <2>2. CASE /\ Doing("fill")
             /\ Before(<<"refill", "enforce", "routePersist">>)
    <3>1. call.todo = Filling
      BY <2>2, RoutingFacts, PlacesDiffer DEF Doing
    <3>2. call'.todo = Refilling
      BY <2>2, <3>1, PlacesFollow, RoutingFacts DEF Before, Calls
    <3> QED BY <3>2, PlacesClasses, PlaceRoutes DEF Routing, Running
  <2>3. CASE /\ Doing("stitch")
             /\ Before(<<"refill", "enforce", "routePersist", "build">>)
    <3>1. call.todo = Stitching
      BY <2>3, RoutingFacts, PlacesDiffer DEF Doing
    <3>2. call'.todo = StitchRefilling
      BY <2>3, <3>1, PlacesFollow, RoutingFacts DEF Before, Calls
    <3> QED BY <3>2, PlacesClasses, PlaceRoutes DEF Routing, Running
  <2> QED BY <1>6, <2>1, <2>2, <2>3 DEF Fill, Stitch
<1> QED BY <1>2, <1>3, <1>4, <1>5, <1>6 DEF RouteNext, RouteStep

\* A step of route_board is a step of a route_board.
LEMMA RouteStepRoutes ==
  ASSUME RouteInv, RouteStep
  PROVE  Routing
<1>1. \E step \in RouteOnly : Doing(step)
  BY DEF RouteOnly, RouteStep, Open, OpenHandle, ImplicitSave, Count, Autoroute, Replace,
         Reload, Reopen, ReloadAgain, TryReload, Skip, Fill, RoutePersist, BoardRequest,
         Stitch, RegisterRoute
<1> QED BY <1>1, IsRouting, RoutingFacts

\* The calls of the other tools find what they stand on, as without route_board.
OthersUndisturbed == ~Routing => UndisturbedOK

\* A call that is no route_board began as one, and is undisturbed as it was in
\* BoardSync.
LEMMA OthersStep == RouteInv /\ OthersUndisturbed /\ [RouteNext]_routeVars => OthersUndisturbed'
<1> SUFFICES ASSUME RouteInv, OthersUndisturbed, [RouteNext]_routeVars, ~Routing'
             PROVE  UndisturbedOK'
  BY DEF OthersUndisturbed
<1>1. StoreTypeOK /\ CallOK /\ BoardOK
  BY RoutingFacts DEF SyncInv, StoreInv
<1>2. CASE Routing /\ RouteNext
  BY <1>2, RouteIsRoute, EndedCall
<1>3. CASE ~Routing /\ (Next \/ UNCHANGED vars)
  BY <1>1, <1>3, UndisturbedStep DEF OthersUndisturbed
<1>4. CASE BeginRoute
  <2>1. call'.todo = RouteSteps
    BY <1>4 DEF BeginRoute
  <2> QED BY <2>1, PlacesClasses, PlaceRoutes DEF Routing, Running
<1>5. CASE UNCHANGED routeVars /\ Routing
  BY <1>5 DEF routeVars, vars, Routing, Running
<1> QED BY <1>2, <1>3, <1>4, <1>5, RouteStepRoutes DEF RouteNext, routeVars

\* A call of another tool that nobody disturbs is not disturbed by the calls of
\* route_board before it.
THEOREM OthersInvariant == RouteSpec => []OthersUndisturbed
<1>1. RouteInit => OthersUndisturbed
  BY UndisturbedInit DEF RouteInit, OthersUndisturbed
<1> QED BY <1>1, OthersStep, RouteInvariant, PTL DEF RouteSpec

\* A route_board that ends well has just registered the disk.
LEMMA RouteEndsKnown ==
  ASSUME RouteInv, Routing, RouteNext, call'.todo = <<>>, call'.reply = "OK"
  PROVE  RegisterRoute
<1>1. call.todo \in RoutePlaces /\ CallOK /\ Running
  BY RoutingFacts
<1>2. ~\E reply : reply # "OK" /\ Return(reply)
  BY DEF Return, Idle
<1>3. Head(call.todo) # "registerRoute" => Tail(call.todo) # <<>>
  <2>1. call.todo = Last => Head(call.todo) = "registerRoute"
    BY PlaceHeads
  <2>2. CASE call.todo \in BeforeReload
    <3>1. Tail(call.todo) \in {Opening, Saving, Counting, Building, Autorouting, Replacing,
                              Reloading, Reopening}
      BY <2>2, PlacesFollow DEF BeforeReload
    <3> QED BY <3>1, PlacesClasses, PlaceRoutes
  <2>3. CASE call.todo \in Retrying
    <3>1. Tail(call.todo) \in {ReloadingAgain, Filling, Checking}
      BY <2>3, PlacesFollow DEF Retrying
    <3> QED BY <3>1, PlacesClasses, PlaceRoutes
  <2>4. CASE call.todo \in SavingFill
    <3>1. Tail(call.todo) \in {Enforcing, Persisting, Checking, StitchEnforcing,
                              StitchPersisting, Measuring}
      BY <2>4, PlacesFollow DEF SavingFill
    <3> QED BY <3>1, PlacesClasses, PlaceRoutes
  <2>5. CASE call.todo \in AfterFill \ {Last}
    <3>1. Tail(call.todo) \in {Stitching, Last}
      BY <2>5, PlacesFollow DEF AfterFill
    <3> QED BY <3>1, PlacesClasses, PlaceRoutes
  <2> QED BY <1>1, <2>1, <2>2, <2>3, <2>4, <2>5, PlacesClasses
<1>4. ASSUME Continue \/ call'.todo = Tail(call.todo)
      PROVE  Head(call.todo) = "registerRoute"
  BY <1>1, <1>3, <1>4, EndOfContinue
<1>5. CASE Next
  <2>1. CASE Work \/ Refill \/ Enforce
    <3>1. Continue /\ Head(call.todo) # "registerRoute"
      BY <1>2, <2>1 DEF Work, Refill, Enforce, BoardRequest, Request, Doing
    <3> QED BY <1>4, <3>1
  <2>2. CASE ServerRestart
    BY <2>2 DEF ServerRestart, Idle
  <2>3. CASE Disturb
    BY <1>1, <2>3 DEF Disturb, CallOK, Calls, Running
  <2> QED BY <1>5, <2>1, <2>2, <2>3, RoutingNext
          DEF WorldStep, ExternalWrite, ExternalSchWrite, GuiEdit, GuiSave, GuiRevert, ChangeEditor
<1>6. CASE BeginRoute
  BY <1>1, <1>6 DEF BeginRoute
<1>7. CASE RouteStep /\ ~RegisterRoute
  <2>1. Head(call.todo) \in RouteOnly \ {"registerRoute"}
    BY <1>7
       DEF RouteOnly, RouteStep, Open, OpenHandle, ImplicitSave, Count, Autoroute, Replace,
           Reload, Reopen, ReloadAgain, TryReload, Skip, Fill, RoutePersist, BoardRequest,
           Stitch, Doing
  <2>2. ~Continue /\ call'.todo # Tail(call.todo)
    BY <1>4, <2>1
  <2>3. ASSUME NEW steps, steps \in Seq(Steps), steps # <<>>, Before(steps)
        PROVE  FALSE
    <3>1. call'.todo = steps \o Tail(call.todo) /\ Tail(call.todo) \in Seq(Steps)
      BY <1>1, <2>3, HeadTailProperties DEF Before, CallOK, Calls, Running
    <3> QED BY <2>3, <3>1, Joins, LenProperties, EmptySeq
  <2>4. /\ <<"refill", "enforce", "routePersist">> \in Seq(Steps)
        /\ <<"refill", "enforce", "routePersist", "build">> \in Seq(Steps)
    BY DEF Steps
  <2>5. CASE Open \/ Reload \/ Reopen \/ ReloadAgain
    <3>1. \/ \E b : call' = [call EXCEPT !.todo = Tail(@), !.board = b]
          \/ \E m : call' = [call EXCEPT !.todo = Tail(@), !.mark = m]
          \/ call' = [call EXCEPT !.todo = Tail(@)]
      BY <1>2, <2>2, <2>5 DEF Open, OpenHandle, Reload, Reopen, ReloadAgain, TryReload, Skip
    <3> QED BY <1>1, <2>2, <3>1 DEF CallOK, Calls
  <2>6. CASE ImplicitSave \/ Count \/ Autoroute \/ Replace \/ RoutePersist
    BY <1>2, <2>2, <2>6
       DEF ImplicitSave, Request, Count, Autoroute, Replace, RoutePersist, BoardRequest
  <2>7. CASE Fill \/ Stitch
    BY <1>2, <2>2, <2>3, <2>4, <2>7 DEF Fill, Stitch
  <2> QED BY <1>7, <2>5, <2>6, <2>7 DEF RouteStep
<1> QED BY <1>5, <1>6, <1>7 DEF RouteNext

\* With route_board among the tools the server's own writes, its own included,
\* still never make the guard refuse.
THEOREM RouteOwnWritesCorrect == RouteSpec => OwnWritesAreKnown
<1>1. ASSUME RouteInv, OthersUndisturbed, [RouteNext]_routeVars
      PROVE  [Running /\ ~Running' /\ call.alone /\ call.mark # 0 /\ call'.reply = "OK" =>
                NoExternalEdit']_vars
  <2> SUFFICES ASSUME Running, call'.todo = <<>>, call.alone, call.mark # 0, call'.reply = "OK"
               PROVE  NoExternalEdit'
    BY DEF Running
  <2>1. RouteNext
    BY <1>1 DEF routeVars, vars, Running
  <2>2. CASE Routing
    <3>1. RegisterRoute
      BY <1>1, <2>1, <2>2, RouteEndsKnown
    <3> QED BY <3>1, JustRecorded DEF RegisterRoute
  <2>3. CASE ~Routing
    <3>1. Next
      BY <1>1, <2>1, <2>3, RouteStepRoutes DEF RouteNext, BeginRoute
    <3>2. UndisturbedOK /\ StoreTypeOK /\ CallOK /\ BoardOK
      BY <1>1, <2>3, RoutingFacts DEF OthersUndisturbed, SyncInv, StoreInv
    <3> QED BY <3>1, <3>2, EndsKnown
  <2> QED BY <2>2, <2>3
<1> QED BY <1>1, RouteInvariant, OthersInvariant, PTL DEF RouteSpec, OwnWritesAreKnown

\* A tool that registers a fill or a reload is no route_board.
LEMMA OthersRegister ==
  ASSUME RouteInv, OthersUndisturbed, NEW step \in {"registerFill", "registerReload"}, Doing(step)
  PROVE  UndisturbedOK
<1>1. ~Routing
  BY RoutingFacts, PlacesDiffer DEF Doing, RouteOnly
<1> QED BY <1>1 DEF OthersUndisturbed

\* D-23.2 with route_board among the tools: what a filling tool registers is on disk
\* with safe fills, whatever a route_board has left before it.
THEOREM RouteFillCorrect == RouteSpec => FillIsPersisted
<1>1. RouteInv /\ OthersUndisturbed /\ RegisterFill => SyncInv /\ UndisturbedOK
  BY OthersRegister, RoutingFacts DEF RegisterFill, RegisterSaved, RegisterStep
<1> QED BY <1>1, FillStands, RouteInvariant, OthersInvariant, PTL DEF FillIsPersisted

\* A reload unblocks the mutating tools also after a route_board that could not
\* reload, whose flag it clears.
THEOREM RouteReloadCorrect == RouteSpec => ReloadUnblocks
<1>1. RouteInv /\ OthersUndisturbed /\ RegisterReload => SyncInv /\ UndisturbedOK
  BY OthersRegister, RoutingFacts DEF RegisterReload, RegisterStep
<1> QED BY <1>1, ReloadStands, RouteInvariant, OthersInvariant, PTL DEF ReloadUnblocks

=============================================================================
