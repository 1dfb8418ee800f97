------------------------ MODULE HoleClearanceProofs ------------------------
(***************************************************************************)
(* Proofs about HoleClearance, for any zones, holes, nets, layers and size *)
(* of a batch: a pass that succeeds leaves exactly the keepouts that are   *)
(* needed, and fills that keep away from every foreign hole.               *)
(***************************************************************************)
EXTENDS HoleClearance, TLAPS

Pairs == Zones \X Holes

ClearanceTypeOK ==
  /\ zones \subseteq Zones /\ holes \subseteq Holes
  /\ keepouts \in [Pairs -> Nat]
  /\ cut \in [Zones -> SUBSET Holes]
  /\ step \in {"idle", "fill", "remove", "listZones", "listHoles", "create", "refill", "done"}
  /\ listed \subseteq Zones
  /\ plan \subseteq Pairs
  /\ created \in BOOLEAN

\* The keepouts that the board needs as it is.
Needed == {pair \in zones \X holes : Foreign(pair[1], pair[2])}

\* There is one keepout for each pair of a set, and no other.
OneFor(S) == keepouts = [pair \in Pairs |-> IF pair \in S THEN 1 ELSE 0]

\* What a pass has achieved when it is about to take a step.  Once somebody
\* else has touched the board it is only sure to have removed every keepout.
Progress ==
  /\ step \in {"listZones", "listHoles"} => OneFor({})
  /\ alone =>
       /\ step = "listHoles" => listed = zones
       /\ step = "create" => /\ plan \subseteq Needed /\ OneFor(Needed \ plan)
                             /\ created = (Needed # {})
       /\ step \in {"refill", "done"} => OneFor(Needed)
       /\ step = "done" => \A pair \in Needed : pair[2] \in cut[pair[1]]

ClearanceInv == ClearanceTypeOK /\ Progress
----------------------------------------------------------------------------
(* Requests                                                                *)

\* A needed keepout is of a zone and a hole of the board.
LEMMA NeededPairs == zones \subseteq Zones /\ holes \subseteq Holes => Needed \subseteq Pairs
BY DEF Needed, Pairs

\* A fill keeps away from every hole that has a keepout for its zone.
LEMMA FilledIsClear ==
  ASSUME ClearanceTypeOK, FillAll, OneFor(Needed)
  PROVE  \A pair \in Needed : pair[2] \in cut'[pair[1]]
<1> SUFFICES ASSUME NEW pair \in Needed PROVE pair[2] \in cut'[pair[1]]
  OBVIOUS
<1>1. /\ pair \in Pairs /\ pair = <<pair[1], pair[2]>>
      /\ pair[1] \in zones /\ pair[1] \in Zones /\ pair[2] \in Holes
  BY DEF Needed, Pairs, ClearanceTypeOK
<1>2. keepouts[pair] > 0
  BY <1>1 DEF OneFor
<1>3. pair[1] \in Layermates(pair[1])
  BY <1>1 DEF Layermates
<1>4. pair[2] \in KeptOut(pair[1])
  BY <1>1, <1>2, <1>3 DEF KeptOut
<1> QED BY <1>1, <1>4 DEF FillAll

\* A fill cuts every zone at some of the holes.
LEMMA FillKeepsTypes == ClearanceTypeOK /\ FillAll => cut' \in [Zones -> SUBSET Holes]
<1>1. \A zone \in Zones : KeptOut(zone) \subseteq Holes
  BY DEF KeptOut
<1> QED BY <1>1 DEF FillAll

\* The removal leaves no keepout of any earlier pass.
LEMMA RemoveRemoves ==
  ASSUME RemoveAll
  PROVE  keepouts' \in [Pairs -> Nat] /\ OneFor({})'
BY DEF RemoveAll, OneFor, Pairs

\* A batch takes its pairs from the plan to the board.
LEMMA PutAdds ==
  ASSUME ClearanceTypeOK, NEW batch \in Batches, Put(batch)
  PROVE  /\ keepouts' \in [Pairs -> Nat]
         /\ plan \subseteq Needed /\ OneFor(Needed \ plan)
              => keepouts' = [pair \in Pairs |-> IF pair \in Needed \ (plan \ batch) THEN 1 ELSE 0]
<1>1. batch \subseteq plan
  BY DEF Batches
<1>2. keepouts' = [pair \in Pairs |-> IF pair \in batch THEN keepouts[pair] + 1
                                                    ELSE keepouts[pair]]
  BY DEF Put, Pairs
<1>3. keepouts' \in [Pairs -> Nat]
  BY <1>2 DEF ClearanceTypeOK
<1>4. ASSUME plan \subseteq Needed, OneFor(Needed \ plan)
      PROVE  keepouts' = [pair \in Pairs |-> IF pair \in Needed \ (plan \ batch) THEN 1 ELSE 0]
  BY <1>1, <1>2, <1>4 DEF OneFor
<1> QED BY <1>3, <1>4

----------------------------------------------------------------------------
(* The inductive invariant                                                 *)

\* There is no pass yet.
LEMMA InitClearance == Init => ClearanceInv
<1> SUFFICES ASSUME Init PROVE ClearanceInv
  OBVIOUS
<1>1. ClearanceTypeOK
  BY DEF Init, ClearanceTypeOK, Pairs
<1>2. Progress
  BY DEF Init, Progress
<1> QED BY <1>1, <1>2 DEF ClearanceInv

\* The types are kept by every step.
LEMMA StepTypes == ClearanceTypeOK /\ [Next]_vars => ClearanceTypeOK'
<1> SUFFICES ASSUME ClearanceTypeOK, [Next]_vars PROVE ClearanceTypeOK'
  OBVIOUS
<1> USE DEF ClearanceTypeOK
<1>1. CASE Begin
  BY <1>1 DEF Begin, board, pass
<1>2. CASE Fill \/ Refill
  BY <1>2, FillKeepsTypes DEF Fill, Refill, Request, FillAll, board, pass
<1>3. CASE RemoveStale
  BY <1>3, RemoveRemoves DEF RemoveStale, Request, RemoveAll, board, pass
<1>4. CASE ListZones
  BY <1>4 DEF ListZones, board
<1>5. CASE ListHoles
  <2>1. plan' \subseteq Pairs /\ created' \in BOOLEAN
    BY <1>5 DEF ListHoles, Pairs
  <2> QED BY <1>5, <2>1 DEF ListHoles, board
<1>6. CASE CreateBatch
  <2>1. PICK batch \in Batches : Request(Put(batch), "create") /\ plan' = plan \ batch
    BY <1>6 DEF CreateBatch
  <2>2. keepouts' \in [Pairs -> Nat]
    BY <2>1, PutAdds DEF Request, board
  <2>3. UNCHANGED <<zones, holes, cut>> /\ step' \in {"create", "idle"}
    BY <2>1 DEF Request, Put, board
  <2> QED BY <1>6, <2>1, <2>2, <2>3 DEF CreateBatch
<1>7. CASE Created
  BY <1>7 DEF Created, board, pass
<1>8. CASE EditHoles \/ EditZones
  BY <1>8 DEF EditHoles, EditZones, Edited, At, pass
<1>9. CASE UNCHANGED vars
  BY <1>9 DEF vars, board, pass
<1> QED BY <1>1, <1>2, <1>3, <1>4, <1>5, <1>6, <1>7, <1>8, <1>9 DEF Next, PassStep

\* Each request takes the pass to its next stage; a disturbed pass promises
\* less.
LEMMA StepProgress == ClearanceInv /\ [Next]_vars => Progress'
<1> SUFFICES ASSUME ClearanceTypeOK, Progress, [Next]_vars PROVE Progress'
  BY DEF ClearanceInv
<1> USE DEF At
<1>0. ASSUME step' \in {"idle", "fill", "remove"} PROVE Progress'
  BY <1>0 DEF Progress
<1>1. CASE Begin \/ Fill
  BY <1>0, <1>1 DEF Begin, Fill, Request
<1>2. CASE RemoveStale
  <2>1. CASE step' = "idle"
    BY <1>0, <2>1
  <2>2. CASE RemoveAll /\ step' = "listZones"
    BY <2>2, RemoveRemoves DEF Progress
  <2> QED BY <1>2, <2>1, <2>2 DEF RemoveStale, Request
<1>3. CASE ListZones
  <2>1. OneFor({})' /\ UNCHANGED <<zones, holes, alone>> /\ listed' = zones
    BY <1>3 DEF ListZones, Progress, OneFor, board, Rest
  <2>2. CASE step' = "idle"
    BY <1>0, <2>2
  <2>3. CASE step' = "listHoles"
    BY <2>1, <2>3 DEF Progress
  <2>4. CASE step' = "done" /\ zones = {}
    <3>1. Needed' = {}
      BY <2>1, <2>4 DEF Needed
    <3> QED BY <2>1, <2>4, <3>1 DEF Progress
  <2> QED BY <1>3, <2>2, <2>3, <2>4 DEF ListZones
<1>4. CASE ListHoles
  <2>1. CASE step' = "idle"
    BY <1>0, <2>1
  <2>2. CASE step' = "create"
    <3>1. OneFor({}) /\ UNCHANGED <<zones, holes, keepouts, alone>>
      BY <1>4 DEF ListHoles, Progress, board, Rest
    <3>2. ASSUME alone PROVE plan' = Needed' /\ created' = (Needed' # {})
      <4>1. listed = zones
        BY <1>4, <3>2 DEF ListHoles, Progress
      <4>2. plan' = {pair \in zones \X holes : Foreign(pair[1], pair[2])}
        BY <1>4, <4>1 DEF ListHoles
      <4>3. created' = (plan' # {})
        BY <1>4 DEF ListHoles
      <4> QED BY <3>1, <4>2, <4>3 DEF Needed
    <3>3. alone => OneFor(Needed \ plan)'
      BY <3>1, <3>2 DEF OneFor
    <3> QED BY <2>2, <3>1, <3>2, <3>3 DEF Progress
  <2> QED BY <1>4, <2>1, <2>2 DEF ListHoles
<1>5. CASE CreateBatch
  <2>1. CASE step' = "idle"
    BY <1>0, <2>1
  <2>2. CASE step' = "create"
    <3>1. PICK batch \in Batches : Put(batch) /\ plan' = plan \ batch
      BY <1>5, <2>2 DEF CreateBatch, Request
    <3>2. UNCHANGED <<zones, holes, alone, created>> /\ Needed' = Needed
      BY <1>5, <3>1 DEF CreateBatch, Put, Rest, Needed, Foreign
    <3>3. plan \subseteq Needed /\ OneFor(Needed \ plan) => OneFor(Needed \ plan)'
      BY <3>1, <3>2, PutAdds DEF OneFor
    <3> QED BY <1>5, <2>2, <3>1, <3>2, <3>3 DEF CreateBatch, Progress
  <2> QED BY <1>5, <2>1, <2>2 DEF CreateBatch, Request
<1>6. CASE Created
  <2>1. UNCHANGED <<zones, holes, keepouts, cut, alone>> /\ Needed' = Needed
    BY <1>6 DEF Created, board, Rest, Needed, Foreign
  <2>2. step' = (IF created THEN "refill" ELSE "done")
    BY <1>6 DEF Created
  <2>3. ASSUME alone PROVE OneFor(Needed)' /\ created = (Needed # {})
    BY <1>6, <2>1, <2>3 DEF Created, Progress, OneFor
  <2> QED BY <2>1, <2>2, <2>3 DEF Progress
<1>7. CASE Refill
  <2>1. CASE step' = "idle"
    BY <1>0, <2>1
  <2>2. CASE FillAll /\ step' = "done"
    <3>1. UNCHANGED <<zones, holes, keepouts, alone>> /\ Needed' = Needed
      BY <1>7, <2>2 DEF Refill, FillAll, Rest, Needed, Foreign
    <3>2. alone => OneFor(Needed)
      BY <1>7 DEF Refill, Progress
    <3>3. alone => \A pair \in Needed : pair[2] \in cut'[pair[1]]
      BY <2>2, <3>2, FilledIsClear
    <3> QED BY <2>2, <3>1, <3>2, <3>3 DEF Progress, OneFor
  <2> QED BY <1>7, <2>1, <2>2 DEF Refill, Request
<1>8. CASE EditHoles \/ EditZones
  <2>1. alone' = FALSE /\ UNCHANGED keepouts /\ step' \in {step, "idle"}
    BY <1>8 DEF EditHoles, EditZones, Edited
  <2> QED BY <2>1 DEF Progress, OneFor
<1>9. CASE UNCHANGED vars
  BY <1>9 DEF vars, board, pass, Progress, OneFor, Needed, Foreign
<1> QED BY <1>1, <1>2, <1>3, <1>4, <1>5, <1>6, <1>7, <1>8, <1>9 DEF Next, PassStep

\* Between the steps of a pass too, enforce_hole_clearance knows which keepouts
\* it owns, which it has still to delete and which it has still to create.
THEOREM ClearanceInvariant == Spec => []ClearanceInv
<1>1. ClearanceInv /\ [Next]_vars => ClearanceInv'
  BY StepTypes, StepProgress DEF ClearanceInv
<1> QED BY InitClearance, <1>1, PTL DEF Spec

\* enforce_hole_clearance is idempotent: after a pass that succeeds there is
\* one keepout for each zone and each foreign hole and no other, whatever zones
\* and holes the board has and wherever earlier passes have failed.
THEOREM KeepoutsCorrect == Spec => []KeepoutsExact
<1>1. ClearanceInv => KeepoutsExact
  <2> SUFFICES ASSUME ClearanceInv, Succeeded, NEW zone \in Zones, NEW hole \in Holes
               PROVE  keepouts[zone, hole] =
                        IF zone \in zones /\ hole \in holes /\ Foreign(zone, hole)
                          THEN 1 ELSE 0
    BY DEF KeepoutsExact
  <2>1. OneFor(Needed)
    BY DEF ClearanceInv, Progress, Succeeded, At
  <2>2. <<zone, hole>> \in Pairs
    BY DEF Pairs
  <2>3. <<zone, hole>> \in Needed <=> zone \in zones /\ hole \in holes /\ Foreign(zone, hole)
    BY DEF Needed
  <2> QED BY <2>1, <2>2, <2>3 DEF OneFor
<1> QED BY <1>1, ClearanceInvariant, PTL

\* F-D3-01: after such a pass every fill keeps away from every foreign hole.
THEOREM HolesCorrect == Spec => []ForeignHolesClear
<1>1. ClearanceInv => ForeignHolesClear
  <2> SUFFICES ASSUME ClearanceInv, Succeeded, NEW zone \in zones, NEW hole \in holes,
                      Foreign(zone, hole)
               PROVE  hole \in cut[zone]
    BY DEF ForeignHolesClear
  <2>1. <<zone, hole>> \in Needed
    BY DEF Needed
  <2>2. \A pair \in Needed : pair[2] \in cut[pair[1]]
    BY DEF ClearanceInv, Progress, Succeeded, At
  <2> QED BY <2>1, <2>2
<1> QED BY <1>1, ClearanceInvariant, PTL
=============================================================================
