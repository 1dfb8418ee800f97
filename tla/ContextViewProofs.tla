------------------------- MODULE ContextViewProofs -------------------------
(***************************************************************************)
(* Proofs about ContextView, for every set of components, places and nets, *)
(* every threshold, retention and bound: what the agent puts together from *)
(* a chain of degraded documents is true of the snapshots they are of, and *)
(* what it lacks was declared.                                             *)
(***************************************************************************)
EXTENDS ContextView, SnapshotStoreProofs, SequenceTheorems

(***************************************************************************)
(* The cascades.                                                           *)
(***************************************************************************)

\* A level declares each thing it gives up.
Declares(level) ==
  /\ level.collapse => "poder_colapsado" \in level.labels
  /\ level.far => "fuera_de_area" \in level.labels
  /\ level.omit => "posiciones_omitidas" \in level.labels

\* The levels of encode, with and without a focus.
CascadeLevels ==
  {Level(FALSE, FALSE, FALSE, {}),
   Level(TRUE, FALSE, FALSE, {"poder_colapsado"}),
   Level(TRUE, TRUE, FALSE, {"poder_colapsado", "fuera_de_area"}),
   Level(TRUE, TRUE, TRUE, {"poder_colapsado", "posiciones_omitidas", "fuera_de_area"}),
   Level(TRUE, FALSE, TRUE, {"poder_colapsado", "posiciones_omitidas"})}

\* Every level of the cascade declares what it gives up.
LEMMA CascadeLevelsDeclare == \A level \in CascadeLevels : Declares(level)
BY DEF CascadeLevels, Level, Declares

\* Every level of encode's cascade declares what it gives up.
LEMMA FullCascadeDeclares ==
  ASSUME NEW canFocus \in BOOLEAN, NEW i \in DOMAIN FullCascade(canFocus)
  PROVE  Declares(FullCascade(canFocus)[i])
<1> DEFINE labels == {"poder_colapsado", "fuera_de_area"}
           first == <<Level(FALSE, FALSE, FALSE, {}),
                      Level(TRUE, FALSE, FALSE, {"poder_colapsado"})>>
           far == <<Level(TRUE, TRUE, FALSE, labels)>>
           last == <<Level(TRUE, TRUE, TRUE,
                           {"poder_colapsado", "posiciones_omitidas", "fuera_de_area"})>>
           unfocused == <<Level(TRUE, FALSE, TRUE, {"poder_colapsado", "posiciones_omitidas"})>>
<1>1. /\ first \in Seq(CascadeLevels) /\ far \in Seq(CascadeLevels)
      /\ last \in Seq(CascadeLevels) /\ unfocused \in Seq(CascadeLevels)
      /\ << >> \in Seq(CascadeLevels)
  BY DEF CascadeLevels
<1>2. ASSUME NEW s \in Seq(CascadeLevels), NEW t \in Seq(CascadeLevels),
             NEW u \in Seq(CascadeLevels)
      PROVE  (s \o t) \o u \in Seq(CascadeLevels)
  <2>1. s \o t \in Seq(CascadeLevels)
    BY ConcatProperties
  <2> QED BY <2>1, ConcatProperties
<1>3. FullCascade(canFocus) \in Seq(CascadeLevels)
  <2>1. CASE canFocus = TRUE
    <3>1. FullCascade(canFocus) = (first \o far) \o last
      <4>1. {"poder_colapsado"} \cup {"fuera_de_area"} = labels
        OBVIOUS
      <4>2. {"poder_colapsado", "posiciones_omitidas"} \cup {"fuera_de_area"}
              = {"poder_colapsado", "posiciones_omitidas", "fuera_de_area"}
        OBVIOUS
      <4> QED BY <2>1, <4>1, <4>2 DEF FullCascade
    <3> HIDE DEF first, far, last, unfocused
    <3> QED BY <1>1, <1>2, <3>1
  <2>2. CASE canFocus = FALSE
    <3>1. FullCascade(canFocus) = (first \o << >>) \o unfocused
      <4>1. {"poder_colapsado", "posiciones_omitidas"} \cup {}
              = {"poder_colapsado", "posiciones_omitidas"}
        OBVIOUS
      <4> QED BY <2>2, <4>1 DEF FullCascade
    <3> HIDE DEF first, far, last, unfocused
    <3> QED BY <1>1, <1>2, <3>1
  <2> QED BY <2>1, <2>2
<1>4. FullCascade(canFocus)[i] \in CascadeLevels
  BY <1>3
<1> QED BY <1>4, CascadeLevelsDeclare

\* Every level of the cascade of a delta declares what it gives up.
LEMMA DeltaCascadeDeclares ==
  ASSUME NEW i \in DOMAIN DeltaCascade
  PROVE  Declares(DeltaCascade[i])
BY DEF DeltaCascade, Level, Declares

(***************************************************************************)
(* The two documents.                                                      *)
(***************************************************************************)

\* A line tells the component it is of, and gives up its position only at a
\* level that omits positions.
LEMMA LineTells ==
  ASSUME NEW part, NEW level
  PROVE  /\ LineIsTrue(Line(part, level), part)
         /\ Line(part, level).net = NameOf(part.net)
         /\ Line(part, level).at # {} \/ level.omit
BY DEF LineIsTrue, Line

\* The line of a net tells its members, or gives them up at a level that
\* collapses power nets.
LEMMA NetLineTells ==
  ASSUME NEW b, NEW n, NEW level
  PROVE  /\ NetIsTrue(NetLine(b, n, level), Members(b, n))
         /\ NetIsPartOf(NetLine(b, n, level), Members(b, n))
         /\ NetLine(b, n, level).members # {} \/ level.collapse
BY DEF NetIsTrue, NetIsPartOf, NetLine

\* A name that no net of the board is given has no members.
LEMMA NoMembers ==
  ASSUME NEW b, NEW n \in Nets, n \notin NetsOf(b)
  PROVE  Members(b, n) = {}
BY NoNetAssumption DEF NetsOf, Members

\* The members of a name that only the net of that name is given are those of
\* the net, which has none if documents give it another name.
LEMMA OwnName ==
  ASSUME NEW b, \A r \in DOMAIN b : b[r].net \in Nets \cup {NoNet},
         NEW n \in Nets, IsOnlyOwn(n)
  PROVE  Members(b, n) = IF Sanitized[n] = n THEN OnNet(b, n) ELSE {}
BY NoNetAssumption DEF Members, OnNet, NameOf, IsOnlyOwn

\* An agent that reads a full document knows what is true of the board, and
\* was told of what it does not know.
LEMMA FullDocumentTells ==
  ASSUME NEW b, NEW focus, NEW radius, NEW level, Declares(level),
         NEW toon, toon = FullToon(b, focus, radius, level)
  PROVE  /\ TellsState(ViewOf(toon), b)
         /\ DeclaresLoss(ViewOf(toon))
         /\ toon.area = "full" => ViewOf(toon).far = {}
<1> DEFINE near == IF level.far THEN InArea(b, focus, radius) ELSE DOMAIN b
           view == ViewOf(toon)
<1>1. near \subseteq DOMAIN b
  BY DEF InArea
<1>2. /\ view.lines = [r \in near |-> Line(b[r], level)]
      /\ view.far = DOMAIN b \ near
      /\ view.labels = level.labels
      /\ toon.area = IF DOMAIN b = near THEN "full" ELSE "local"
      /\ view.nets = [n \in Nets |-> IF n \in NetsOf(b) THEN NetLine(b, n, level)
                                                         ELSE NoNetLine]
  BY DEF FullToon, ViewOf
<1>3. /\ DOMAIN view.lines = near
      /\ \A r \in near : view.lines[r] = Line(b[r], level)
  BY <1>2
<1>4. DOMAIN view.lines \cup view.far = DOMAIN b
  BY <1>1, <1>2, <1>3
<1>5. \A r \in DOMAIN view.lines : LineIsTrue(view.lines[r], b[r])
  BY <1>3, LineTells
<1>6. ASSUME NEW n \in Nets
      PROVE  /\ NetIsTrue(view.nets[n], Members(b, n))
             /\ NetIsPartOf(view.nets[n], Members(b, n))
             /\ view.nets[n].members # {} \/ level.collapse
  <2>1. CASE n \in NetsOf(b)
    <3>1. view.nets[n] = NetLine(b, n, level)
      BY <1>2, <2>1
    <3> QED BY <3>1, NetLineTells
  <2>2. CASE n \notin NetsOf(b)
    <3>1. view.nets[n] = NoNetLine
      BY <1>2, <2>2
    <3>2. Members(b, n) = {}
      BY <2>2, NoMembers
    <3>3. NoNetLine.members = {{}} /\ NoNetLine.count = 0
      BY DEF NoNetLine
    <3> QED BY <3>1, <3>2, <3>3 DEF NetIsTrue, NetIsPartOf
  <2> QED BY <2>1, <2>2
<1>7. TellsState(view, b)
  BY <1>4, <1>5, <1>6 DEF TellsState
<1>8. DeclaresLoss(view)
  <2>1. "fuera_de_area" \in view.labels \/ view.far = {}
    BY <1>2 DEF Declares
  <2>2. "posiciones_omitidas" \in view.labels
          \/ \A r \in DOMAIN view.lines : view.lines[r].at # {}
    BY <1>2, <1>3, LineTells DEF Declares
  <2>3. "poder_colapsado" \in view.labels \/ \A n \in Nets : view.nets[n].members # {}
    BY <1>2, <1>6 DEF Declares
  <2> QED BY <2>1, <2>2, <2>3 DEF DeclaresLoss
<1>9. toon.area = "full" => view.far = {}
  BY <1>2
<1> QED BY <1>7, <1>8, <1>9

\* What a component that is in both states and not in the delta is: unchanged.
LEMMA NotUpdated ==
  ASSUME NEW base, NEW curr,
         NEW r \in DOMAIN curr, r \notin Added(base, curr), r \notin Updated(base, curr)
  PROVE  r \in DOMAIN base /\ base[r] = curr[r]
BY DEF Added, Updated, Signature

\* The nets of a board's components are nets.
NetsAreNets(b) == \A r \in DOMAIN b : b[r].net \in Nets \cup {NoNet}

\* What a delta tells an agent to take away from the members of a name.
LEMMA LeftTells ==
  ASSUME NEW base, NEW curr, NEW level, NEW n \in Nets, NEW r,
         NEW delta, delta = DeltaToon(base, curr, level)
  PROVE  r \in delta.removed \cup {q \in DOMAIN delta.lines : delta.lines[q].net # n} <=>
           \/ r \in DOMAIN base \ DOMAIN curr
           \/ r \in Added(base, curr) \cup Updated(base, curr) /\ NameOf(curr[r].net) # n
<1>1. /\ delta.removed = Removed(base, curr)
      /\ delta.lines = [q \in Added(base, curr) \cup Updated(base, curr) |->
                          Line(curr[q], level)]
  BY DEF DeltaToon
<1>2. ASSUME NEW q \in DOMAIN delta.lines PROVE delta.lines[q].net = NameOf(curr[q].net)
  BY <1>1, LineTells
<1> QED BY <1>1, <1>2 DEF Removed

\* A name that a delta says nothing of: by taking away the members that it says
\* are elsewhere, an agent keeps only components that are there now.
LEMMA SilentNetIsPart ==
  ASSUME NEW base, NEW curr, NEW level, NEW n \in Nets,
         NEW line, NetIsPartOf(line, Members(base, n))
  PROVE  /\ NetIsPartOf(NetAfter(line, n, DeltaToon(base, curr, level)), Members(curr, n))
         /\ line.members # {} =>
              NetAfter(line, n, DeltaToon(base, curr, level)).members # {}
<1> DEFINE delta == DeltaToon(base, curr, level)
           left == delta.removed \cup {r \in DOMAIN delta.lines : delta.lines[r].net # n}
           after == NetAfter(line, n, delta)
<1>1. Members(base, n) \ left \subseteq Members(curr, n)
  <2>1. SUFFICES ASSUME NEW r \in Members(base, n), r \notin Members(curr, n) PROVE r \in left
    OBVIOUS
  <2>2. r \in DOMAIN base /\ NameOf(base[r].net) = n
    BY DEF Members
  <2>3. r \in DOMAIN curr => NameOf(curr[r].net) # n
    BY <2>1 DEF Members
  <2>4. r \in DOMAIN curr => r \in Updated(base, curr)
    BY <2>2, <2>3 DEF Updated, Signature
  <2> HIDE DEF delta
  <2>5. delta = DeltaToon(base, curr, level)
    BY DEF delta
  <2> QED BY <2>2, <2>3, <2>4, <2>5, LeftTells
<1>2. after.members = {m \ left : m \in line.members}
  BY DEF NetAfter
<1> HIDE DEF left, after
<1>3. NetIsPartOf(after, Members(curr, n))
  BY <1>1, <1>2 DEF NetIsPartOf
<1>4. line.members # {} => after.members # {}
  BY <1>2
<1> QED BY <1>3, <1>4 DEF after, delta

\* A net that a delta says nothing of, if no other has its name: an agent that
\* knew the members in the base knows them now.
LEMMA SilentNetTells ==
  ASSUME NEW base, NEW curr, NetsAreNets(base), NetsAreNets(curr),
         NEW level, NEW n \in Nets, IsOnlyOwn(n),
         n \notin NetsChanged(base, curr) \cap NetsOf(curr),
         NEW line, NetIsTrue(line, Members(base, n))
  PROVE  NetIsTrue(NetAfter(line, n, DeltaToon(base, curr, level)), Members(curr, n))
<1> DEFINE delta == DeltaToon(base, curr, level)
           left == delta.removed \cup {r \in DOMAIN delta.lines : delta.lines[r].net # n}
           members == {m \ left : m \in line.members}
           after == NetAfter(line, n, delta)
<1>1. Members(base, n) = Members(curr, n) \/ Members(curr, n) = {}
  <2>1. n \notin NetsOf(curr) => Members(curr, n) = {}
    BY NoMembers
  <2>2. n \notin NetsChanged(base, curr) => OnNet(base, n) = OnNet(curr, n)
    BY DEF NetsChanged
  <2>3. /\ Members(base, n) = IF Sanitized[n] = n THEN OnNet(base, n) ELSE {}
        /\ Members(curr, n) = IF Sanitized[n] = n THEN OnNet(curr, n) ELSE {}
    BY OwnName DEF NetsAreNets
  <2> QED BY <2>1, <2>2, <2>3
<1>2. ASSUME NEW r
      PROVE  r \in left <=>
               \/ r \in DOMAIN base \ DOMAIN curr
               \/ r \in Added(base, curr) \cup Updated(base, curr) /\ NameOf(curr[r].net) # n
  BY LeftTells
<1>3. Members(base, n) \ left = Members(curr, n)
  <2>1. CASE Members(base, n) = Members(curr, n)
    <3>1. ASSUME NEW r \in Members(curr, n) PROVE r \notin left
      BY <1>2, <3>1 DEF Members
    <3> HIDE DEF left
    <3> QED BY <2>1, <3>1
  <2>2. CASE Members(curr, n) = {}
    <3>1. ASSUME NEW r \in Members(base, n) PROVE r \in left
      <4>1. r \in DOMAIN base /\ NameOf(base[r].net) = n
        BY <3>1 DEF Members
      <4>2. r \in DOMAIN curr => NameOf(curr[r].net) # n
        BY <2>2 DEF Members
      <4>3. r \in DOMAIN curr => r \in Updated(base, curr)
        BY <4>1, <4>2 DEF Updated, Signature
      <4> QED BY <1>2, <4>1, <4>2, <4>3
    <3> HIDE DEF left
    <3> QED BY <2>2, <3>1
  <2> QED BY <1>1, <2>1, <2>2
<1>4. \A m \in members : m = Members(curr, n)
  <2> HIDE DEF left
  <2> QED BY <1>3 DEF NetIsTrue
<1>5. /\ after.members = members
      /\ after.count = IF members = {} THEN line.count
                                       ELSE Cardinality(CHOOSE m \in members : TRUE)
  BY DEF NetAfter
<1>6. ASSUME Members(curr, n) # {}
      PROVE  after.count = Cardinality(Members(curr, n))
  <2>1. CASE members = {}
    <3>1. Members(base, n) = Members(curr, n)
      BY <1>1, <1>6
    <3> HIDE DEF members, after
    <3> QED BY <1>5, <1>6, <2>1, <3>1 DEF NetIsTrue
  <2>2. CASE members # {}
    <3> HIDE DEF members, after
    <3>1. (CHOOSE m \in members : TRUE) \in members
      BY <2>2
    <3> QED BY <1>4, <1>5, <2>2, <3>1
  <2> QED BY <2>1, <2>2
<1> HIDE DEF members, after
<1>7. NetIsTrue(after, Members(curr, n))
  BY <1>4, <1>5, <1>6 DEF NetIsTrue
<1> QED BY <1>7 DEF after

\* An agent that applies a delta to true knowledge of the base knows what is
\* true of the state the delta leads to; and was told of what it lacks, if it
\* was told of what it lacked of the base.
LEMMA DeltaTells ==
  ASSUME NEW base, NEW curr, NetsAreNets(base), NetsAreNets(curr),
         NEW level, Declares(level), NEW view,
         TellsState(view, base), DeclaresLoss(view)
  PROVE  /\ TellsState(Apply(view, DeltaToon(base, curr, level)), curr)
         /\ DeclaresLoss(Apply(view, DeltaToon(base, curr, level)))
<1> DEFINE delta == DeltaToon(base, curr, level)
           after == Apply(view, delta)
           new == Added(base, curr) \cup Updated(base, curr)
           kept == DOMAIN view.lines \ Removed(base, curr)
<1>1. /\ delta.removed = Removed(base, curr)
      /\ delta.labels = level.labels
      /\ delta.lines = [r \in new |-> Line(curr[r], level)]
      /\ delta.nets = [n \in NetsChanged(base, curr) \cap NetsOf(curr) |->
                         NetLine(curr, n, level)]
  BY DEF DeltaToon
<1>2. /\ DOMAIN delta.lines = new
      /\ \A r \in new : delta.lines[r] = Line(curr[r], level)
      /\ DOMAIN delta.nets = NetsChanged(base, curr) \cap NetsOf(curr)
      /\ \A n \in DOMAIN delta.nets : delta.nets[n] = NetLine(curr, n, level)
  BY <1>1
<1>3. /\ after.lines = Override(Without(view.lines, delta.removed), delta.lines)
      /\ after.far = (view.far \ delta.removed) \ DOMAIN delta.lines
      /\ after.labels = view.labels \cup level.labels
      /\ after.nets = [n \in Nets |-> IF n \in DOMAIN delta.nets THEN delta.nets[n]
                                        ELSE NetAfter(view.nets[n], n, delta)]
  BY <1>1 DEF Apply
<1> HIDE DEF delta, after
<1>4. /\ DOMAIN after.lines = kept \cup new
      /\ \A r \in new : after.lines[r] = Line(curr[r], level)
      /\ \A r \in kept \ new : after.lines[r] = view.lines[r]
  BY <1>1, <1>2, <1>3 DEF Override, Without
<1>5. new \subseteq DOMAIN curr /\ DOMAIN view.lines \cup view.far = DOMAIN base
  BY DEF Added, Updated, TellsState
<1>6. DOMAIN after.lines \cup after.far = DOMAIN curr
  BY <1>1, <1>2, <1>3, <1>4, <1>5 DEF Added, Removed
<1>7. ASSUME NEW r \in DOMAIN after.lines
      PROVE  /\ LineIsTrue(after.lines[r], curr[r])
             /\ \/ after.lines[r].at # {}
                \/ level.omit
                \/ r \in DOMAIN view.lines /\ after.lines[r] = view.lines[r]
  <2>1. CASE r \in new
    BY <1>4, <2>1, LineTells
  <2>2. CASE r \notin new
    <3>1. r \in kept /\ r \in DOMAIN curr
      BY <1>4, <1>5, <1>6, <1>7, <2>2
    <3>2. base[r] = curr[r]
      BY <2>2, <3>1, NotUpdated
    <3>3. LineIsTrue(view.lines[r], base[r])
      BY <3>1 DEF TellsState
    <3> QED BY <1>4, <2>2, <3>1, <3>2, <3>3
  <2> QED BY <2>1, <2>2
<1>8. ASSUME NEW n \in Nets
      PROVE  /\ NetIsPartOf(after.nets[n], Members(curr, n))
             /\ IsOnlyOwn(n) => NetIsTrue(after.nets[n], Members(curr, n))
             /\ after.nets[n].members # {} \/ level.collapse \/ view.nets[n].members = {}
  <2>1. CASE n \in DOMAIN delta.nets
    <3>1. after.nets[n] = NetLine(curr, n, level)
      BY <1>2, <1>3, <2>1
    <3> QED BY <3>1, NetLineTells
  <2>2. CASE n \notin DOMAIN delta.nets
    <3>1. after.nets[n] = NetAfter(view.nets[n], n, delta)
      BY <1>3, <2>2
    <3>2. /\ NetIsPartOf(view.nets[n], Members(base, n))
          /\ IsOnlyOwn(n) => NetIsTrue(view.nets[n], Members(base, n))
      BY DEF TellsState
    <3>3. /\ NetIsPartOf(after.nets[n], Members(curr, n))
          /\ after.nets[n].members # {} \/ view.nets[n].members = {}
      BY <3>1, <3>2, SilentNetIsPart DEF delta
    <3>4. IsOnlyOwn(n) => NetIsTrue(after.nets[n], Members(curr, n))
      BY <1>2, <2>2, <3>1, <3>2, SilentNetTells DEF delta
    <3> QED BY <3>3, <3>4
  <2> QED BY <2>1, <2>2
<1>9. TellsState(after, curr)
  BY <1>6, <1>7, <1>8 DEF TellsState
<1>10. DeclaresLoss(after)
  <2>1. "fuera_de_area" \in after.labels \/ after.far = {}
    BY <1>3 DEF DeclaresLoss
  <2>2. "posiciones_omitidas" \in after.labels
          \/ \A r \in DOMAIN after.lines : after.lines[r].at # {}
    BY <1>3, <1>7 DEF Declares, DeclaresLoss
  <2>3. "poder_colapsado" \in after.labels \/ \A n \in Nets : after.nets[n].members # {}
    BY <1>3, <1>8 DEF Declares, DeclaresLoss
  <2> QED BY <2>1, <2>2, <2>3 DEF DeclaresLoss
<1> QED BY <1>9, <1>10 DEF after, delta

(***************************************************************************)
(* The store, and the types.                                               *)
(***************************************************************************)

\* The two tools use the store only through its operations.
LEMMA StepUsesStore == [Next]_vars => [StoreNext]_storeVars
<1> SUFFICES ASSUME [Next]_vars PROVE [StoreNext]_storeVars
  OBVIOUS
<1>1. CASE WorldContext
  BY <1>1 DEF WorldContext, Refuse, RegisterBoard, StoreNext
<1>2. CASE ContextDelta
  BY <1>2 DEF ContextDelta, RegisterBoard, StoreNext
<1>3. CASE ContextFails
  BY <1>3 DEF ContextFails, Refuse, RegisterBoard, StoreNext
<1>4. CASE BoardChanges
  BY <1>4 DEF BoardChanges
<1>5. CASE UNCHANGED vars
  BY <1>5 DEF vars
<1> QED BY <1>1, <1>2, <1>3, <1>4, <1>5 DEF Next

\* What a registration does to the states, whoever is told of it.
LEMMA RegisterBoardKeeps ==
  ASSUME StoreInv, ViewTypeOK, RegisterBoard
  PROVE  /\ DOMAIN states' = DOMAIN entries'
         /\ DOMAIN entries' \subseteq DOMAIN entries \cup {nextId}
         /\ nextId \in DOMAIN states'
         /\ states'[nextId] = board
         /\ \A i \in DOMAIN states' \ {nextId} : i \in DOMAIN states /\ states'[i] = states[i]
         /\ nextId \in Nat \ {0}
         /\ nextId' # nextId
         /\ UNCHANGED <<board, edits>>
<1>1. Register("pcb", {})
  BY DEF RegisterBoard, RegisterLive
<1>2. /\ DOMAIN entries' \subseteq DOMAIN entries \cup {nextId}
      /\ nextId \in DOMAIN entries'
  BY <1>1, RegisterKeepsWindow DEF StoreInv
<1>3. states' = [i \in DOMAIN entries' |-> IF i = nextId THEN board ELSE states[i]]
  BY DEF RegisterBoard
<1>4. nextId \in Nat \ {0} /\ nextId' = nextId + 1
  BY <1>1 DEF StoreInv, StoreTypeOK, Register
<1>5. DOMAIN states = DOMAIN entries
  BY DEF ViewTypeOK
<1> QED BY <1>2, <1>3, <1>4, <1>5 DEF RegisterBoard

\* What the agent knows after a registration: what it knew of the snapshots
\* that are left, and a view of the new one, or not.
LEMMA TellKeeps ==
  ASSUME NEW view, Tell(view)
  PROVE  /\ DOMAIN views' \subseteq (DOMAIN views \cap DOMAIN entries') \cup {nextId}
         /\ nextId \in DOMAIN views' /\ views'[nextId] = view
         /\ \A i \in DOMAIN views' \ {nextId} : i \in DOMAIN views /\ views'[i] = views[i]
BY DEF Tell

\* Views of evicted snapshots go, the others stay as they are.
LEMMA KeepViewsKeeps ==
  ASSUME KeepViews
  PROVE  /\ DOMAIN views' \subseteq DOMAIN views \cap DOMAIN entries'
         /\ \A i \in DOMAIN views' : i \in DOMAIN views /\ views'[i] = views[i]
BY DEF KeepViews

\* A board on which one component was placed or taken away is a board.
LEMMA ChangedBoard ==
  ASSUME board \in Boards, BoardChanges
  PROVE  board' \in Boards
<1>1. PICK refs \in SUBSET Refs : board \in [refs -> Parts]
  BY DEF Boards
<1>2. ASSUME NEW r \in Refs, NEW p \in Parts, board' = Override(board, [x \in {r} |-> p])
      PROVE  board' \in Boards
  <2>1. board' \in [refs \cup {r} -> Parts]
    BY <1>1, <1>2 DEF Override
  <2>2. refs \cup {r} \in SUBSET Refs
    BY <1>1
  <2> QED BY <2>1, <2>2 DEF Boards
<1>3. ASSUME NEW r \in Refs, board' = Without(board, {r})
      PROVE  board' \in Boards
  <2>1. board' \in [refs \ {r} -> Parts]
    BY <1>1, <1>3 DEF Without
  <2>2. refs \ {r} \in SUBSET Refs
    BY <1>1
  <2> QED BY <2>1, <2>2 DEF Boards
<1> QED BY <1>2, <1>3 DEF BoardChanges

\* The components of a board are on nets.
LEMMA BoardsHaveNets ==
  ASSUME NEW b \in Boards
  PROVE  NetsAreNets(b)
<1>1. PICK refs \in SUBSET Refs : b \in [refs -> Parts]
  BY DEF Boards
<1> QED BY <1>1 DEF NetsAreNets, Parts

StatesHaveNets == \A i \in DOMAIN states : NetsAreNets(states[i])

ViewInv == StoreInv /\ ViewTypeOK /\ StatesHaveNets /\ ViewsTellStates /\ LossIsDeclared

\* The agent has been sent nothing.
LEMMA ViewInvInit == Init => ViewInv
<1> SUFFICES ASSUME Init PROVE ViewInv
  OBVIOUS
<1>1. StoreInv
  BY StoreInvInit DEF Init
<1>2. DOMAIN states = {} /\ DOMAIN views = {} /\ DOMAIN entries = {}
  BY DEF Init, StoreInit
<1>3. ViewTypeOK
  <2>1. board \in Boards
    BY InitialAssumption DEF Init
  <2>2. edits \in 0..MaxEdits
    BY BoundAssumption DEF Init
  <2>3. reply.kind \in Codes
    BY DEF Init, Refusal, Reply, Codes
  <2> QED BY <1>1, <1>2, <2>1, <2>2, <2>3 DEF ViewTypeOK, StoreInv
<1>4. ViewsTellStates /\ LossIsDeclared /\ StatesHaveNets
  BY <1>2 DEF ViewsTellStates, LossIsDeclared, StatesHaveNets
<1> QED BY <1>1, <1>3, <1>4 DEF ViewInv

\* An answer: the snapshot of the board is registered, and the agent is told
\* what is true of it.
LEMMA AnswerKeeps ==
  ASSUME ViewInv, RegisterBoard, NEW view, Tell(view),
         TellsState(view, board), DeclaresLoss(view),
         reply'.kind \in {"full", "delta"}, reply'.id = nextId,
         reply'.area = "full" => view.far = {},
         StoreInv'
  PROVE  ViewInv'
<1> USE DEF ViewInv
<1>1. /\ DOMAIN states' = DOMAIN entries'
      /\ nextId \in DOMAIN states' /\ states'[nextId] = board
      /\ \A i \in DOMAIN states' \ {nextId} : i \in DOMAIN states /\ states'[i] = states[i]
      /\ UNCHANGED <<board, edits>>
  BY RegisterBoardKeeps
<1>2. /\ DOMAIN views' \subseteq (DOMAIN views \cap DOMAIN entries') \cup {nextId}
      /\ views'[nextId] = view
      /\ \A i \in DOMAIN views' \ {nextId} : i \in DOMAIN views /\ views'[i] = views[i]
  BY TellKeeps
<1>3. ViewTypeOK'
  BY <1>1, <1>2 DEF ViewTypeOK, StoreInv
<1>4. ViewsTellStates'
  <2>1. SUFFICES ASSUME NEW i \in DOMAIN views' PROVE TellsState(views'[i], states'[i])
    BY DEF ViewsTellStates, TellsState
  <2>2. CASE i = nextId
    BY <1>1, <1>2, <2>2
  <2>3. CASE i # nextId
    BY <1>1, <1>2, <2>3 DEF ViewsTellStates
  <2> QED BY <2>2, <2>3
<1>5. LossIsDeclared'
  <2>1. SUFFICES ASSUME NEW i \in DOMAIN views'
                 PROVE  /\ DeclaresLoss(views'[i])
                        /\ reply'.id = i /\ reply'.area = "full" => views'[i].far = {}
    BY DEF LossIsDeclared, DeclaresLoss
  <2>2. CASE i = nextId
    BY <1>2, <2>2
  <2>3. CASE i # nextId
    BY <1>2, <2>3 DEF LossIsDeclared
  <2> QED BY <2>2, <2>3
<1>6. StatesHaveNets'
  <2>1. SUFFICES ASSUME NEW i \in DOMAIN states' PROVE NetsAreNets(states'[i])
    BY DEF StatesHaveNets, NetsAreNets
  <2>2. NetsAreNets(board)
    BY BoardsHaveNets DEF ViewTypeOK
  <2> QED BY <1>1, <2>2 DEF StatesHaveNets
<1> QED BY <1>3, <1>4, <1>5, <1>6

\* A refusal: the snapshot of the board is registered, and nobody is told.
LEMMA RefusalKeeps ==
  ASSUME ViewInv, NEW code \in Codes, Refuse(code), StoreInv'
  PROVE  ViewInv'
<1> USE DEF ViewInv
<1>1. /\ DOMAIN states' = DOMAIN entries'
      /\ nextId \in Nat \ {0} /\ states'[nextId] = board
      /\ \A i \in DOMAIN states' \ {nextId} : i \in DOMAIN states /\ states'[i] = states[i]
      /\ UNCHANGED <<board, edits>>
  BY RegisterBoardKeeps DEF Refuse
<1>2. /\ DOMAIN views' \subseteq DOMAIN views \cap DOMAIN entries'
      /\ \A i \in DOMAIN views' : i \in DOMAIN views /\ views'[i] = views[i]
  BY KeepViewsKeeps DEF Refuse
<1>3. reply'.kind = code /\ reply'.area = "none"
  BY DEF Refuse, Refusal, Reply
<1>4. ViewTypeOK'
  BY <1>1, <1>2, <1>3 DEF ViewTypeOK, StoreInv
<1>5. nextId \notin DOMAIN views
  BY DEF ViewTypeOK, StoreInv, StoreTypeOK, RetentionWindow
<1>6. ViewsTellStates'
  <2>1. SUFFICES ASSUME NEW i \in DOMAIN views' PROVE TellsState(views'[i], states'[i])
    BY DEF ViewsTellStates, TellsState
  <2> QED BY <1>1, <1>2, <1>4, <1>5 DEF ViewsTellStates, ViewTypeOK
<1>7. LossIsDeclared'
  <2>1. SUFFICES ASSUME NEW i \in DOMAIN views' PROVE DeclaresLoss(views'[i])
    BY <1>3 DEF LossIsDeclared, DeclaresLoss
  <2> QED BY <1>2 DEF LossIsDeclared
<1>8. StatesHaveNets'
  <2>1. SUFFICES ASSUME NEW i \in DOMAIN states' PROVE NetsAreNets(states'[i])
    BY DEF StatesHaveNets, NetsAreNets
  <2>2. NetsAreNets(board)
    BY BoardsHaveNets DEF ViewTypeOK
  <2> QED BY <1>1, <2>2 DEF StatesHaveNets
<1> QED BY <1>4, <1>6, <1>7, <1>8

\* A full document starts a view, a delta makes one from the view of its base.
LEMMA ViewInvStep == ViewInv /\ [Next]_vars => ViewInv'
<1> SUFFICES ASSUME ViewInv, [Next]_vars PROVE ViewInv'
  OBVIOUS
<1>0. StoreInv'
  BY StepUsesStore, StoreInvStep DEF ViewInv
<1>1. CASE WorldContext
  <2>1. PICK focus \in Refs, radius \in Radii, canFocus \in BOOLEAN :
          \E i \in DOMAIN FullCascade(canFocus) :
            LET level == FullCascade(canFocus)[i] IN
            IF level.far /\ focus \notin DOMAIN board
              THEN Refuse("COMPONENT_NOT_FOUND")
              ELSE LET toon == FullToon(board, focus, radius, level) IN
                   /\ RegisterBoard
                   /\ Tell(ViewOf(toon))
                   /\ reply' = Reply("full", nextId, 0, toon.area, {})
    BY <1>1 DEF WorldContext
  <2>2. PICK i \in DOMAIN FullCascade(canFocus) :
          LET level == FullCascade(canFocus)[i] IN
          IF level.far /\ focus \notin DOMAIN board
            THEN Refuse("COMPONENT_NOT_FOUND")
            ELSE LET toon == FullToon(board, focus, radius, level) IN
                 /\ RegisterBoard
                 /\ Tell(ViewOf(toon))
                 /\ reply' = Reply("full", nextId, 0, toon.area, {})
    BY <2>1
  <2> DEFINE level == FullCascade(canFocus)[i]
             toon == FullToon(board, focus, radius, level)
  <2>3. Declares(level)
    BY FullCascadeDeclares
  <2>4. CASE Refuse("COMPONENT_NOT_FOUND")
    BY <1>0, <2>4, RefusalKeeps DEF Codes
  <2>5. CASE /\ RegisterBoard
             /\ Tell(ViewOf(toon))
             /\ reply' = Reply("full", nextId, 0, toon.area, {})
    <3> HIDE DEF level
    <3>1. /\ TellsState(ViewOf(toon), board)
          /\ DeclaresLoss(ViewOf(toon))
          /\ toon.area = "full" => ViewOf(toon).far = {}
      BY <2>3, FullDocumentTells
    <3> HIDE DEF toon
    <3>2. reply'.kind = "full" /\ reply'.id = nextId /\ reply'.area = toon.area
      BY <2>5 DEF Reply
    <3> QED BY <1>0, <2>5, <3>1, <3>2, AnswerKeeps
  <2> QED BY <2>2, <2>4, <2>5
<1>2. CASE ContextDelta
  <2>1. PICK base \in DOMAIN views, focus \in Refs, radius \in Radii,
             i \in DOMAIN DeltaCascade :
          /\ RegisterBoard
          /\ Tell(Apply(views[base], DeltaToon(states[base], board, DeltaCascade[i])))
          /\ reply' = Reply("delta", nextId, base, "local",
                            AreaOk(states[base], board, focus, radius))
    BY <1>2 DEF ContextDelta
  <2> DEFINE view == Apply(views[base], DeltaToon(states[base], board, DeltaCascade[i]))
  <2>2. TellsState(views[base], states[base]) /\ DeclaresLoss(views[base])
    BY DEF ViewInv, ViewsTellStates, LossIsDeclared
  <2>6. NetsAreNets(states[base]) /\ NetsAreNets(board)
    BY BoardsHaveNets DEF ViewInv, ViewTypeOK, StatesHaveNets
  <2>3. TellsState(view, board) /\ DeclaresLoss(view)
    BY <2>2, <2>6, DeltaCascadeDeclares, DeltaTells
  <2> HIDE DEF view
  <2>4. Tell(view)
    BY <2>1 DEF view
  <2>5. reply'.kind = "delta" /\ reply'.id = nextId /\ reply'.area = "local"
    BY <2>1 DEF Reply
  <2> QED BY <1>0, <2>1, <2>3, <2>4, <2>5, AnswerKeeps
<1>3. CASE ContextFails
  BY <1>0, <1>3, RefusalKeeps DEF ContextFails, Codes
<1>4. CASE BoardChanges
  <2>1. /\ UNCHANGED <<states, views, entries>>
        /\ reply'.kind = "none" /\ reply'.area = "none"
        /\ edits < MaxEdits /\ edits' = edits + 1
    BY <1>4 DEF BoardChanges, storeVars, Refusal, Reply
  <2>2. board' \in Boards
    BY <1>4, ChangedBoard DEF ViewInv, ViewTypeOK
  <2>3. ViewTypeOK'
    BY <1>0, <2>1, <2>2, BoundAssumption DEF ViewInv, ViewTypeOK, StoreInv, Codes
  <2>4. ViewsTellStates' /\ LossIsDeclared' /\ StatesHaveNets'
    BY <2>1 DEF ViewInv, ViewsTellStates, LossIsDeclared, TellsState, DeclaresLoss,
                StatesHaveNets, NetsAreNets
  <2> QED BY <1>0, <2>3, <2>4 DEF ViewInv
<1>5. CASE UNCHANGED vars
  <2>1. UNCHANGED <<states, views, entries, board, edits, reply>>
    BY <1>5 DEF vars, storeVars
  <2> QED BY <1>0, <2>1 DEF ViewInv, StoreInv, ViewTypeOK, ViewsTellStates, LossIsDeclared,
                           TellsState, DeclaresLoss, StatesHaveNets, NetsAreNets
<1> QED BY <1>1, <1>2, <1>3, <1>4, <1>5 DEF Next

THEOREM ViewInvariant == Spec => []ViewInv
BY ViewInvInit, ViewInvStep, PTL DEF Spec

(***************************************************************************)
(* The theorems.                                                           *)
(***************************************************************************)

\* The variables of the context tools keep their types.
THEOREM ViewTypeCorrect == Spec => []ViewTypeOK
BY ViewInvariant, PTL DEF ViewInv

\* Whatever chain of full documents and deltas led to it, degraded at whatever
\* levels, what the agent knows of a snapshot is true of what the server
\* registered under that id, whatever sanitising makes of the names of nets:
\* the members of a name that only its own net is given are all known or
\* collapsed to their number, and of any other name none is known wrongly.
THEOREM ViewsCorrect == Spec => []ViewsTellStates
BY ViewInvariant, PTL DEF ViewInv

\* toon-v1 4: whatever the agent does not know of a snapshot, a label of the
\* chain of documents declared.
THEOREM LossDeclared == Spec => []LossIsDeclared
BY ViewInvariant, PTL DEF ViewInv

\* A component that a delta reports as ok is what it was in the base, even if
\* the registration of the delta evicted that base.
THEOREM OkRefsCorrect == Spec => OkRefsAreUnchanged
<1>1. ViewInv /\ [Next]_vars =>
        (reply'.kind = "delta" /\ nextId' # nextId =>
           \A r \in reply'.ok : states[reply'.base][r] = states'[reply'.id][r])
  <2> SUFFICES ASSUME ViewInv, [Next]_vars, reply'.kind = "delta", nextId' # nextId,
                      NEW r \in reply'.ok
               PROVE  states[reply'.base][r] = states'[reply'.id][r]
    OBVIOUS
  <2>1. ~BoardChanges /\ ~UNCHANGED vars
    BY DEF BoardChanges, vars, storeVars
  <2>2. \A code \in Codes : ~Refuse(code)
    BY DEF Refuse, Refusal, Reply, Codes
  <2>3. ~ContextFails
    BY <2>2 DEF ContextFails, Codes
  <2>4. ~WorldContext
    BY <2>2 DEF WorldContext, Codes, Reply
  <2>5. ContextDelta
    BY <2>1, <2>3, <2>4 DEF Next
  <2>6. PICK base \in DOMAIN views, focus \in Refs, radius \in Radii :
          /\ RegisterBoard
          /\ \E i \in DOMAIN DeltaCascade :
               reply' = Reply("delta", nextId, base, "local",
                              AreaOk(states[base], board, focus, radius))
    BY <2>5 DEF ContextDelta
  <2>7. /\ reply'.id = nextId /\ reply'.base = base
        /\ reply'.ok = AreaOk(states[base], board, focus, radius)
    BY <2>6 DEF Reply
  <2>8. states'[nextId] = board
    BY <2>6, RegisterBoardKeeps DEF ViewInv
  <2>9. r \in StableRefs(states[base], board, focus, radius)
    BY <2>7 DEF AreaOk
  <2>10. /\ r \in DOMAIN board
         /\ r \notin Added(states[base], board) /\ r \notin Updated(states[base], board)
    BY <2>9 DEF StableRefs, InArea
  <2> QED BY <2>7, <2>8, <2>10, NotUpdated
<1> QED BY <1>1, ViewInvariant, PTL DEF Spec, OkRefsAreUnchanged
=============================================================================
