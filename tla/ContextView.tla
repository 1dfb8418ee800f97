---------------------------- MODULE ContextView ----------------------------
(***************************************************************************)
(* What the agent knows of the board from the documents it was sent: the   *)
(* two context tools (tools/world.py), the diff of two states              *)
(* (snapshots/delta.py) and the TOON encoder with its degradation by token *)
(* budget (toon/encoder.py, docs/specs/toon-v1.md).                        *)
(*                                                                         *)
(* The server computes a delta from the states it registered, which it     *)
(* keeps whole; the agent applies it to what it was sent of the base,      *)
(* which may have been degraded.  The model keeps both: the state of every *)
(* retained snapshot, and the view of it the agent has put together.       *)
(*                                                                         *)
(* A component has a position and one pin, on a net or on none.  States    *)
(* hold the names of nets as they are and documents hold them sanitised,   *)
(* which may give two nets one name.  How many characters a document takes *)
(* is not modelled: the first level of the cascade that fits, or none, is  *)
(* a free choice.  States are those of the live board, the kind that       *)
(* changes under a base that stays valid.                                  *)
(***************************************************************************)
EXTENDS SnapshotStore, Sequences

CONSTANTS
  Refs,        \* references of components, unique on a board
  Places,      \* positions, on a line
  Nets,        \* names of nets
  Sanitized,   \* [Nets -> Nets], the name a document gives a net
  PowerNets,   \* the names _POWER_NET_RE matches
  Radii,       \* the radii the agent asks about
  PowerCollapseThreshold,
  AreaOkThreshold,
  InitialBoards, \* the boards the agent may find
  MaxEdits     \* bound: changes of the board, by anybody

ASSUME LiveOnlyAssumption == Files = {}
ASSUME PlacesAssumption == Places \subseteq Int /\ Radii \subseteq Nat
ASSUME PowerAssumption == PowerNets \subseteq Nets
ASSUME SanitizedAssumption == Sanitized \in [Nets -> Nets]
ASSUME BoundAssumption == MaxEdits \in Nat

VARIABLES
  board,   \* the live board: [its components -> position and net]
  edits,   \* bound: how often it changed
  states,  \* [retained snapshot ids -> board], what the store keeps
  views,   \* [ids among them the agent was told of -> view]
  reply    \* the last reply

vars == <<storeVars, board, edits, states, views, reply>>

NoNet == "-"

ASSUME NoNetAssumption == NoNet \notin Nets

Parts == [at : Places, net : Nets \cup {NoNet}]
Boards == UNION {[refs -> Parts] : refs \in SUBSET Refs}

ASSUME InitialAssumption == InitialBoards \subseteq Boards

\* The components on a net: _nets_by_component.
OnNet(b, net) == {r \in DOMAIN b : b[r].net = net}

\* _sanitize of the net of a pin; and _collect_nets, by the sanitised names.
NameOf(net) == IF net = NoNet THEN NoNet ELSE Sanitized[net]
Members(b, name) == {r \in DOMAIN b : NameOf(b[r].net) = name}
NetsOf(b) == {NameOf(b[r].net) : r \in DOMAIN b} \ {NoNet}

Distance(p, q) == IF p < q THEN q - p ELSE p - q

\* The part of f outside a set; f overridden by g.
Without(f, set) == [x \in DOMAIN f \ set |-> f[x]]
Override(f, g) ==
  [x \in DOMAIN f \cup DOMAIN g |-> IF x \in DOMAIN g THEN g[x] ELSE f[x]]

----------------------------------------------------------------------------
(* compute_delta                                                           *)

Added(base, curr) == DOMAIN curr \ DOMAIN base
Removed(base, curr) == DOMAIN base \ DOMAIN curr

\* Faulty: the signature leaves out the position.
SignatureOfNets(part) == part.net

\* _component_signature: everything a component's line tells.
Signature(part) == part

Updated(base, curr) ==
  {r \in DOMAIN base \cap DOMAIN curr : Signature(base[r]) # Signature(curr[r])}

NetsChanged(base, curr) ==
  {n \in Nets : OnNet(base, n) # OnNet(curr, n)}

----------------------------------------------------------------------------
(* The encoder                                                             *)

\* _Options: what a level of the cascade gives up.
Level(collapse, far, omit, labels) ==
  [collapse |-> collapse, far |-> far, omit |-> omit, labels |-> labels]

\* Faulty: the last level does not say that far components were summarised.
FullCascadeUnlabelled(canFocus) ==
  <<Level(FALSE, FALSE, FALSE, {}),
    Level(TRUE, FALSE, FALSE, {"poder_colapsado"})>>
  \o (IF canFocus THEN <<Level(TRUE, TRUE, FALSE, {"poder_colapsado", "fuera_de_area"})>>
                  ELSE <<>>)
  \o <<Level(TRUE, canFocus, TRUE, {"poder_colapsado", "posiciones_omitidas"})>>

\* The cascade of encode: far components are summarised only around a focus.
FullCascade(canFocus) ==
  LET area == IF canFocus THEN {"fuera_de_area"} ELSE {} IN
  <<Level(FALSE, FALSE, FALSE, {}),
    Level(TRUE, FALSE, FALSE, {"poder_colapsado"})>>
  \o (IF canFocus THEN <<Level(TRUE, TRUE, FALSE, {"poder_colapsado"} \cup area)>>
                  ELSE <<>>)
  \o <<Level(TRUE, canFocus, TRUE, {"poder_colapsado", "posiciones_omitidas"} \cup area)>>

\* The cascade of encode_delta_with_budget.
DeltaCascade ==
  <<Level(FALSE, FALSE, FALSE, {}),
    Level(TRUE, FALSE, FALSE, {"poder_colapsado"}),
    Level(TRUE, FALSE, TRUE, {"poder_colapsado", "posiciones_omitidas"})>>

\* _encode_component_line; the position is optional.
Line(part, level) == [at |-> IF level.omit THEN {} ELSE {part.at}, net |-> NameOf(part.net)]

\* _encode_net_line: the members, unless the net is collapsed to their number.
NetLine(b, net, level) ==
  LET members == Members(b, net) IN
  [count |-> Cardinality(members),
   members |-> IF level.collapse /\ net \in PowerNets
                    /\ Cardinality(members) > PowerCollapseThreshold
                 THEN {} ELSE {members}]

InArea(b, focus, radius) ==
  {r \in DOMAIN b : Distance(b[r].at, b[focus].at) <= radius}

\* _encode_impl.  far: the components [FUERA_DE_AREA] names; area: the token
\* of the header.
FullToon(b, focus, radius, level) ==
  LET near == IF level.far THEN InArea(b, focus, radius) ELSE DOMAIN b IN
  [lines |-> [r \in near |-> Line(b[r], level)],
   far |-> DOMAIN b \ near,
   nets |-> [n \in NetsOf(b) |-> NetLine(b, n, level)],
   area |-> IF DOMAIN b = near THEN "full" ELSE "local",
   labels |-> level.labels]

\* Faulty: a component that was only moved is reported without change.
StableRefsOfNets(base, curr, focus, radius) ==
  InArea(curr, focus, radius)
    \ (Added(base, curr) \cup {r \in Updated(base, curr) : base[r].net # curr[r].net})

\* The [AREA] section: no more than the number of them above the threshold,
\* and nothing if the focus is not on the board.
StableRefs(base, curr, focus, radius) ==
  InArea(curr, focus, radius) \ (Added(base, curr) \cup Updated(base, curr))

AreaOk(base, curr, focus, radius) ==
  LET stable == IF focus \in DOMAIN curr THEN StableRefs(base, curr, focus, radius)
                                         ELSE {}
  IN IF Cardinality(stable) > AreaOkThreshold THEN {} ELSE stable

\* _encode_delta_impl.  The nets that changed are looked up among the sanitised
\* names: one that lost its last member has no line, and neither has one whose
\* name sanitising changes, unless it is what the name of another becomes.
DeltaToon(base, curr, level) ==
  [lines |-> [r \in Added(base, curr) \cup Updated(base, curr) |-> Line(curr[r], level)],
   removed |-> Removed(base, curr),
   nets |-> [n \in NetsChanged(base, curr) \cap NetsOf(curr) |-> NetLine(curr, n, level)],
   labels |-> level.labels]

----------------------------------------------------------------------------
(* The agent's side, which is not in this repository: it reads a full      *)
(* document as it stands, and a delta line by line.                        *)

NoNetLine == [count |-> 0, members |-> {{}}]

ViewOf(toon) ==
  [lines |-> toon.lines, far |-> toon.far, labels |-> toon.labels,
   nets |-> [n \in Nets |-> IF n \in DOMAIN toon.nets THEN toon.nets[n] ELSE NoNetLine]]

\* A net without a [~N] line loses the members the delta says are elsewhere.
NetAfter(line, net, delta) ==
  LET left == delta.removed \cup {r \in DOMAIN delta.lines : delta.lines[r].net # net}
      members == {m \ left : m \in line.members}
  IN [count |-> IF members = {} THEN line.count
                                ELSE Cardinality(CHOOSE m \in members : TRUE),
      members |-> members]

Apply(view, delta) ==
  [lines |-> Override(Without(view.lines, delta.removed), delta.lines),
   far |-> (view.far \ delta.removed) \ DOMAIN delta.lines,
   labels |-> view.labels \cup delta.labels,
   nets |-> [n \in Nets |-> IF n \in DOMAIN delta.nets THEN delta.nets[n]
                                                       ELSE NetAfter(view.nets[n], n, delta)]]

----------------------------------------------------------------------------
(* The two tools, and the board                                            *)

Reply(kind, id, base, area, ok) ==
  [kind |-> kind, id |-> id, base |-> base, area |-> area, ok |-> ok]
Refusal(code) == Reply(code, 0, 0, "none", {})

Codes == {"none", "COMPONENT_NOT_FOUND", "CONTEXT_BUDGET_IMPOSSIBLE", "FAILED"}

\* Faulty: the states of evicted snapshots are kept.
RegisterBoardForEver ==
  /\ RegisterLive
  /\ states' = [i \in DOMAIN states \cup {nextId} |-> IF i = nextId THEN board ELSE states[i]]
  /\ UNCHANGED <<board, edits>>

\* store.register, with the state that goes with the entry.
RegisterBoard ==
  /\ RegisterLive
  /\ states' = [i \in DOMAIN entries' |-> IF i = nextId THEN board ELSE states[i]]
  /\ UNCHANGED <<board, edits>>

KeepViews == views' = [i \in DOMAIN views \cap DOMAIN entries' |-> views[i]]

Tell(view) ==
  views' = [i \in (DOMAIN views \cap DOMAIN entries') \cup {nextId} |->
              IF i = nextId THEN view ELSE views[i]]

\* What goes wrong after the registration: the snapshot stays, and may have
\* evicted another, but the agent is told of none.
Refuse(code) == RegisterBoard /\ KeepViews /\ reply' = Refusal(code)

\* get_world_context(kind="pcb"), answered at a level of the cascade.
WorldContext ==
  \E focus \in Refs, radius \in Radii, canFocus \in BOOLEAN :
    \E i \in DOMAIN FullCascade(canFocus) :
      LET level == FullCascade(canFocus)[i] IN
      IF level.far /\ focus \notin DOMAIN board
        THEN Refuse("COMPONENT_NOT_FOUND")
        ELSE LET toon == FullToon(board, focus, radius, level) IN
             /\ RegisterBoard
             /\ Tell(ViewOf(toon))
             /\ reply' = Reply("full", nextId, 0, toon.area, {})

\* get_context_delta on a live base.  The entry is in hand before the
\* registration that may evict it.
ContextDelta ==
  \E base \in DOMAIN views, focus \in Refs, radius \in Radii :
    /\ ValidBase(base)
    /\ \E i \in DOMAIN DeltaCascade :
         /\ RegisterBoard
         /\ Tell(Apply(views[base], DeltaToon(states[base], board, DeltaCascade[i])))
         /\ reply' = Reply("delta", nextId, base, "local",
                           AreaOk(states[base], board, focus, radius))

\* No level fits, or the outline of the board cannot be read.
ContextFails ==
  \/ Refuse("CONTEXT_BUDGET_IMPOSSIBLE")
  \/ Refuse("FAILED")

\* The board changes, by any tool or by hand: one component is placed, moved,
\* rewired or removed.
BoardChanges ==
  /\ edits < MaxEdits
  /\ edits' = edits + 1
  /\ \E r \in Refs :
       \/ \E p \in Parts : board' = Override(board, [x \in {r} |-> p])
       \/ board' = Without(board, {r})
  /\ board' # board
  /\ reply' = Refusal("none")
  /\ UNCHANGED <<storeVars, states, views>>

Init ==
  /\ StoreInit
  /\ board \in InitialBoards
  /\ edits = 0
  /\ states = [i \in {} |-> board]
  /\ views = states
  /\ reply = Refusal("none")

Next == WorldContext \/ ContextDelta \/ ContextFails \/ BoardChanges

Spec == Init /\ [][Next]_vars

----------------------------------------------------------------------------
(* Properties                                                              *)

\* Every variable has its type.
ViewTypeOK ==
  /\ StoreTypeOK
  /\ board \in Boards
  /\ edits \in 0..MaxEdits
  /\ DOMAIN states = DOMAIN entries
  /\ DOMAIN views \subseteq DOMAIN states
  /\ reply.kind \in Codes \cup {"full", "delta"}

\* Whatever chain of documents led to it, each degraded as it may be, all that
\* the agent knows of a snapshot is true of the state registered for it: which
\* components there are, the line of each it was sent, and the nets.  Of a name
\* that only the net of that name is given, it knows the members or, while there
\* are any, their number (that a collapsed net lost its last member, no line
\* says).  Of a name that sanitising gives to some other net it may miss
\* members: the delta has no line for what that net gains.  Those it has are right.
LineIsTrue(line, part) == line.net = NameOf(part.net) /\ \A p \in line.at : p = part.at
NetIsTrue(line, members) ==
  /\ \A m \in line.members : m = members
  /\ members # {} => line.count = Cardinality(members)
NetIsPartOf(line, members) == \A m \in line.members : m \subseteq members
IsOnlyOwn(name) == \A n \in Nets : Sanitized[n] = name => n = name
TellsState(view, b) ==
  /\ DOMAIN view.lines \cup view.far = DOMAIN b
  /\ \A r \in DOMAIN view.lines : LineIsTrue(view.lines[r], b[r])
  /\ \A n \in Nets : /\ NetIsPartOf(view.nets[n], Members(b, n))
                     /\ IsOnlyOwn(n) => NetIsTrue(view.nets[n], Members(b, n))
ViewsTellStates == \A i \in DOMAIN views : TellsState(views[i], states[i])

\* toon-v1 4: "Toda degradacion aplicada se declara".  What the agent does not
\* know of a snapshot, a label of the chain that led to it names, and an answer
\* whose header says area:full holds every component.  (No label names what is
\* missing of a net whose name sanitising changes; see ViewsTellStates.)
DeclaresLoss(view) ==
  /\ "fuera_de_area" \in view.labels \/ view.far = {}
  /\ "posiciones_omitidas" \in view.labels
       \/ \A r \in DOMAIN view.lines : view.lines[r].at # {}
  /\ "poder_colapsado" \in view.labels \/ \A n \in Nets : view.nets[n].members # {}
LossIsDeclared ==
  \A i \in DOMAIN views :
    /\ DeclaresLoss(views[i])
    /\ reply.id = i /\ reply.area = "full" => views[i].far = {}

\* A component a delta reports as ok in [AREA] is, in the state just
\* registered, what it was in the base, although the base may be gone by now.
OkRefsAreUnchanged ==
  [][reply'.kind = "delta" /\ nextId' # nextId =>
       \A r \in reply'.ok : states[reply'.base][r] = states'[reply'.id][r]]_vars
=============================================================================
