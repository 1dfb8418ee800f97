------------------------ MODULE SchematicSyncProofs ------------------------
(***************************************************************************)
(* Proofs about SchematicSync, for any number of edits, writes and         *)
(* snapshots and any retention, with other programs writing and restoring  *)
(* the sheets between any two steps of a call.                             *)
(***************************************************************************)
EXTENDS SchematicSync, SnapshotStoreProofs, SequenceTheorems

\* What is left of a call is an end of its program.
EndOf(todo, program) ==
  /\ Len(todo) <= Len(program)
  /\ \A i \in 1..Len(todo) : todo[i] = program[Len(program) - Len(todo) + i]

Querying == EndOf(call.todo, ContextDelta) /\ call.edit = NoEdit /\ call.target = Root
Editing ==
  /\ EndOf(call.todo, SchEdit)
  /\ call.edit.shows \in (IF call.target = Root THEN {"symbol", "value", "nets", "nothing"}
                                               ELSE {"stray", "nothing"})
DoingOneOf(steps) == Running /\ Head(call.todo) \in steps
Ahead(step) == \E i \in 1..Len(call.todo) : call.todo[i] = step

Calls == [todo : Seq(Steps), edit : Edits, target : Sheets, bare : BOOLEAN, key : Nat,
          placed : SUBSET Edits, built : States, copying : SUBSET Sheets,
          loaded : Contents, mark : Nat,
          raced : BOOLEAN, alone : BOOLEAN, reply : Replies]

\* Edits are numbered in the order in which they are made, and only symbols are
\* left out of the netlist.
Made(content) ==
  /\ content \in Contents
  /\ \A e \in content.edits : e.n < nextEdit
  /\ \A e \in content.bare : e.shows = "symbol"

CallOK ==
  /\ call \in Calls
  /\ Querying \/ Editing
  /\ call.bare => call.edit.shows = "symbol"
  /\ Ahead("write") => call.edit.n = 0 /\ nextEdit <= MaxEdits
  /\ Made(call.loaded) /\ call.edit.n < nextEdit /\ call.mark <= nextEdit

EditsOK ==
  /\ nextEdit \in 1..(MaxEdits + 1)
  /\ present \in SUBSET Sheets /\ late \in SUBSET present
  /\ sheet \in [Sheets -> Contents] /\ \A s \in Sheets : Made(sheet[s])
  /\ own \in SUBSET Edits /\ \A e \in own : e.n \in 1..(nextEdit - 1)
  /\ audit \in SUBSET Edits /\ failed \in SUBSET Edits

\* The sheets that the session's backup has to hold.
ToBackUp == present \ (Below \cup late)

\* The backup is of what the session has found; and a sheet loses none of it.
BackupOK ==
  /\ DOMAIN backup \subseteq Sheets
  /\ \A s \in DOMAIN backup :
       /\ Made(backup[s].content)
       /\ backup[s].mtime \in 1..clock
       /\ backup[s].content.edits \subseteq sheet[s].edits
       /\ backup[s].content.edits \cap own = {}
  /\ done \in BOOLEAN
  /\ done => ToBackUp \subseteq DOMAIN backup
  /\ own # {} => done

\* Where the session's backup stands when a call is about to take a step of it
\* or one that needs it.
BackupSteps ==
  /\ Doing("copy") \/ Doing("git") => ~done
  /\ Doing("copy") => ToBackUp \subseteq DOMAIN backup \cup call.copying
  /\ Doing("git") => ToBackUp \subseteq DOMAIN backup
  /\ Doing("load") \/ Doing("write") => done

\* What a call writes holds the edits that were in the file when it was loaded.
LoadOK ==
  Doing("write") =>
    /\ \A e \in sheet[call.target].edits : e \in call.loaded.edits \/ e.n >= call.mark
    /\ call.target \in DOMAIN backup =>
         backup[call.target].content.edits \subseteq call.loaded.edits
    /\ ~call.raced /\ call.target = Root => call.loaded.edits = sheet[Root].edits

\* A reading that nobody has written under is of the file as it is.
Truth == View(sheet[Root])

\* At most one edit's part of the netlist is made up.
OneGuess(state) == \A d, e \in state.guessed : d = e

ReadOK ==
  /\ Doing("positions") \/ Doing("netlist") =>
       call.key \in 1..clock /\ (~call.raced => call.key = mtime[Root])
  /\ Doing("netlist") /\ ~call.raced => call.placed = Placed(sheet[Root])
  /\ DoingOneOf({"backup", "copy", "git", "load", "write"}) /\ ~call.raced
       => call.built = Truth
  /\ (Doing("verify") \/ Doing("register")) /\ ~call.raced
       => Settled(Derive) = Truth /\ OneGuess(Derive)

\* What is known of the root schematic at an mtime is true of the file if it has
\* that mtime, and of the backup if it would bring that mtime back.
TrueAt(m, state) ==
  /\ m = mtime[Root] => state = Truth
  /\ Root \in DOMAIN backup /\ m = backup[Root].mtime => state = View(backup[Root].content)

\* The same of a state that may hold one edit's guess.
TellsAt(m, state) == TrueAt(m, Settled(state)) /\ OneGuess(state)

CacheOK ==
  /\ DOMAIN cache \subseteq 1..clock /\ torn \subseteq Nat
  /\ \A m \in DOMAIN cache : cache[m] \in States /\ (TrueAt(m, cache[m]) \/ m \in torn)

RootMtimes(m) == [f \in Files |-> m]

SnapsOK ==
  /\ DOMAIN states = DOMAIN entries /\ doubted \subseteq Nat
  /\ \A i \in DOMAIN entries :
       /\ states[i] \in States
       /\ \E m \in 1..clock :
            entries[i].mtimes = {RootMtimes(m)} /\ (TellsAt(m, states[i]) \/ i \in doubted)

\* An mtime names one content: the backup's mtime is the file's only when they
\* are the same.
FilesOK ==
  /\ StoreTypeOK /\ RetentionWindow
  /\ mtime[Root] \in 1..clock
  /\ Root \in DOMAIN backup /\ backup[Root].mtime = mtime[Root]
       => backup[Root].content = sheet[Root]

AnswerOK ==
  (Doing("audit") \/ Doing("encode")) /\ call.alone => ValidBase(nextId - 1)

CallInv == CallOK /\ BackupSteps /\ LoadOK /\ ReadOK /\ AnswerOK
StateInv == FilesOK /\ EditsOK /\ BackupOK /\ CacheOK /\ SnapsOK
SchInv == StateInv /\ CallInv /\ AuditOrFailure
----------------------------------------------------------------------------
(* Programs                                                                *)

\* Two lists of steps, one after the other.
LEMMA Joined ==
  ASSUME NEW s \in Seq(Steps), NEW t \in Seq(Steps)
  PROVE  /\ s \o t \in Seq(Steps) /\ Len(s \o t) = Len(s) + Len(t)
         /\ \A i \in 1..Len(s) : (s \o t)[i] = s[i]
         /\ \A i \in 1..Len(t) : (s \o t)[Len(s) + i] = t[i]
<1> DEFINE st == s \o t
<1>1. /\ st \in Seq(Steps) /\ Len(st) = Len(s) + Len(t)
      /\ \A i \in 1..(Len(s) + Len(t)) : st[i] = IF i <= Len(s) THEN s[i] ELSE t[i - Len(s)]
  BY ConcatProperties
<1> HIDE DEF st
<1>2. Len(s) \in Nat /\ Len(t) \in Nat
  OBVIOUS
<1>3. ASSUME NEW i \in 1..Len(s) PROVE st[i] = s[i]
  BY <1>1, <1>2
<1>4. ASSUME NEW i \in 1..Len(t) PROVE st[Len(s) + i] = t[i]
  <2>1. Len(s) + i \in 1..(Len(s) + Len(t)) /\ ~(Len(s) + i <= Len(s)) /\ Len(s) + i - Len(s) = i
    BY <1>2
  <2> QED BY <1>1, <2>1
<1> QED BY <1>1, <1>3, <1>4 DEF st

\* The steps of a query, by their places.
LEMMA Query ==
  /\ ContextDelta \in Seq(Steps) /\ Len(ContextDelta) = 6
  /\ ContextDelta[1] = "delta" /\ ContextDelta[2] = "stat" /\ ContextDelta[3] = "positions"
  /\ ContextDelta[4] = "netlist" /\ ContextDelta[5] = "register" /\ ContextDelta[6] = "encode"
  /\ SchContext \in Seq(Steps) /\ Len(SchContext) = 5
  /\ \A i \in 1..5 : SchContext[i] = ContextDelta[1 + i]
<1>1. /\ Build \in Seq(Steps) /\ Len(Build) = 3
      /\ Build[1] = "stat" /\ Build[2] = "positions" /\ Build[3] = "netlist"
  BY DEF Build, Steps
<1> DEFINE r == <<"register", "encode">>
           d == <<"delta">>
<1>2. r \in Seq(Steps) /\ Len(r) = 2 /\ r[1] = "register" /\ r[2] = "encode"
  BY DEF Steps
<1>3. d \in Seq(Steps) /\ Len(d) = 1 /\ d[1] = "delta"
  BY DEF Steps
<1>4. SchContext = Build \o r /\ ContextDelta = d \o SchContext
  BY DEF SchContext, ContextDelta
<1> HIDE DEF r, d
<1>5. /\ SchContext \in Seq(Steps) /\ Len(SchContext) = 5
      /\ SchContext[1] = "stat" /\ SchContext[2] = "positions" /\ SchContext[3] = "netlist"
      /\ SchContext[4] = "register" /\ SchContext[5] = "encode"
  <2>1. /\ Build \o r \in Seq(Steps) /\ Len(Build \o r) = Len(Build) + Len(r)
        /\ \A i \in 1..Len(Build) : (Build \o r)[i] = Build[i]
        /\ \A i \in 1..Len(r) : (Build \o r)[Len(Build) + i] = r[i]
    BY <1>1, <1>2, Joined
  <2> QED BY <1>1, <1>2, <1>4, <2>1
<1>6. /\ ContextDelta \in Seq(Steps) /\ Len(ContextDelta) = 6
      /\ ContextDelta[1] = "delta" /\ \A i \in 1..5 : ContextDelta[1 + i] = SchContext[i]
  <2>1. /\ d \o SchContext \in Seq(Steps) /\ Len(d \o SchContext) = Len(d) + Len(SchContext)
        /\ \A i \in 1..Len(d) : (d \o SchContext)[i] = d[i]
        /\ \A i \in 1..Len(SchContext) : (d \o SchContext)[Len(d) + i] = SchContext[i]
    BY <1>3, <1>5, Joined
  <2> QED BY <1>3, <1>4, <1>5, <2>1
<1> QED BY <1>5, <1>6

\* The steps of an edit, by their places.
LEMMA Edit ==
  /\ SchEdit \in Seq(Steps) /\ Len(SchEdit) = 13
  /\ SchEdit[1] = "base" /\ SchEdit[2] = "check" /\ SchEdit[3] = "stat"
  /\ SchEdit[4] = "positions" /\ SchEdit[5] = "netlist" /\ SchEdit[6] = "backup"
  /\ SchEdit[7] = "copy" /\ SchEdit[8] = "git"
  /\ SchEdit[9] = "load" /\ SchEdit[10] = "write" /\ SchEdit[11] = "verify"
  /\ SchEdit[12] = "register" /\ SchEdit[13] = "audit"
<1>1. /\ Build \in Seq(Steps) /\ Len(Build) = 3
      /\ Build[1] = "stat" /\ Build[2] = "positions" /\ Build[3] = "netlist"
  BY DEF Build, Steps
<1>2. /\ SessionBackup \in Seq(Steps) /\ Len(SessionBackup) = 3
      /\ SessionBackup[1] = "backup" /\ SessionBackup[2] = "copy"
      /\ SessionBackup[3] = "git"
  BY DEF SessionBackup, Steps
<1> DEFINE b == <<"base", "check">>
           l == <<"load", "write", "verify", "register", "audit">>
<1>3. b \in Seq(Steps) /\ Len(b) = 2 /\ b[1] = "base" /\ b[2] = "check"
  BY DEF Steps
<1>4. /\ l \in Seq(Steps) /\ Len(l) = 5
      /\ l[1] = "load" /\ l[2] = "write" /\ l[3] = "verify" /\ l[4] = "register"
      /\ l[5] = "audit"
  BY DEF Steps
<1>5. SchEdit = ((b \o Build) \o SessionBackup) \o l
  BY DEF SchEdit
<1> HIDE DEF b, l
<1> DEFINE p == b \o Build
<1>6. /\ p \in Seq(Steps) /\ Len(p) = 5
      /\ p[1] = "base" /\ p[2] = "check"
      /\ p[3] = "stat" /\ p[4] = "positions" /\ p[5] = "netlist"
  <2>1. /\ p \in Seq(Steps) /\ Len(p) = Len(b) + Len(Build)
        /\ \A i \in 1..Len(b) : p[i] = b[i]
        /\ \A i \in 1..Len(Build) : p[Len(b) + i] = Build[i]
    BY <1>1, <1>3, Joined
  <2> HIDE DEF p
  <2> QED BY <1>1, <1>3, <2>1
<1> DEFINE q == p \o SessionBackup
<1> HIDE DEF p
<1>7. /\ q \in Seq(Steps) /\ Len(q) = 8
      /\ q[1] = "base" /\ q[2] = "check"
      /\ q[3] = "stat" /\ q[4] = "positions" /\ q[5] = "netlist"
      /\ q[6] = "backup" /\ q[7] = "copy" /\ q[8] = "git"
  <2>1. /\ q \in Seq(Steps) /\ Len(q) = Len(p) + Len(SessionBackup)
        /\ \A i \in 1..Len(p) : q[i] = p[i]
        /\ \A i \in 1..Len(SessionBackup) : q[Len(p) + i] = SessionBackup[i]
    BY <1>2, <1>6, Joined
  <2> HIDE DEF q
  <2> QED BY <1>2, <1>6, <2>1
<1> HIDE DEF q
<1> DEFINE e == q \o l
<1>8. /\ e \in Seq(Steps) /\ Len(e) = Len(q) + Len(l)
      /\ \A i \in 1..Len(q) : e[i] = q[i]
      /\ \A i \in 1..Len(l) : e[Len(q) + i] = l[i]
  BY <1>4, <1>7, Joined
<1>9. SchEdit = e
  BY <1>5 DEF q, p
<1> HIDE DEF e
<1> QED BY <1>4, <1>7, <1>8, <1>9

\* What is left after some steps is still an end of the program.
LEMMA RestOfEnd ==
  ASSUME NEW todo \in Seq(Steps), NEW n \in Nat, n < Len(todo)
  PROVE  LET rest == SubSeq(todo, n + 1, Len(todo))
         IN  /\ rest \in Seq(Steps) /\ rest # <<>> /\ Len(rest) = Len(todo) - n
             /\ Head(rest) = todo[n + 1]
             /\ \A i \in 1..Len(rest) : rest[i] = todo[n + i]
             /\ \A program \in Seq(Steps) : EndOf(todo, program) => EndOf(rest, program)
<1> DEFINE rest == SubSeq(todo, n + 1, Len(todo))
<1>1. Len(todo) \in Nat /\ n + 1 \in Int /\ \A i \in (n + 1)..Len(todo) : todo[i] \in Steps
  OBVIOUS
<1>2. /\ rest \in Seq(Steps) /\ Len(rest) = Len(todo) - n
      /\ \A i \in 1..(Len(todo) - n) : rest[i] = todo[(n + 1) + i - 1]
  <2>1. /\ rest \in Seq(Steps)
        /\ Len(rest) = IF n + 1 <= Len(todo) THEN Len(todo) - (n + 1) + 1 ELSE 0
        /\ \A i \in 1..(Len(todo) - (n + 1) + 1) : rest[i] = todo[(n + 1) + i - 1]
    BY <1>1, SubSeqProperties
  <2>2. n + 1 <= Len(todo) /\ Len(todo) - (n + 1) + 1 = Len(todo) - n
    BY <1>1
  <2> HIDE DEF rest
  <2> QED BY <2>1, <2>2
<1> HIDE DEF rest
<1>3. ASSUME NEW i \in 1..Len(rest) PROVE rest[i] = todo[n + i]
  <2>1. i \in 1..(Len(todo) - n) /\ (n + 1) + i - 1 = n + i
    BY <1>1, <1>2
  <2> QED BY <1>2, <2>1
<1>4. rest # <<>> /\ Head(rest) = todo[n + 1]
  BY <1>1, <1>2, <1>3
<1>5. ASSUME NEW program \in Seq(Steps), EndOf(todo, program) PROVE EndOf(rest, program)
  <2>1. Len(program) \in Nat /\ Len(rest) <= Len(program)
    BY <1>1, <1>2, <1>5 DEF EndOf
  <2>2. ASSUME NEW i \in 1..Len(rest) PROVE rest[i] = program[Len(program) - Len(rest) + i]
    <3>1. n + i \in 1..Len(todo)
      BY <1>1, <1>2
    <3>2. Len(program) - Len(todo) + (n + i) = Len(program) - Len(rest) + i
      BY <1>1, <1>2, <2>1
    <3>3. todo[n + i] = program[Len(program) - Len(todo) + (n + i)]
      BY <1>5, <3>1 DEF EndOf
    <3> QED BY <1>3, <3>2, <3>3
  <2> QED BY <2>1, <2>2 DEF EndOf
<1> QED BY <1>2, <1>3, <1>4, <1>5 DEF rest

\* The places of an end of a list are places of the list.
LEMMA FromTheEnd ==
  \A n \in Nat : \A k \in 1..n : \A i \in 1..k : n - k + i \in 1..n
  OBVIOUS

\* Where an end of a program begins, by its length, and what follows there.
LEMMA EndAt ==
  ASSUME NEW program \in Seq(Steps), NEW todo \in Seq(Steps), EndOf(todo, program), todo # <<>>
  PROVE  /\ Len(todo) \in 1..Len(program)
         /\ Head(todo) = program[Len(program) + 1 - Len(todo)]
         /\ \A i \in 1..Len(todo) : todo[i] = program[Len(program) - Len(todo) + i]
<1>1. Len(todo) \in Nat /\ Len(todo) # 0 /\ Len(program) \in Nat /\ Len(todo) <= Len(program)
  BY EmptySeq DEF EndOf
<1>2. 1 \in 1..Len(todo) /\ Head(todo) = todo[1]
  BY <1>1
<1>3. Len(program) - Len(todo) + 1 = Len(program) + 1 - Len(todo)
  BY <1>1
<1> QED BY <1>1, <1>2, <1>3 DEF EndOf

\* What follows each step of a query.
LEMMA QueryFollows ==
  ASSUME NEW todo \in Seq(Steps), EndOf(todo, ContextDelta), todo # <<>>
  PROVE  /\ Len(todo) \in 1..6
         /\ Head(todo) \in {"delta", "stat", "positions", "netlist", "register", "encode"}
         /\ \A i \in 1..Len(todo) : todo[i] \notin {"write", "audit"}
         /\ Head(todo) = "delta" => Len(todo) = 6 /\ todo[2] = "stat"
         /\ Head(todo) = "stat" => Len(todo) = 5 /\ todo[2] = "positions" /\ todo[4] = "register"
         /\ Head(todo) = "positions" => Len(todo) = 4 /\ todo[2] = "netlist"
         /\ Head(todo) = "netlist" => Len(todo) = 3 /\ todo[2] = "register"
         /\ Head(todo) = "register" => Len(todo) = 2 /\ todo[2] = "encode"
         /\ Head(todo) = "encode" => Len(todo) = 1
<1>a. /\ Len(todo) \in 1..Len(ContextDelta)
      /\ Head(todo) = ContextDelta[Len(ContextDelta) + 1 - Len(todo)]
      /\ \A i \in 1..Len(todo) : todo[i] = ContextDelta[Len(ContextDelta) - Len(todo) + i]
  BY EndAt, Query
<1>0. /\ Len(todo) \in 1..6 /\ Head(todo) = ContextDelta[7 - Len(todo)]
      /\ \A i \in 1..Len(todo) : todo[i] = ContextDelta[6 - Len(todo) + i]
  BY <1>a, Query
<1>b. Len(todo) \in 1..6
  BY <1>0
<1>1. Len(todo) = 6 => Head(todo) = "delta" /\ todo[2] = "stat"
  BY <1>0, Query
<1>2. Len(todo) = 5 => Head(todo) = "stat" /\ todo[2] = "positions" /\ todo[4] = "register"
  BY <1>0, Query
<1>3. Len(todo) = 4 => Head(todo) = "positions" /\ todo[2] = "netlist"
  BY <1>0, Query
<1>4. Len(todo) = 3 => Head(todo) = "netlist" /\ todo[2] = "register"
  BY <1>0, Query
<1>5. Len(todo) = 2 => Head(todo) = "register" /\ todo[2] = "encode"
  BY <1>0, Query
<1>6. Len(todo) = 1 => Head(todo) = "encode"
  BY <1>0, Query
<1>7. \A i \in 1..Len(todo) : todo[i] \notin {"write", "audit"}
  <2>1. \A j \in 1..6 : ContextDelta[j] \notin {"write", "audit"}
    BY Query
  <2>2. ASSUME NEW i \in 1..Len(todo) PROVE todo[i] \notin {"write", "audit"}
    <3>1. 6 - Len(todo) + i \in 1..6
      BY <1>b, FromTheEnd
    <3>2. todo[i] = ContextDelta[6 - Len(todo) + i]
      BY <1>0
    <3> QED BY <2>1, <3>1, <3>2
  <2> QED BY <2>2
<1> QED BY <1>b, <1>1, <1>2, <1>3, <1>4, <1>5, <1>6, <1>7

\* The write is among the last four steps and those before them.
LEMMA WriteAhead ==
  ASSUME NEW todo \in Seq(Steps), EndOf(todo, SchEdit), todo # <<>>
  PROVE  (\E i \in 1..Len(todo) : todo[i] = "write") <=> Len(todo) >= 4
<1>a. /\ Len(todo) \in 1..Len(SchEdit)
      /\ Head(todo) = SchEdit[Len(SchEdit) + 1 - Len(todo)]
      /\ \A i \in 1..Len(todo) : todo[i] = SchEdit[Len(SchEdit) - Len(todo) + i]
  BY EndAt, Edit
<1>0. /\ Len(todo) \in 1..13 /\ Head(todo) = SchEdit[14 - Len(todo)]
      /\ \A i \in 1..Len(todo) : todo[i] = SchEdit[13 - Len(todo) + i]
  BY <1>a, Edit
<1>b. Len(todo) \in 1..13
  BY <1>0
<1>1. \A j \in 1..13 : SchEdit[j] = "write" <=> j = 10
  BY Edit
<1>2. ASSUME Len(todo) >= 4 PROVE todo[Len(todo) - 3] = "write" /\ Len(todo) - 3 \in 1..Len(todo)
  <2>1. Len(todo) - 3 \in 1..Len(todo) /\ 13 - Len(todo) + (Len(todo) - 3) = 10
    BY <1>0, <1>2
  <2>2. todo[Len(todo) - 3] = SchEdit[13 - Len(todo) + (Len(todo) - 3)]
    BY <1>0, <2>1
  <2> QED BY <1>1, <2>1, <2>2
<1>3. ASSUME NEW i \in 1..Len(todo), todo[i] = "write" PROVE Len(todo) >= 4
  <2>1. 13 - Len(todo) + i \in 1..13
    BY <1>b, FromTheEnd
  <2>2. SchEdit[13 - Len(todo) + i] = "write"
    BY <1>0, <1>3
  <2>3. 13 - Len(todo) + i = 10
    BY <1>1, <2>1, <2>2
  <2> QED BY <1>0, <2>3
<1> QED BY <1>2, <1>3

\* What follows each step of an edit.
LEMMA EditFollows ==
  ASSUME NEW todo \in Seq(Steps), EndOf(todo, SchEdit), todo # <<>>
  PROVE  /\ Len(todo) \in 1..13
         /\ Head(todo) \notin {"delta", "encode"}
         /\ Head(todo) = "base" => Len(todo) = 13 /\ todo[2] = "check"
         /\ Head(todo) = "check" => Len(todo) = 12 /\ todo[2] = "stat"
         /\ Head(todo) = "stat" => Len(todo) = 11 /\ todo[2] = "positions" /\ todo[4] = "backup"
         /\ Head(todo) = "positions" => Len(todo) = 10 /\ todo[2] = "netlist"
         /\ Head(todo) = "netlist" => Len(todo) = 9 /\ todo[2] = "backup"
         /\ Head(todo) = "backup" => Len(todo) = 8 /\ todo[2] = "copy" /\ todo[4] = "load"
         /\ Head(todo) = "copy" => Len(todo) = 7 /\ todo[2] = "git"
         /\ Head(todo) = "git" => Len(todo) = 6 /\ todo[2] = "load"
         /\ Head(todo) = "load" => Len(todo) = 5 /\ todo[2] = "write"
         /\ Head(todo) = "write" => Len(todo) = 4 /\ todo[2] = "verify"
         /\ Head(todo) = "verify" => Len(todo) = 3 /\ todo[2] = "register"
         /\ Head(todo) = "register" => Len(todo) = 2 /\ todo[2] = "audit"
         /\ Head(todo) = "audit" => Len(todo) = 1
<1>a. /\ Len(todo) \in 1..Len(SchEdit)
      /\ Head(todo) = SchEdit[Len(SchEdit) + 1 - Len(todo)]
      /\ \A i \in 1..Len(todo) : todo[i] = SchEdit[Len(SchEdit) - Len(todo) + i]
  BY EndAt, Edit
<1>0. /\ Len(todo) \in 1..13 /\ Head(todo) = SchEdit[14 - Len(todo)]
      /\ \A i \in 1..Len(todo) : todo[i] = SchEdit[13 - Len(todo) + i]
  BY <1>a, Edit
<1>b. Len(todo) \in 1..13
  BY <1>0
<1>1. Len(todo) = 13 => Head(todo) = "base" /\ todo[2] = "check"
  BY <1>0, Edit
<1>2. Len(todo) = 12 => Head(todo) = "check" /\ todo[2] = "stat"
  BY <1>0, Edit
<1>3. Len(todo) = 11 => Head(todo) = "stat" /\ todo[2] = "positions" /\ todo[4] = "backup"
  BY <1>0, Edit
<1>4. Len(todo) = 10 => Head(todo) = "positions" /\ todo[2] = "netlist"
  BY <1>0, Edit
<1>5. Len(todo) = 9 => Head(todo) = "netlist" /\ todo[2] = "backup"
  BY <1>0, Edit
<1>6. Len(todo) = 8 => Head(todo) = "backup" /\ todo[2] = "copy" /\ todo[4] = "load"
  BY <1>0, Edit
<1>7. Len(todo) = 7 => Head(todo) = "copy" /\ todo[2] = "git"
  BY <1>0, Edit
<1>8. Len(todo) = 6 => Head(todo) = "git" /\ todo[2] = "load"
  BY <1>0, Edit
<1>9. Len(todo) = 5 => Head(todo) = "load" /\ todo[2] = "write"
  BY <1>0, Edit
<1>10. Len(todo) = 4 => Head(todo) = "write" /\ todo[2] = "verify"
  BY <1>0, Edit
<1>11. Len(todo) = 3 => Head(todo) = "verify" /\ todo[2] = "register"
  BY <1>0, Edit
<1>12. Len(todo) = 2 => Head(todo) = "register" /\ todo[2] = "audit"
  BY <1>0, Edit
<1>13. Len(todo) = 1 => Head(todo) = "audit"
  BY <1>0, Edit
<1>14. \/ Len(todo) = 13 \/ Len(todo) = 12 \/ Len(todo) = 11 \/ Len(todo) = 10 \/ Len(todo) = 9
       \/ Len(todo) = 8 \/ Len(todo) = 7 \/ Len(todo) = 6 \/ Len(todo) = 5 \/ Len(todo) = 4
       \/ Len(todo) = 3 \/ Len(todo) = 2 \/ Len(todo) = 1
  BY <1>b
<1>15. CASE Len(todo) = 13
  BY <1>b, <1>1, <1>15
<1>16. CASE Len(todo) = 12
  BY <1>b, <1>2, <1>16
<1>17. CASE Len(todo) = 11
  BY <1>b, <1>3, <1>17
<1>18. CASE Len(todo) = 10
  BY <1>b, <1>4, <1>18
<1>19. CASE Len(todo) = 9
  BY <1>b, <1>5, <1>19
<1>20. CASE Len(todo) = 8
  BY <1>b, <1>6, <1>20
<1>21. CASE Len(todo) = 7
  BY <1>b, <1>7, <1>21
<1>22. CASE Len(todo) = 6
  BY <1>b, <1>8, <1>22
<1>23. CASE Len(todo) = 5
  BY <1>b, <1>9, <1>23
<1>24. CASE Len(todo) = 4
  BY <1>b, <1>10, <1>24
<1>25. CASE Len(todo) = 3
  BY <1>b, <1>11, <1>25
<1>26. CASE Len(todo) = 2
  BY <1>b, <1>12, <1>26
<1>27. CASE Len(todo) = 1
  BY <1>b, <1>13, <1>27
<1> QED BY <1>14, <1>15, <1>16, <1>17, <1>18, <1>19, <1>20, <1>21,
           <1>22, <1>23, <1>24, <1>25, <1>26, <1>27
----------------------------------------------------------------------------
(* Calls                                                                   *)

\* A call that ends leaves nothing to be done.
LEMMA Ends ==
  ASSUME EditsOK', NEW reply \in Replies, call' = Idle(reply)
  PROVE  /\ CallInv' /\ ~Running'
         /\ call'.edit = NoEdit /\ call'.target = Root /\ call'.reply = reply
<1>1. /\ call'.todo = <<>> /\ call'.edit = NoEdit /\ call'.target = Root
      /\ call'.bare = FALSE /\ call'.key = 0 /\ call'.placed = {}
      /\ call'.built = NoState /\ call'.loaded = NoContent /\ call'.mark = 0
      /\ call'.raced = FALSE /\ call'.alone = TRUE /\ call'.reply = reply
  BY DEF Idle
<1>2. ~Running'
  BY <1>1 DEF Running
<1>3. nextEdit' \in Nat /\ nextEdit' >= 1
  BY MaxEditsAssumption DEF EditsOK
<1>4. call' \in Calls
  <2>1. /\ <<>> \in Seq(Steps) /\ Root \in Sheets /\ NoEdit \in Edits
        /\ NoState \in States /\ NoContent \in Contents
    BY MaxEditsAssumption DEF Sheets, NoEdit, Edits, Shows, NoState, States, NoContent, Contents
  <2>2. FALSE \in BOOLEAN /\ TRUE \in BOOLEAN
    OBVIOUS
  <2> QED BY <2>1, <2>2 DEF Idle, Calls
<1>5. Querying'
  <2>1. Len(<<>>) = 0 /\ Len(ContextDelta) = 6
    BY Query
  <2> QED BY <1>1, <2>1 DEF Querying, EndOf
<1>6. Made(call.loaded)' /\ call'.edit.n < nextEdit' /\ call'.mark <= nextEdit'
  BY <1>1, <1>3 DEF Made, NoContent, Contents, NoEdit
<1>7. ~(Ahead("write")')
  BY <1>1 DEF Ahead
<1>8. CallOK'
  BY <1>1, <1>4, <1>5, <1>6, <1>7 DEF CallOK
<1> QED BY <1>1, <1>2, <1>8
  DEF CallInv, BackupSteps, LoadOK, ReadOK, AnswerOK, Doing, DoingOneOf

\* A call that goes on is at the next step of the same program.
LEMMA Goes ==
  ASSUME CallOK, Running, NEW n \in Nat, n < Len(call.todo),
         NEW known \in Calls, known.todo = call.todo, GoOn(n, known)
  PROVE  /\ call' \in Calls /\ failed' = failed
         /\ Running' /\ Head(call'.todo) = call.todo[n + 1]
         /\ Len(call'.todo) = Len(call.todo) - n
         /\ EndOf(call.todo, ContextDelta) => EndOf(call'.todo, ContextDelta)
         /\ EndOf(call.todo, SchEdit) => EndOf(call'.todo, SchEdit)
         /\ Ahead("write")' => Ahead("write")
         /\ call'.edit = known.edit /\ call'.target = known.target
         /\ call'.bare = known.bare /\ call'.key = known.key
         /\ call'.placed = known.placed /\ call'.built = known.built
         /\ call'.copying = known.copying
         /\ call'.loaded = known.loaded /\ call'.mark = known.mark
         /\ call'.raced = known.raced /\ call'.alone = known.alone
         /\ call'.reply = known.reply
<1> DEFINE rest == SubSeq(call.todo, n + 1, Len(call.todo))
<1>1. call.todo \in Seq(Steps) /\ Len(call.todo) \in Nat
  BY DEF CallOK, Calls
<1>2. /\ rest \in Seq(Steps) /\ rest # <<>> /\ Len(rest) = Len(call.todo) - n
      /\ Head(rest) = call.todo[n + 1]
      /\ \A i \in 1..Len(rest) : rest[i] = call.todo[n + i]
      /\ \A program \in Seq(Steps) : EndOf(call.todo, program) => EndOf(rest, program)
  BY <1>1, RestOfEnd
<1>3. call' = [known EXCEPT !.todo = rest] /\ failed' = failed
  BY <1>1 DEF GoOn
<1> HIDE DEF rest
<1>4. /\ call'.todo = rest /\ call'.edit = known.edit /\ call'.target = known.target
      /\ call'.bare = known.bare /\ call'.key = known.key
      /\ call'.placed = known.placed /\ call'.built = known.built
      /\ call'.copying = known.copying
      /\ call'.loaded = known.loaded /\ call'.mark = known.mark
      /\ call'.raced = known.raced /\ call'.alone = known.alone
      /\ call'.reply = known.reply
  BY <1>3 DEF Calls
<1>5. call' \in Calls
  BY <1>2, <1>3 DEF Calls
<1>6. Ahead("write")' => Ahead("write")
  <2> SUFFICES ASSUME NEW i \in 1..Len(call'.todo), call'.todo[i] = "write"
               PROVE  Ahead("write")
    BY DEF Ahead
  <2>1. call.todo[n + i] = "write"
    BY <1>2, <1>4
  <2>2. n + i \in 1..Len(call.todo)
    BY <1>1, <1>2, <1>4
  <2> QED BY <2>1, <2>2 DEF Ahead
<1>7. /\ EndOf(call.todo, ContextDelta) => EndOf(call'.todo, ContextDelta)
      /\ EndOf(call.todo, SchEdit) => EndOf(call'.todo, SchEdit)
  BY <1>2, <1>4, Query, Edit
<1> QED BY <1>2, <1>3, <1>4, <1>5, <1>6, <1>7 DEF Running

\* Where a call is in its program, by the step it is at.
LEMMA Stages ==
  ASSUME CallOK, Running
  PROVE  /\ call.todo \in Seq(Steps) /\ Len(call.todo) \in Nat
         /\ Doing("base") => Len(call.todo) > 1 /\ call.todo[2] = "check"
         /\ Doing("delta") => Len(call.todo) > 1 /\ call.todo[2] = "stat"
         /\ Doing("check") => Len(call.todo) > 1 /\ call.todo[2] = "stat"
         /\ Doing("stat") =>
              /\ Len(call.todo) > 3 /\ call.todo[2] = "positions"
              /\ call.todo[4] = "backup" \/ (call.todo[4] = "register" /\ Querying)
         /\ Doing("positions") => Len(call.todo) > 1 /\ call.todo[2] = "netlist"
         /\ Doing("netlist") =>
              /\ Len(call.todo) > 1
              /\ call.todo[2] = "backup" \/ (call.todo[2] = "register" /\ Querying)
         /\ Doing("register") => Len(call.todo) > 1 /\ call.todo[2] \in {"audit", "encode"}
         /\ Doing("audit") => Len(call.todo) = 1
         /\ Doing("encode") => Len(call.todo) = 1 /\ Querying
<1>1. call.todo \in Seq(Steps) /\ Len(call.todo) \in Nat /\ call.todo # <<>>
  BY DEF CallOK, Calls, Running
<1>2. CASE Querying
  BY <1>1, <1>2, QueryFollows DEF Querying, Doing
<1>3. CASE Editing
  <2>1. EndOf(call.todo, SchEdit)
    BY <1>3 DEF Editing
  <2>2. ~Doing("delta") /\ ~Doing("encode")
    BY <1>1, <2>1, EditFollows DEF Doing
  <2>3. /\ Doing("base") => Len(call.todo) > 1 /\ call.todo[2] = "check"
        /\ Doing("check") => Len(call.todo) > 1 /\ call.todo[2] = "stat"
        /\ Doing("stat") =>
             Len(call.todo) > 3 /\ call.todo[2] = "positions" /\ call.todo[4] = "backup"
        /\ Doing("positions") => Len(call.todo) > 1 /\ call.todo[2] = "netlist"
    BY <1>1, <2>1, EditFollows DEF Doing
  <2>4. /\ Doing("netlist") => Len(call.todo) > 1 /\ call.todo[2] = "backup"
        /\ Doing("register") => Len(call.todo) > 1 /\ call.todo[2] = "audit"
        /\ Doing("audit") => Len(call.todo) = 1
    BY <1>1, <2>1, EditFollows DEF Doing
  <2> QED BY <1>1, <2>2, <2>3, <2>4
<1> QED BY <1>2, <1>3 DEF CallOK

\* Where an edit stands, by its first step.
LEMMA EditStages ==
  ASSUME CallOK, Running
  PROVE  /\ Doing("backup") =>
              /\ Editing /\ Len(call.todo) = 8 /\ call.todo[2] = "copy" /\ call.todo[4] = "load"
         /\ Doing("copy") => Editing /\ Len(call.todo) = 7 /\ call.todo[2] = "git"
         /\ Doing("git") => Editing /\ Len(call.todo) = 6 /\ call.todo[2] = "load"
         /\ Doing("load") => Editing /\ Len(call.todo) = 5 /\ call.todo[2] = "write"
         /\ Doing("write") =>
              Editing /\ Len(call.todo) = 4 /\ call.todo[2] = "verify" /\ Ahead("write")
         /\ Doing("verify") => Editing /\ Len(call.todo) = 3 /\ call.todo[2] = "register"
<1>1. call.todo \in Seq(Steps) /\ Len(call.todo) \in Nat /\ call.todo # <<>>
  BY DEF CallOK, Calls, Running
<1>2. CASE Querying
  BY <1>1, <1>2, QueryFollows DEF Querying, Doing
<1>3. CASE Editing
  <2>1. EndOf(call.todo, SchEdit)
    BY <1>3 DEF Editing
  <2>2. Doing("write") => Ahead("write")
    BY <1>1 DEF Doing, Ahead
  <2> QED BY <1>1, <1>3, <2>1, <2>2, EditFollows DEF Doing
<1> QED BY <1>2, <1>3 DEF CallOK

\* A step that keeps to its call and to what the call was asked leaves it sound.
LEMMA GoesOn ==
  ASSUME CallOK, EditsOK, Running, UNCHANGED nextEdit, NEW n \in Nat, n < Len(call.todo),
         NEW known \in Calls, known.todo = call.todo, known.edit = call.edit,
         known.target = call.target, known.bare = call.bare,
         Made(known.loaded), known.mark <= nextEdit, GoOn(n, known)
  PROVE  /\ CallOK' /\ failed' = failed
         /\ Running' /\ Head(call'.todo) = call.todo[n + 1]
         /\ Len(call'.todo) = Len(call.todo) - n
         /\ call'.edit = call.edit /\ call'.target = call.target
         /\ call'.key = known.key /\ call'.placed = known.placed
         /\ call'.built = known.built /\ call'.copying = known.copying
         /\ call'.loaded = known.loaded
         /\ call'.mark = known.mark /\ call'.raced = known.raced
         /\ call'.alone = known.alone
<1>1. /\ call' \in Calls /\ failed' = failed
      /\ Running' /\ Head(call'.todo) = call.todo[n + 1]
      /\ Len(call'.todo) = Len(call.todo) - n
      /\ EndOf(call.todo, ContextDelta) => EndOf(call'.todo, ContextDelta)
      /\ EndOf(call.todo, SchEdit) => EndOf(call'.todo, SchEdit)
      /\ Ahead("write")' => Ahead("write")
      /\ call'.edit = call.edit /\ call'.target = call.target
      /\ call'.bare = call.bare /\ call'.key = known.key
      /\ call'.placed = known.placed /\ call'.built = known.built
      /\ call'.copying = known.copying
      /\ call'.loaded = known.loaded /\ call'.mark = known.mark
      /\ call'.raced = known.raced /\ call'.alone = known.alone
  BY Goes
<1>2. Querying' \/ Editing'
  BY <1>1 DEF CallOK, Querying, Editing
<1>3. Made(call.loaded)'
  BY <1>1 DEF Made
<1>4. CallOK'
  BY <1>1, <1>2, <1>3 DEF CallOK
<1> QED BY <1>1, <1>4

\* A step at which a call needs to know nothing yet.
LEMMA EarlyStep ==
  ASSUME CallOK', Head(call'.todo) \in {"base", "delta", "check", "stat"}
  PROVE  CallInv'
BY DEF CallInv, DoingOneOf, Doing, BackupSteps, LoadOK, ReadOK, AnswerOK

\* What is known of the files, the backup, the cache and the snapshots does not
\* depend on the call.
LEMMA StateKept ==
  ASSUME StateInv, UNCHANGED <<storeVars, sheets, session, nextEdit, late, own, torn, doubted>>,
         audit' \in SUBSET Edits, failed' \in SUBSET Edits
  PROVE  StateInv'
<1>1. /\ UNCHANGED <<entries, nextId, liveStale, liveStaleSnap, latestDiskMtimes, mtime, clock>>
      /\ UNCHANGED <<present, sheet, cache, states, backup, done, nextEdit, late, own, torn,
                     doubted>>
  BY DEF storeVars, sheets, session
<1>2. FilesOK'
  BY <1>1 DEF StateInv, FilesOK, StoreTypeOK, RetentionWindow
<1>3. EditsOK'
  BY <1>1 DEF StateInv, EditsOK, Made
<1>4. BackupOK'
  BY <1>1 DEF StateInv, BackupOK, ToBackUp, Made
<1>5. CacheOK'
  BY <1>1 DEF StateInv, CacheOK, TrueAt, Truth
<1>6. SnapsOK'
  BY <1>1 DEF StateInv, SnapsOK, RootMtimes, TellsAt, TrueAt, Truth, Settled,
     OneGuess
<1> QED BY <1>2, <1>3, <1>4, <1>5, <1>6 DEF StateInv

\* A call that fails changes nothing, and says so.
LEMMA Fails ==
  ASSUME SchInv, Running, NEW reply \in Replies \ {"OK"}, Return(reply), UNCHANGED Kept
  PROVE  SchInv'
<1>1. call' = Idle(reply) /\ failed' = failed \cup (own \cap {call.edit})
  BY DEF Return
<1>2. UNCHANGED <<storeVars, sheets, session, audit, nextEdit, late, own, torn, doubted>>
  BY DEF Kept
<1>3. audit' \in SUBSET Edits /\ failed' \in SUBSET Edits
  BY <1>1, <1>2 DEF SchInv, StateInv, EditsOK
<1>4. StateInv'
  BY <1>2, <1>3, StateKept DEF SchInv
<1>5. CallInv' /\ ~Running'
  BY <1>1, <1>4, Ends DEF StateInv
<1>6. AuditOrFailure'
  BY <1>1, <1>2, <1>5 DEF SchInv, AuditOrFailure
<1> QED BY <1>4, <1>5, <1>6 DEF SchInv

\* A refusal is not OK.
LEMMA FailureReplies ==
  /\ "FAILED" \in Replies \ {"OK"}
  /\ \A base : Refusal(base) \in Replies \ {"OK"}
BY DEF Replies, Refusal

\* A call that only reads, or looks, goes on.
LEMMA Carries ==
  ASSUME SchInv, Running, Running', UNCHANGED Kept, UNCHANGED failed, CallInv',
         call'.edit = call.edit
  PROVE  SchInv'
<1>1. UNCHANGED <<storeVars, sheets, session, audit, nextEdit, late, own, torn, doubted>>
  BY DEF Kept
<1>2. audit' \in SUBSET Edits /\ failed' \in SUBSET Edits
  BY <1>1 DEF SchInv, StateInv, EditsOK
<1>3. StateInv'
  BY <1>1, <1>2, StateKept DEF SchInv
<1>4. AuditOrFailure'
  BY <1>1 DEF SchInv, AuditOrFailure
<1> QED BY <1>3, <1>4 DEF SchInv

----------------------------------------------------------------------------
(* Steps of a tool call                                                    *)

\* What a step of a call may count on.
LEMMA AtStep ==
  ASSUME SchInv, Running
  PROVE  /\ CallOK /\ EditsOK /\ call \in Calls /\ Made(call.loaded)
         /\ call.mark <= nextEdit /\ nextEdit \in Nat
         /\ UNCHANGED Kept => UNCHANGED nextEdit
BY MaxEditsAssumption DEF SchInv, CallInv, StateInv, CallOK, EditsOK, Kept

\* A base is refused or accepted; it changes no file.
LEMMA CheckBaseStep == ASSUME SchInv, CheckBase PROVE SchInv'
<1>1. Running /\ Doing("base") /\ UNCHANGED Kept
  BY DEF CheckBase, Doing
<1>2. CASE Continue
  <2>1. Len(call.todo) > 1 /\ call.todo[2] = "check"
    BY <1>1, AtStep, Stages
  <2>2. /\ CallOK' /\ failed' = failed /\ Running' /\ Head(call'.todo) = "check"
        /\ call'.edit = call.edit
    BY <1>1, <1>2, <2>1, AtStep, GoesOn DEF Continue
  <2> QED BY <1>1, <2>2, EarlyStep, Carries
<1>3. CASE \E base \in Base : ~ValidBase(base) /\ Return(Refusal(base))
  BY <1>1, <1>3, FailureReplies, Fails
<1> QED BY <1>2, <1>3 DEF CheckBase

\* The same of the base of a delta.
LEMMA DeltaBaseStep == ASSUME SchInv, DeltaBase PROVE SchInv'
<1>1. Running /\ Doing("delta") /\ UNCHANGED Kept
  BY DEF DeltaBase, Doing
<1>2. CASE Continue
  <2>1. Len(call.todo) > 1 /\ call.todo[2] = "stat"
    BY <1>1, AtStep, Stages
  <2>2. /\ CallOK' /\ failed' = failed /\ Running' /\ Head(call'.todo) = "stat"
        /\ call'.edit = call.edit
    BY <1>1, <1>2, <2>1, AtStep, GoesOn DEF Continue
  <2> QED BY <1>1, <2>2, EarlyStep, Carries
<1>3. CASE \E base \in Base : ~ValidBase(base) /\ Return(Refusal(base))
  BY <1>1, <1>3, FailureReplies, Fails
<1> QED BY <1>2, <1>3 DEF DeltaBase

\* The validations only read the sheet.
LEMMA CheckStep == ASSUME SchInv, Check PROVE SchInv'
<1>1. Running /\ Doing("check") /\ UNCHANGED Kept
  BY DEF Check, Doing
<1> DEFINE known == [call EXCEPT !.loaded = sheet[call.target], !.mark = nextEdit]
<1>2. CASE GoOn(1, known)
  <2>1. Len(call.todo) > 1 /\ call.todo[2] = "stat"
    BY <1>1, AtStep, Stages
  <2>2. /\ known \in Calls /\ known.todo = call.todo /\ known.edit = call.edit
        /\ known.target = call.target /\ known.bare = call.bare
        /\ Made(known.loaded) /\ known.mark <= nextEdit
    <3>1. call \in Calls /\ sheet[call.target] \in Contents /\ Made(sheet[call.target])
          /\ nextEdit \in Nat
      BY <1>1, AtStep DEF EditsOK, Calls
    <3>2. known.loaded = sheet[call.target] /\ known.mark = nextEdit
      BY <3>1 DEF Calls
    <3>3. known \in Calls
      BY <3>1 DEF Calls
    <3>4. /\ known.todo = call.todo /\ known.edit = call.edit
          /\ known.target = call.target /\ known.bare = call.bare
      BY <3>1 DEF Calls
    <3> HIDE DEF known
    <3> QED BY <3>1, <3>2, <3>3, <3>4
  <2> HIDE DEF known
  <2>3. /\ CallOK' /\ failed' = failed /\ Running' /\ Head(call'.todo) = "stat"
        /\ call'.edit = call.edit
    BY <1>1, <1>2, <2>1, <2>2, AtStep, GoesOn
  <2> QED BY <1>1, <2>3, EarlyStep, Carries
<1>3. CASE MayFail
  BY <1>1, <1>3, FailureReplies, Fails DEF MayFail
<1> QED BY <1>2, <1>3 DEF Check

\* A call without an edit registers what it has built.
LEMMA PlainDerive ==
  ASSUME call'.edit = NoEdit
  PROVE  Derive' = call'.built
<1>1. call'.edit.shows = "nothing"
  BY DEF NoEdit
<1> QED BY <1>1 DEF Derive

\* Nothing is astray or made up in what a sheet tells.
LEMMA ViewSettled ==
  ASSUME NEW content
  PROVE  Settled(View(content)) = View(content) /\ OneGuess(View(content))
BY DEF Settled, OneGuess, View, Placed, Showing

\* Where a state is built, it is needed by what follows.
LEMMA StateBuilt ==
  ASSUME CallOK',
         \/ Head(call'.todo) = "backup"
         \/ Head(call'.todo) = "register" /\ call'.edit = NoEdit,
         ~call'.raced => call'.built = Truth'
  PROVE  CallInv'
<1>1. ASSUME Head(call'.todo) = "register", ~call'.raced
      PROVE  (Settled(Derive) = Truth /\ OneGuess(Derive))'
  <2>1. Derive' = Truth'
    BY <1>1, PlainDerive
  <2>2. Settled(Truth') = Truth' /\ OneGuess(Truth')
    BY ViewSettled DEF Truth
  <2> QED BY <2>1, <2>2 DEF Settled, OneGuess
<1>2. ReadOK'
  BY <1>1 DEF ReadOK, Doing, DoingOneOf
<1> QED BY <1>2 DEF CallInv, BackupSteps, LoadOK, AnswerOK, Doing

\* What the root schematic holds is a state.
LEMMA TruthType == EditsOK => Truth \in States /\ Placed(sheet[Root]) \in SUBSET Edits
BY DEF EditsOK, Truth, View, States, Placed, Listed, Showing, Contents, Sheets

\* The mtime is noted; a cached state for it is true, or was torn.
LEMMA StatStep == ASSUME SchInv, Stat PROVE SchInv'
<1>1. Running /\ Doing("stat") /\ UNCHANGED Kept
  BY DEF Stat, Doing
<1> DEFINE key == mtime[Root]
           raced == key \in torn
           miss == [call EXCEPT !.key = key, !.raced = raced]
           hit == [miss EXCEPT !.built = cache[key], !.key = 0]
<1>2. /\ Len(call.todo) > 3 /\ call.todo[2] = "positions"
      /\ call.todo[4] = "backup" \/ (call.todo[4] = "register" /\ Querying)
  BY <1>1, AtStep, Stages
<1>3. /\ call \in Calls /\ Made(call.loaded) /\ call.mark <= nextEdit
      /\ key \in 1..clock /\ clock \in Nat
  BY <1>1, AtStep DEF SchInv, StateInv, FilesOK, StoreTypeOK
<1>4. UNCHANGED <<mtime, clock, sheet>>
  BY <1>1 DEF Kept, storeVars, sheets
<1>a. raced \in BOOLEAN
  OBVIOUS
<1>5. CASE key \notin DOMAIN cache
  <2>1. GoOn(1, miss)
    BY <1>5 DEF Stat
  <2>2. /\ miss \in Calls /\ miss.todo = call.todo /\ miss.edit = call.edit
        /\ miss.target = call.target /\ miss.bare = call.bare
        /\ miss.loaded = call.loaded /\ miss.mark = call.mark /\ miss.key = key
    <3> HIDE DEF raced
    <3>1. key \in Nat
      BY <1>3
    <3> HIDE DEF key
    <3> QED BY <1>3, <1>a, <3>1 DEF Calls
  <2> HIDE DEF miss
  <2>3. Made(miss.loaded)
    BY <1>3, <2>2
  <2>4. /\ CallOK' /\ failed' = failed /\ Running' /\ Head(call'.todo) = "positions"
        /\ call'.edit = call.edit /\ call'.key = key
    BY <1>1, <1>2, <1>3, <2>1, <2>2, <2>3, AtStep, GoesOn
  <2>5. CallInv'
    BY <1>3, <1>4, <2>4
    DEF CallInv, BackupSteps, LoadOK, ReadOK, AnswerOK, Doing, DoingOneOf
  <2> QED BY <1>1, <2>4, <2>5, Carries
<1>6. CASE key \in DOMAIN cache
  <2>1. GoOn(3, hit)
    <3>1. Len(Build) = 3
      BY DEF Build
    <3> QED BY <1>6, <3>1 DEF Stat
  <2>2. cache[key] \in States /\ (TrueAt(key, cache[key]) \/ key \in torn)
    BY <1>6 DEF SchInv, StateInv, CacheOK
  <2>3. /\ hit \in Calls /\ hit.todo = call.todo /\ hit.edit = call.edit
        /\ hit.target = call.target /\ hit.bare = call.bare
        /\ hit.loaded = call.loaded /\ hit.mark = call.mark
        /\ hit.built = cache[key] /\ hit.raced = raced
    <3> HIDE DEF raced
    <3>1. key \in Nat
      BY <1>3
    <3> HIDE DEF key
    <3> QED BY <1>3, <1>a, <2>2, <3>1 DEF Calls
  <2> HIDE DEF hit
  <2>4. Made(hit.loaded)
    BY <1>3, <2>3
  <2>5. /\ CallOK' /\ failed' = failed /\ Running' /\ Head(call'.todo) = call.todo[4]
        /\ call'.edit = call.edit /\ call'.built = cache[key]
        /\ call'.raced = (key \in torn)
    BY <1>1, <1>2, <1>3, <2>1, <2>3, <2>4, AtStep, GoesOn
  <2>6. ~call'.raced => call'.built = Truth'
    BY <1>4, <2>2, <2>5 DEF TrueAt, Truth
  <2>7. CallInv'
    BY <1>2, <2>5, <2>6, StateBuilt DEF Querying
  <2> QED BY <1>1, <2>5, <2>7, Carries
<1> QED BY <1>5, <1>6

\* The first reading sees the sheet as it is at that moment.
LEMMA PositionsStep == ASSUME SchInv, Positions PROVE SchInv'
<1>1. Running /\ Doing("positions") /\ UNCHANGED Kept
  BY DEF Positions, Doing
<1> DEFINE known == [call EXCEPT !.placed = Placed(sheet[Root])]
<1>2. CASE GoOn(1, known)
  <2>1. Len(call.todo) > 1 /\ call.todo[2] = "netlist"
    BY <1>1, AtStep, Stages
  <2>2. /\ call \in Calls /\ Made(call.loaded) /\ call.mark <= nextEdit
        /\ Placed(sheet[Root]) \in SUBSET Edits
    BY <1>1, AtStep, TruthType
  <2>3. /\ known \in Calls /\ known.todo = call.todo /\ known.edit = call.edit
        /\ known.target = call.target /\ known.bare = call.bare
        /\ known.loaded = call.loaded /\ known.mark = call.mark /\ known.key = call.key
        /\ known.raced = call.raced /\ known.placed = Placed(sheet[Root])
    BY <2>2 DEF Calls
  <2> HIDE DEF known
  <2>4. Made(known.loaded)
    BY <2>2, <2>3
  <2>5. /\ CallOK' /\ failed' = failed /\ Running' /\ Head(call'.todo) = "netlist"
        /\ call'.edit = call.edit /\ call'.key = call.key /\ call'.raced = call.raced
        /\ call'.placed = Placed(sheet[Root])
    BY <1>1, <1>2, <2>1, <2>2, <2>3, <2>4, AtStep, GoesOn
  <2>6. UNCHANGED <<mtime, clock, sheet>>
    BY <1>1 DEF Kept, storeVars, sheets
  <2>7. call.key \in 1..clock /\ (~call.raced => call.key = mtime[Root])
    BY <1>1 DEF SchInv, CallInv, ReadOK
  <2>8. CallInv'
    BY <2>5, <2>6, <2>7
    DEF CallInv, BackupSteps, LoadOK, ReadOK, AnswerOK, Doing, DoingOneOf
  <2> QED BY <1>1, <2>5, <2>8, Carries
<1>3. CASE MayFail
  BY <1>1, <1>3, FailureReplies, Fails DEF MayFail
<1> QED BY <1>2, <1>3 DEF Positions

\* The two readings of a file agree on its symbols only if neither lacks any.
LEMMA Crossed ==
  ASSUME NEW content, Made(content),
         Symbols(Placed(content)) = Symbols(Listed(content) \ content.bare)
  PROVE  Listed(content) \ content.bare = Listed(content)
<1>1. ASSUME NEW e \in Listed(content), e \in content.bare PROVE FALSE
  <2>1. e.shows = "symbol" /\ e \in content.edits
    BY <1>1 DEF Made, Listed, Showing
  <2>2. e \in Symbols(Placed(content))
    BY <2>1 DEF Symbols, Placed, Showing
  <2>3. e \notin Symbols(Listed(content) \ content.bare)
    BY <1>1 DEF Symbols, Showing
  <2> QED BY <2>2, <2>3
<1> QED BY <1>1

\* A step that changes the cache only.
LEMMA CacheChanges ==
  ASSUME SchInv, Running, Running', CallInv', CacheOK', UNCHANGED failed,
         call'.edit = call.edit,
         UNCHANGED <<storeVars, sheets, states, backup, done, audit, nextEdit, late, own, doubted>>
  PROVE  SchInv'
<1>1. /\ UNCHANGED <<entries, nextId, liveStale, liveStaleSnap, latestDiskMtimes, mtime, clock>>
      /\ UNCHANGED <<present, sheet, states, backup, done, audit, nextEdit, late, own, doubted>>
  BY DEF storeVars, sheets
<1>2. FilesOK'
  BY <1>1 DEF SchInv, StateInv, FilesOK, StoreTypeOK, RetentionWindow
<1>3. EditsOK'
  BY <1>1 DEF SchInv, StateInv, EditsOK, Made
<1>4. BackupOK'
  BY <1>1 DEF SchInv, StateInv, BackupOK, ToBackUp, Made
<1>5. SnapsOK'
  BY <1>1 DEF SchInv, StateInv, SnapsOK, RootMtimes, TellsAt, TrueAt, Truth, Settled,
     OneGuess
<1>6. AuditOrFailure'
  BY <1>1 DEF SchInv, AuditOrFailure
<1> QED BY <1>2, <1>3, <1>4, <1>5, <1>6 DEF SchInv, StateInv

\* The second reading crosses with the first; if no write came between, the
\* state is true at the mtime noted.
LEMMA ReadNetlistStep == ASSUME SchInv, ReadNetlist PROVE SchInv'
<1>1. /\ Running /\ Doing("netlist")
      /\ UNCHANGED <<storeVars, sheets, states, backup, done, audit, nextEdit, late, own, doubted>>
  BY DEF ReadNetlist, Doing
<1> DEFINE listed == Listed(sheet[Root]) \ sheet[Root].bare
           state == [placed |-> call.placed, listed |-> listed, guessed |-> {}]
           known == [call EXCEPT !.built = state, !.placed = {}, !.key = 0]
<1>2. CASE /\ Symbols(call.placed) = Symbols(listed)
           /\ cache' = Put(cache, call.key, state)
           /\ torn' = IF call.raced THEN torn \cup {call.key} ELSE torn
           /\ GoOn(1, known)
  <2>1. /\ Len(call.todo) > 1
        /\ call.todo[2] = "backup" \/ (call.todo[2] = "register" /\ Querying)
    BY <1>1, AtStep, Stages
  <2>2. /\ call \in Calls /\ Made(call.loaded) /\ call.mark <= nextEdit
        /\ Made(sheet[Root]) /\ sheet[Root] \in Contents
    BY <1>1, AtStep DEF EditsOK, Sheets
  <2>3. state \in States
    BY <2>2 DEF Calls, Contents, States, Listed, Showing
  <2>4. /\ known \in Calls /\ known.todo = call.todo /\ known.edit = call.edit
        /\ known.target = call.target /\ known.bare = call.bare
        /\ known.loaded = call.loaded /\ known.mark = call.mark
        /\ known.raced = call.raced /\ known.built = state
    <3> HIDE DEF state
    <3> QED BY <2>2, <2>3 DEF Calls
  <2> HIDE DEF known
  <2>5. Made(known.loaded) /\ UNCHANGED nextEdit
    BY <1>1, <2>2, <2>4
  <2>6. /\ CallOK' /\ failed' = failed /\ Running' /\ Head(call'.todo) = call.todo[2]
        /\ call'.edit = call.edit /\ call'.raced = call.raced /\ call'.built = state
    BY <1>1, <1>2, <2>1, <2>2, <2>4, <2>5, AtStep, GoesOn
  <2>7. UNCHANGED <<mtime, clock, sheet, backup>>
    BY <1>1 DEF storeVars, sheets
  <2>8. call.key \in 1..clock
    BY <1>1 DEF SchInv, CallInv, ReadOK
  <2>9. ASSUME ~call.raced PROVE state = Truth /\ TrueAt(call.key, state)
    <3>1. call.key = mtime[Root] /\ call.placed = Placed(sheet[Root])
      BY <1>1, <2>9 DEF SchInv, CallInv, ReadOK
    <3>2. listed = Listed(sheet[Root])
      BY <1>2, <2>2, <3>1, Crossed
    <3>3. state = Truth
      BY <3>1, <3>2 DEF Truth, View
    <3>4. Root \in DOMAIN backup /\ backup[Root].mtime = mtime[Root]
            => backup[Root].content = sheet[Root]
      BY DEF SchInv, StateInv, FilesOK
    <3> HIDE DEF state
    <3> QED BY <3>1, <3>3, <3>4 DEF TrueAt, Truth
  <2> HIDE DEF state
  <2>10. CallInv'
    BY <2>1, <2>6, <2>7, <2>9, StateBuilt DEF Querying, Truth
  <2>11. /\ DOMAIN cache' = DOMAIN cache \cup {call.key}
         /\ cache'[call.key] = state
         /\ \A m \in DOMAIN cache \ {call.key} : cache'[m] = cache[m]
    BY <1>2 DEF Put
  <2>12. /\ DOMAIN cache \subseteq 1..clock /\ torn \subseteq Nat
         /\ \A m \in DOMAIN cache : cache[m] \in States /\ (TrueAt(m, cache[m]) \/ m \in torn)
    BY DEF SchInv, StateInv, CacheOK
  <2>13. clock \in Nat
    BY DEF SchInv, StateInv, FilesOK, StoreTypeOK
  <2>14. torn' \subseteq Nat /\ torn \subseteq torn' /\ (call.raced => call.key \in torn')
    <3>1. /\ torn' = IF call.raced THEN torn \cup {call.key} ELSE torn
          /\ torn \subseteq Nat /\ call.key \in Nat
      BY <1>2, <2>8, <2>12, <2>13
    <3> QED BY <3>1
  <2>15. ASSUME NEW m \in DOMAIN cache'
         PROVE  cache'[m] \in States /\ (TrueAt(m, cache[m])' \/ m \in torn')
    <3>1. TrueAt(m, cache[m])' <=> TrueAt(m, cache'[m])
      BY <2>7 DEF TrueAt, Truth
    <3>2. CASE m = call.key
      BY <2>3, <2>9, <2>11, <2>14, <3>1, <3>2
    <3>3. CASE m \in DOMAIN cache \ {call.key}
      BY <2>11, <2>12, <2>14, <3>1, <3>3
    <3> QED BY <2>11, <3>2, <3>3
  <2>16. CacheOK'
    BY <2>7, <2>8, <2>11, <2>12, <2>14, <2>15 DEF CacheOK
  <2> QED BY <1>1, <2>6, <2>10, <2>16, CacheChanges
<1>3. CASE /\ Return("FAILED")
           /\ UNCHANGED <<cache, torn>>
  <2>1. UNCHANGED Kept
    BY <1>1, <1>3 DEF Kept, session
  <2> QED BY <1>1, <1>3, <2>1, FailureReplies, Fails
<1> QED BY <1>2, <1>3 DEF ReadNetlist, MayFail

\* What a state tells does not depend on when it is asked.
LEMMA SettledKept ==
  ASSUME NEW m, UNCHANGED states, NEW i,
         TrueAt(m, Settled(states[i])) => TrueAt(m, Settled(states[i]))'
  PROVE  TellsAt(m, states[i]) => TellsAt(m, states[i])'
BY DEF TellsAt, OneGuess

\* A copy is of what the file holds and of its mtime, so that it agrees with
\* whatever is known of it.
LEMMA BackupTaken ==
  ASSUME SchInv, BackupOK', UNCHANGED failed,
         UNCHANGED <<storeVars, sheets, cache, states, audit, nextEdit, own, torn, doubted>>,
         late' \in SUBSET present,
         Root \in DOMAIN backup' =>
           \/ Root \in DOMAIN backup /\ backup'[Root] = backup[Root]
           \/ backup'[Root].content = sheet[Root] /\ backup'[Root].mtime = mtime[Root]
  PROVE  StateInv'
<1>1. /\ UNCHANGED <<entries, nextId, liveStale, liveStaleSnap, latestDiskMtimes, mtime, clock>>
      /\ UNCHANGED <<present, sheet, cache, states, audit, nextEdit, own, torn, doubted>>
  BY DEF storeVars, sheets
<1>2. FilesOK'
  BY <1>1 DEF SchInv, StateInv, FilesOK, StoreTypeOK, RetentionWindow
<1>3. EditsOK'
  BY <1>1 DEF SchInv, StateInv, EditsOK, Made
<1>4. ASSUME NEW m, NEW state, TrueAt(m, state) PROVE TrueAt(m, state)'
  <2>1. m = mtime'[Root] => state = Truth'
    BY <1>1, <1>4 DEF TrueAt, Truth
  <2>2. ASSUME Root \in DOMAIN backup', m = backup'[Root].mtime
        PROVE  state = View(backup'[Root].content)
    <3>1. CASE Root \in DOMAIN backup /\ backup'[Root] = backup[Root]
      BY <1>4, <2>2, <3>1 DEF TrueAt
    <3>2. CASE backup'[Root].content = sheet[Root] /\ backup'[Root].mtime = mtime[Root]
      BY <1>4, <2>2, <3>2 DEF TrueAt, Truth
    <3> QED BY <2>2, <3>1, <3>2
  <2> QED BY <2>1, <2>2 DEF TrueAt
<1>5. CacheOK'
  <2>1. /\ DOMAIN cache \subseteq 1..clock /\ torn \subseteq Nat
        /\ \A m \in DOMAIN cache : cache[m] \in States /\ (TrueAt(m, cache[m]) \/ m \in torn)
    BY DEF SchInv, StateInv, CacheOK
  <2>2. \A m \in DOMAIN cache : TrueAt(m, cache[m]) => TrueAt(m, cache[m])'
    BY <1>1, <1>4
  <2> QED BY <1>1, <2>1, <2>2 DEF CacheOK
<1>6. SnapsOK'
  <2>1. /\ DOMAIN states = DOMAIN entries /\ doubted \subseteq Nat
        /\ \A i \in DOMAIN entries : states[i] \in States
    BY DEF SchInv, StateInv, SnapsOK
  <2>2. ASSUME NEW i \in DOMAIN entries
        PROVE  \E m \in 1..clock : /\ entries[i].mtimes = {RootMtimes(m)}
                                   /\ TellsAt(m, states[i])' \/ i \in doubted
    <3>1. PICK m \in 1..clock : /\ entries[i].mtimes = {RootMtimes(m)}
                                /\ TellsAt(m, states[i]) \/ i \in doubted
      BY DEF SchInv, StateInv, SnapsOK
    <3>2. TellsAt(m, states[i]) => TellsAt(m, states[i])'
      BY <1>1, <1>4, SettledKept
    <3> QED BY <3>1, <3>2
  <2>3. \A m : RootMtimes(m)' = RootMtimes(m)
    BY DEF RootMtimes
  <2> QED BY <1>1, <2>1, <2>2, <2>3 DEF SnapsOK
<1> QED BY <1>2, <1>3, <1>5, <1>6 DEF StateInv

\* A backup begins only when none of this session is done.
LEMMA BackupStep == ASSUME SchInv, Backup PROVE SchInv'
<1>1. /\ Running /\ Doing("backup") /\ UNCHANGED done
      /\ UNCHANGED <<storeVars, sheets, cache, states, audit, nextEdit, own, torn, doubted>>
  BY DEF Backup, Doing
<1>2. Len(call.todo) = 8 /\ call.todo[2] = "copy" /\ call.todo[4] = "load"
  BY <1>1, AtStep, EditStages
<1>3. /\ call \in Calls /\ Made(call.loaded) /\ call.mark <= nextEdit /\ UNCHANGED nextEdit
      /\ ~call.raced => call.built = Truth
  BY <1>1, AtStep DEF SchInv, CallInv, ReadOK, DoingOneOf, Doing
<1>4. UNCHANGED <<mtime, clock, present, sheet>>
  BY <1>1 DEF storeVars, sheets
<1>5. CASE done
  <2>1. GoOn(3, call) /\ UNCHANGED <<backup, late>>
    <3>1. Len(SessionBackup) = 3
      BY DEF SessionBackup
    <3> QED BY <1>5, <3>1 DEF Backup
  <2>2. /\ CallOK' /\ failed' = failed /\ Running' /\ Head(call'.todo) = "load"
        /\ call'.edit = call.edit /\ call'.built = call.built /\ call'.raced = call.raced
    <3>1. 3 \in Nat /\ 3 < Len(call.todo) /\ call.todo[3 + 1] = "load"
      BY <1>2
    <3>2. CallOK /\ EditsOK /\ Running
      BY <1>1, AtStep
    <3>3. /\ CallOK' /\ failed' = failed /\ Running' /\ Head(call'.todo) = call.todo[3 + 1]
          /\ call'.edit = call.edit /\ call'.built = call.built /\ call'.raced = call.raced
      BY <1>3, <2>1, <3>1, <3>2, GoesOn
    <3> QED BY <3>1, <3>3
  <2>3. CallInv'
    BY <1>1, <1>3, <1>4, <1>5, <2>2
    DEF CallInv, BackupSteps, LoadOK, ReadOK, AnswerOK, Doing, DoingOneOf, Truth
  <2>4. UNCHANGED Kept
    BY <1>1, <2>1 DEF Kept, session
  <2> QED BY <1>1, <2>2, <2>3, <2>4, Carries
<1>6. CASE ~done
  <2> DEFINE known == [call EXCEPT !.copying = present \ Below]
  <2>1. GoOn(1, known) /\ backup' = NoBackup /\ late' = {}
    BY <1>6 DEF Backup
  <2>2. /\ known \in Calls /\ known.todo = call.todo /\ known.edit = call.edit
        /\ known.target = call.target /\ known.bare = call.bare
        /\ known.loaded = call.loaded /\ known.mark = call.mark
        /\ known.built = call.built /\ known.raced = call.raced
        /\ known.copying = present \ Below
    <3>1. present \ Below \in SUBSET Sheets
      BY DEF SchInv, StateInv, EditsOK
    <3> QED BY <1>3, <3>1 DEF Calls
  <2> HIDE DEF known
  <2>3. Made(known.loaded) /\ known.mark <= nextEdit /\ 1 < Len(call.todo)
    BY <1>2, <1>3, <2>2
  <2>4. /\ CallOK' /\ failed' = failed /\ Running' /\ Head(call'.todo) = call.todo[1 + 1]
        /\ call'.edit = call.edit /\ call'.built = call.built /\ call'.raced = call.raced
        /\ call'.copying = present \ Below
    BY <1>1, <1>3, <2>1, <2>2, <2>3, AtStep, GoesOn
  <2>5. Head(call'.todo) = "copy"
    BY <1>2, <2>4
  <2>6. DOMAIN backup' = {} /\ ToBackUp' \subseteq call'.copying
    BY <1>4, <2>1, <2>4 DEF NoBackup, ToBackUp
  <2>7. CallInv'
    BY <1>1, <1>3, <1>4, <1>6, <2>4, <2>5, <2>6
    DEF CallInv, BackupSteps, LoadOK, ReadOK, AnswerOK, Doing, DoingOneOf, Truth
  <2>8. BackupOK'
    BY <1>1, <1>6, <2>6 DEF SchInv, StateInv, BackupOK
  <2>9. StateInv'
    BY <1>1, <2>1, <2>4, <2>6, <2>8, BackupTaken
  <2>10. AuditOrFailure'
    BY <1>1, <2>4 DEF SchInv, AuditOrFailure
  <2> QED BY <2>7, <2>9, <2>10 DEF SchInv
<1> QED BY <1>5, <1>6

\* A copy holds what the sheet has, which no edit of the session is in.
LEMMA CopySheetStep == ASSUME SchInv, CopySheet PROVE SchInv'
<1>1. /\ Running /\ Doing("copy") /\ UNCHANGED <<done, late>>
      /\ UNCHANGED <<storeVars, sheets, cache, states, audit, nextEdit, own, torn, doubted>>
  BY DEF CopySheet, Doing
<1>2. /\ call \in Calls /\ CallOK /\ Made(call.loaded) /\ call.mark <= nextEdit
      /\ UNCHANGED nextEdit
      /\ ~call.raced => call.built = Truth
      /\ ~done /\ ToBackUp \subseteq DOMAIN backup \cup call.copying
      /\ Len(call.todo) = 7 /\ call.todo[2] = "git"
  BY <1>1, AtStep, EditStages DEF SchInv, CallInv, BackupSteps, ReadOK, DoingOneOf, Doing
<1>3. UNCHANGED <<mtime, clock, present, sheet>>
  BY <1>1 DEF storeVars, sheets
<1>4. ToBackUp' = ToBackUp
  BY <1>1, <1>3 DEF ToBackUp
<1>5. CASE MayFail /\ UNCHANGED backup
  <2>1. UNCHANGED Kept
    BY <1>1, <1>5 DEF Kept, session
  <2> QED BY <1>1, <1>5, <2>1, FailureReplies, Fails DEF MayFail
<1>6. CASE call.copying = {} /\ Continue /\ UNCHANGED backup
  <2>1. GoOn(1, call) /\ 1 < Len(call.todo)
    BY <1>2, <1>6 DEF Continue
  <2>2. /\ CallOK' /\ failed' = failed /\ Running' /\ Head(call'.todo) = call.todo[1 + 1]
        /\ call'.edit = call.edit /\ call'.built = call.built /\ call'.raced = call.raced
    BY <1>1, <1>2, <2>1, AtStep, GoesOn
  <2>3. Head(call'.todo) = "git"
    BY <1>2, <2>2
  <2>4. CallInv'
    BY <1>1, <1>2, <1>3, <1>4, <1>6, <2>2, <2>3
    DEF CallInv, BackupSteps, LoadOK, ReadOK, AnswerOK, Doing, DoingOneOf, Truth
  <2>5. UNCHANGED Kept
    BY <1>1, <1>6 DEF Kept, session
  <2> QED BY <1>1, <2>2, <2>4, <2>5, Carries
<1>7. ASSUME NEW s \in call.copying,
             backup' = Put(backup, s, [content |-> sheet[s], mtime |-> mtime[Root]]),
             call' = [call EXCEPT !.copying = @ \ {s}], UNCHANGED failed
      PROVE  SchInv'
  <2>1. /\ call' \in Calls /\ call'.todo = call.todo /\ call'.edit = call.edit
        /\ call'.target = call.target /\ call'.bare = call.bare
        /\ call'.loaded = call.loaded /\ call'.mark = call.mark
        /\ call'.built = call.built /\ call'.raced = call.raced
        /\ call'.copying = call.copying \ {s}
    BY <1>2, <1>7 DEF Calls
  <2>2. s \in Sheets
    BY <1>2, <1>7 DEF Calls
  <2>3. Running' /\ Head(call'.todo) = "copy"
    BY <1>1, <2>1 DEF Running, Doing
  <2>4. CallOK'
    BY <1>2, <2>1 DEF CallOK, Querying, Editing, Ahead, Made
  <2>5. /\ DOMAIN backup' = DOMAIN backup \cup {s}
        /\ backup'[s] = [content |-> sheet[s], mtime |-> mtime[Root]]
        /\ \A r \in DOMAIN backup \ {s} : backup'[r] = backup[r]
    BY <1>7 DEF Put
  <2>6. ToBackUp' \subseteq DOMAIN backup' \cup call'.copying
    BY <1>2, <1>4, <2>1, <2>5
  <2>7. CallInv'
    BY <1>1, <1>2, <1>3, <2>1, <2>3, <2>4, <2>6
    DEF CallInv, BackupSteps, LoadOK, ReadOK, AnswerOK, Doing, DoingOneOf, Truth
  <2>8. BackupOK'
    <3>1. /\ own = {} /\ DOMAIN backup \subseteq Sheets /\ done \in BOOLEAN
          /\ \A r \in DOMAIN backup : /\ Made(backup[r].content)
                                      /\ backup[r].mtime \in 1..clock
                                      /\ backup[r].content.edits \subseteq sheet[r].edits
      BY <1>2 DEF SchInv, StateInv, BackupOK
    <3>2. Made(sheet[s]) /\ mtime[Root] \in 1..clock
      BY <2>2 DEF SchInv, StateInv, EditsOK, FilesOK
    <3>3. ASSUME NEW r \in DOMAIN backup'
          PROVE  /\ Made(backup'[r].content)
                 /\ backup'[r].mtime \in 1..clock
                 /\ backup'[r].content.edits \subseteq sheet[r].edits
      <4>1. CASE r = s
        BY <2>5, <3>2, <4>1
      <4>2. CASE r \in DOMAIN backup \ {s}
        BY <2>5, <3>1, <4>2
      <4> QED BY <2>5, <4>1, <4>2
    <3>4. \A r \in DOMAIN backup' : Made(backup[r].content)'
      BY <1>2, <3>3 DEF Made
    <3> QED BY <1>1, <1>2, <1>3, <2>2, <2>5, <3>1, <3>3, <3>4 DEF BackupOK
  <2>9. late' \in SUBSET present
    BY <1>1 DEF SchInv, StateInv, EditsOK
  <2>10. StateInv'
    <3>1. CASE s = Root
      BY <1>1, <1>7, <2>5, <2>8, <2>9, <3>1, BackupTaken
    <3>2. CASE s # Root
      BY <1>1, <1>7, <2>5, <2>8, <2>9, <3>2, BackupTaken
    <3> QED BY <3>1, <3>2
  <2>11. AuditOrFailure'
    BY <1>1, <1>7, <2>1, <2>3 DEF SchInv, AuditOrFailure
  <2> QED BY <2>7, <2>10, <2>11 DEF SchInv
<1> QED BY <1>5, <1>6, <1>7 DEF CopySheet

\* With the checkpoint the backup is done, and what it has to hold is in it.
LEMMA CheckpointStep == ASSUME SchInv, Checkpoint PROVE SchInv'
<1>1. /\ Running /\ Doing("git") /\ UNCHANGED <<backup, late>>
      /\ UNCHANGED <<storeVars, sheets, cache, states, audit, nextEdit, own, torn, doubted>>
  BY DEF Checkpoint, Doing
<1>2. CASE MayFail /\ UNCHANGED done
  <2>1. UNCHANGED Kept
    BY <1>1, <1>2 DEF Kept, session
  <2> QED BY <1>1, <1>2, <2>1, FailureReplies, Fails DEF MayFail
<1>3. CASE Continue /\ done' = TRUE
  <2>1. Len(call.todo) = 6 /\ call.todo[2] = "load"
    BY <1>1, AtStep, EditStages
  <2>2. /\ call \in Calls /\ Made(call.loaded) /\ call.mark <= nextEdit /\ UNCHANGED nextEdit
        /\ ~call.raced => call.built = Truth
        /\ ToBackUp \subseteq DOMAIN backup
    BY <1>1, AtStep DEF SchInv, CallInv, ReadOK, BackupSteps, DoingOneOf, Doing
  <2>3. UNCHANGED <<mtime, clock, present, sheet>>
    BY <1>1 DEF storeVars, sheets
  <2>4. /\ CallOK' /\ failed' = failed /\ Running' /\ Head(call'.todo) = "load"
        /\ call'.edit = call.edit /\ call'.built = call.built /\ call'.raced = call.raced
    BY <1>1, <1>3, <2>1, <2>2, AtStep, GoesOn DEF Continue
  <2>5. CallInv'
    BY <1>3, <2>2, <2>3, <2>4
    DEF CallInv, BackupSteps, LoadOK, ReadOK, AnswerOK, Doing, DoingOneOf, Truth
  <2>6. BackupOK'
    BY <1>1, <1>3, <2>2, <2>3 DEF SchInv, StateInv, BackupOK, ToBackUp, Made
  <2>7. StateInv'
    <3>1. late' \in SUBSET present
      BY <1>1 DEF SchInv, StateInv, EditsOK
    <3> QED BY <1>1, <2>4, <2>6, <3>1, BackupTaken
  <2>8. AuditOrFailure'
    BY <1>1, <2>4 DEF SchInv, AuditOrFailure
  <2> QED BY <2>5, <2>7, <2>8 DEF SchInv
<1> QED BY <1>2, <1>3 DEF Checkpoint

\* What is loaded is the sheet at that moment.
LEMMA LoadStep == ASSUME SchInv, Load PROVE SchInv'
<1>1. Running /\ Doing("load") /\ UNCHANGED Kept
  BY DEF Load, Doing
<1> DEFINE known == [call EXCEPT !.loaded = sheet[call.target], !.mark = nextEdit]
<1>2. CASE GoOn(1, known)
  <2>1. 1 < Len(call.todo) /\ call.todo[2] = "write"
    BY <1>1, AtStep, EditStages
  <2>2. /\ call \in Calls /\ call.target \in Sheets /\ nextEdit \in Nat
        /\ sheet[call.target] \in Contents /\ Made(sheet[call.target])
        /\ UNCHANGED nextEdit
    BY <1>1, AtStep DEF EditsOK, Calls
  <2>3. /\ known \in Calls /\ known.todo = call.todo /\ known.edit = call.edit
        /\ known.target = call.target /\ known.bare = call.bare
        /\ known.loaded = sheet[call.target] /\ known.mark = nextEdit
        /\ known.built = call.built /\ known.raced = call.raced
    BY <2>2 DEF Calls
  <2> HIDE DEF known
  <2>4. Made(known.loaded) /\ known.mark <= nextEdit
    BY <2>2, <2>3
  <2>5. /\ CallOK' /\ failed' = failed /\ Running' /\ Head(call'.todo) = "write"
        /\ call'.edit = call.edit /\ call'.target = call.target
        /\ call'.loaded = sheet[call.target] /\ call'.raced = call.raced
        /\ call'.built = call.built
    BY <1>1, <1>2, <2>1, <2>2, <2>3, <2>4, AtStep, GoesOn
  <2>6. UNCHANGED <<mtime, clock, sheet, backup, done>>
    BY <1>1 DEF Kept, storeVars, sheets, session
  <2>7. done /\ (~call.raced => call.built = Truth)
    BY <1>1 DEF SchInv, CallInv, BackupSteps, ReadOK, DoingOneOf, Doing
  <2>8. call.target \in DOMAIN backup =>
          backup[call.target].content.edits \subseteq sheet[call.target].edits
    BY DEF SchInv, StateInv, BackupOK
  <2>9. LoadOK'
    BY <2>5, <2>6, <2>8 DEF LoadOK
  <2>10. CallInv'
    BY <2>5, <2>6, <2>7, <2>9
    DEF CallInv, BackupSteps, ReadOK, AnswerOK, Doing, DoingOneOf, Truth
  <2> QED BY <1>1, <2>5, <2>10, Carries
<1>3. CASE MayFail
  BY <1>1, <1>3, FailureReplies, Fails DEF MayFail
<1> QED BY <1>2, <1>3 DEF Load

\* The state a call will register depends on its edit and on what it has built.
LEMMA DeriveKept ==
  ASSUME call'.edit = call.edit, call'.built = call.built
  PROVE  Derive' = Derive
BY DEF Derive, DeriveSch, DeriveConnect, DeriveSetValue

\* The verification may find the call failed, but the edit is in the sheet.
LEMMA VerifyStep == ASSUME SchInv, Verify PROVE SchInv'
<1>1. Running /\ Doing("verify") /\ UNCHANGED Kept
  BY DEF Verify, Doing
<1>2. CASE Continue
  <2>1. 1 < Len(call.todo) /\ call.todo[2] = "register"
    BY <1>1, AtStep, EditStages
  <2>2. /\ CallOK' /\ failed' = failed /\ Running' /\ Head(call'.todo) = "register"
        /\ call'.edit = call.edit /\ call'.target = call.target
        /\ call'.built = call.built /\ call'.raced = call.raced
    BY <1>1, <1>2, <2>1, AtStep, GoesOn DEF Continue
  <2>3. Derive' = Derive
    BY <2>2, DeriveKept
  <2>4. ~call.raced => Settled(Derive) = Truth /\ OneGuess(Derive)
    BY <1>1 DEF SchInv, CallInv, ReadOK
  <2>5. Truth' = Truth
    BY <1>1 DEF Kept, sheets, Truth
  <2>6. ~call.raced => (Settled(Derive) = Truth /\ OneGuess(Derive))'
    BY <2>3, <2>4, <2>5 DEF Settled, OneGuess
  <2>7. ReadOK'
    BY <2>2, <2>6 DEF ReadOK, Doing, DoingOneOf
  <2>8. CallInv'
    BY <2>2, <2>7 DEF CallInv, BackupSteps, LoadOK, AnswerOK, Doing
  <2> QED BY <1>1, <2>2, <2>8, Carries
<1>3. CASE Return("FAILED")
  BY <1>1, <1>3, FailureReplies, Fails
<1> QED BY <1>2, <1>3 DEF Verify, MayFail

\* An answer changes nothing but the call.
LEMMA EncodeStep == ASSUME SchInv, Encode PROVE SchInv'
<1>1. Running /\ Doing("encode") /\ UNCHANGED Kept
  BY DEF Encode, Doing
<1>2. CASE Continue
  <2>1. Len(call.todo) = 1 /\ call.edit = NoEdit
    BY <1>1, AtStep, Stages DEF Querying
  <2>2. call' = Idle("OK") /\ failed' = failed
    BY <1>2, <2>1 DEF Continue, GoOn, Return
  <2>3. UNCHANGED <<storeVars, sheets, session, audit, nextEdit, late, own, torn, doubted>>
    BY <1>1 DEF Kept
  <2>4. audit' \in SUBSET Edits /\ failed' \in SUBSET Edits
    BY <2>2, <2>3 DEF SchInv, StateInv, EditsOK
  <2>5. StateInv'
    BY <2>3, <2>4, StateKept DEF SchInv
  <2>6. CallInv' /\ ~Running'
    BY <2>2, <2>5, Ends DEF StateInv, Replies
  <2>7. NoEdit \notin own
    BY MaxEditsAssumption DEF SchInv, StateInv, EditsOK, NoEdit
  <2>8. AuditOrFailure'
    BY <1>1, <2>1, <2>2, <2>3, <2>6, <2>7 DEF SchInv, AuditOrFailure
  <2> QED BY <2>5, <2>6, <2>8 DEF SchInv
<1>3. CASE MayFail
  BY <1>1, <1>3, FailureReplies, Fails DEF MayFail
<1> QED BY <1>2, <1>3 DEF Encode

\* The line is written, or the call says that it failed.
LEMMA AuditStep == ASSUME SchInv, Audit PROVE SchInv'
<1>1. /\ Running /\ Doing("audit")
      /\ UNCHANGED <<storeVars, sheets, session, nextEdit, late, own, torn, doubted>>
  BY DEF Audit, Doing
<1>2. CASE Continue /\ audit' = audit \cup {call.edit}
  <2>1. Len(call.todo) = 1 /\ call.edit \in Edits
    BY <1>1, AtStep, Stages DEF Calls
  <2>2. call' = Idle("OK") /\ failed' = failed
    BY <1>2, <2>1 DEF Continue, GoOn, Return
  <2>3. audit' \in SUBSET Edits /\ failed' \in SUBSET Edits
    BY <1>2, <2>1, <2>2 DEF SchInv, StateInv, EditsOK
  <2>4. StateInv'
    BY <1>1, <2>3, StateKept DEF SchInv
  <2>5. CallInv' /\ ~Running'
    BY <2>2, <2>4, Ends DEF StateInv, Replies
  <2>6. AuditOrFailure'
    BY <1>1, <1>2, <2>2, <2>5 DEF SchInv, AuditOrFailure
  <2> QED BY <2>4, <2>5, <2>6 DEF SchInv
<1>3. CASE MayFail /\ UNCHANGED audit
  <2>1. UNCHANGED Kept
    BY <1>1, <1>3 DEF Kept
  <2> QED BY <1>1, <1>3, <2>1, FailureReplies, Fails DEF MayFail
<1> QED BY <1>2, <1>3 DEF Audit

----------------------------------------------------------------------------
(* Writing a sheet                                                         *)

\* How the root schematic may change: not at all, with an mtime never seen
\* before, or to what the backup holds, mtime included.
RootChange ==
  \/ UNCHANGED files /\ sheet'[Root] = sheet[Root]
  \/ Write(Root)
  \/ /\ Root \in DOMAIN backup /\ sheet'[Root] = backup[Root].content
     /\ mtime' = [mtime EXCEPT ![Root] = backup[Root].mtime] /\ UNCHANGED clock

\* No such change makes anything that was known untrue: what is known of an
\* mtime stays true of the content that had it.
LEMMA NothingBecomesUntrue ==
  ASSUME SchInv, RootChange, UNCHANGED <<memory, cache, states, backup, torn, doubted>>
  PROVE  FilesOK' /\ CacheOK' /\ SnapsOK' /\ clock' \in Nat /\ clock' >= clock
<1>1. /\ UNCHANGED <<entries, nextId, liveStale, liveStaleSnap, latestDiskMtimes>>
      /\ UNCHANGED <<cache, states, backup, torn, doubted>>
  BY DEF memory
<1>2. /\ mtime \in [Files -> Nat] /\ clock \in Nat \ {0} /\ Root \in Files
      /\ mtime[Root] \in 1..clock
      /\ Root \in DOMAIN backup => backup[Root].mtime \in 1..clock
      /\ Root \in DOMAIN backup /\ backup[Root].mtime = mtime[Root]
           => backup[Root].content = sheet[Root]
  BY SheetsAssumption DEF SchInv, StateInv, FilesOK, StoreTypeOK, BackupOK
<1>3. /\ mtime' \in [Files -> Nat] /\ clock' \in Nat \ {0} /\ clock' >= clock
      /\ mtime'[Root] \in 1..clock'
      /\ \/ mtime'[Root] = mtime[Root] /\ sheet'[Root] = sheet[Root]
         \/ mtime'[Root] = clock + 1
         \/ /\ Root \in DOMAIN backup /\ sheet'[Root] = backup[Root].content
            /\ mtime'[Root] = backup[Root].mtime
  <2>1. CASE UNCHANGED files /\ sheet'[Root] = sheet[Root]
    BY <1>2, <2>1 DEF files
  <2>2. CASE Write(Root)
    BY <1>2, <2>2 DEF Write
  <2>3. CASE /\ Root \in DOMAIN backup /\ sheet'[Root] = backup[Root].content
             /\ mtime' = [mtime EXCEPT ![Root] = backup[Root].mtime] /\ UNCHANGED clock
    BY <1>2, <2>3
  <2> QED BY <2>1, <2>2, <2>3 DEF RootChange
<1>4. FilesOK'
  <2>1. StoreTypeOK' /\ RetentionWindow'
    BY <1>1, <1>3 DEF SchInv, StateInv, FilesOK, StoreTypeOK, RetentionWindow
  <2>2. Root \in DOMAIN backup /\ backup[Root].mtime = mtime'[Root]
          => backup[Root].content = sheet'[Root]
    BY <1>2, <1>3
  <2> QED BY <1>1, <1>3, <2>1, <2>2 DEF FilesOK
<1>5. ASSUME NEW m \in 1..clock, NEW state, TrueAt(m, state) PROVE TrueAt(m, state)'
  <2>1. m = mtime'[Root] => state = Truth'
    <3>1. m # clock + 1
      BY <1>2
    <3>2. /\ m = mtime[Root] => state = View(sheet[Root])
          /\ Root \in DOMAIN backup /\ m = backup[Root].mtime
               => state = View(backup[Root].content)
      BY <1>5 DEF TrueAt, Truth
    <3> QED BY <1>3, <3>1, <3>2 DEF Truth
  <2> QED BY <1>1, <1>5, <2>1 DEF TrueAt
<1>6. 1..clock \subseteq 1..clock'
  BY <1>2, <1>3
<1>7. CacheOK'
  <2>1. /\ DOMAIN cache \subseteq 1..clock /\ torn \subseteq Nat
        /\ \A m \in DOMAIN cache : cache[m] \in States /\ (TrueAt(m, cache[m]) \/ m \in torn)
    BY DEF SchInv, StateInv, CacheOK
  <2>2. \A m \in DOMAIN cache : TrueAt(m, cache[m]) => TrueAt(m, cache[m])'
    BY <1>1, <1>5, <2>1
  <2> QED BY <1>1, <1>6, <2>1, <2>2 DEF CacheOK
<1>8. SnapsOK'
  <2>1. /\ DOMAIN states = DOMAIN entries /\ doubted \subseteq Nat
        /\ \A i \in DOMAIN entries : states[i] \in States
    BY DEF SchInv, StateInv, SnapsOK
  <2>2. ASSUME NEW i \in DOMAIN entries
        PROVE  \E m \in 1..clock' : /\ entries[i].mtimes = {RootMtimes(m)}
                                    /\ TellsAt(m, states[i])' \/ i \in doubted
    <3>1. PICK m \in 1..clock : /\ entries[i].mtimes = {RootMtimes(m)}
                                /\ TellsAt(m, states[i]) \/ i \in doubted
      BY DEF SchInv, StateInv, SnapsOK
    <3>2. TellsAt(m, states[i]) => TellsAt(m, states[i])'
      BY <1>1, <1>5, SettledKept
    <3> QED BY <1>6, <3>1, <3>2
  <2>3. \A m : RootMtimes(m)' = RootMtimes(m)
    BY DEF RootMtimes
  <2> QED BY <1>1, <2>1, <2>2, <2>3 DEF SnapsOK
<1> QED BY <1>3, <1>4, <1>7, <1>8

\* A call that somebody disturbs still knows what it is doing: it was racing
\* with a writer of the root schematic, or nothing it has read has changed.
LEMMA Disturbed ==
  ASSUME SchInv, NEW s \in Sheets, Disturb(s),
         nextEdit' \in Nat, nextEdit' >= nextEdit, Ahead("write") => nextEdit' <= MaxEdits,
         clock' \in Nat, clock' >= clock, UNCHANGED backup, ToBackUp' \subseteq ToBackUp,
         s # Root => UNCHANGED <<mtime, clock>> /\ sheet'[Root] = sheet[Root],
         \A r \in Sheets : \A e \in sheet'[r].edits :
           \/ e \in sheet[r].edits
           \/ e.n \in Nat /\ e.n >= nextEdit
           \/ r \in DOMAIN backup /\ e \in backup[r].content.edits
  PROVE  CallInv' /\ (Running' <=> Running) /\ call'.edit = call.edit
<1> DEFINE raced == call.raced \/ s = Root
<1>1. /\ UNCHANGED done /\ CallInv /\ CallOK /\ call \in Calls /\ nextEdit \in Nat
      /\ Made(call.loaded) /\ call.edit.n < nextEdit /\ call.mark <= nextEdit
      /\ clock \in Nat
  BY MaxEditsAssumption
  DEF Disturb, session, SchInv, CallInv, CallOK, StateInv, EditsOK, FilesOK, StoreTypeOK
<1>2. Made(call.loaded)' <=> /\ call'.loaded \in Contents
                             /\ \A e \in call'.loaded.edits : e.n < nextEdit'
                             /\ \A e \in call'.loaded.bare : e.shows = "symbol"
  BY DEF Made
<1>3. /\ \A e \in call.loaded.edits : e.n < nextEdit'
      /\ call.edit.n < nextEdit' /\ call.mark <= nextEdit'
  <2>1. call.edit.n \in Nat /\ call.mark \in Nat
        /\ \A e \in call.loaded.edits : e.n \in Nat /\ e.n < nextEdit
    BY <1>1, MaxEditsAssumption DEF Made, Contents, Calls, Edits
  <2> QED BY <1>1, <2>1
<1>4. CASE Running
  <2>1. call' = [call EXCEPT !.alone = FALSE, !.raced = raced]
    BY <1>4 DEF Disturb
  <2>2. raced \in BOOLEAN /\ FALSE \in BOOLEAN
    BY <1>1 DEF Calls
  <2>3. raced <=> (call.raced \/ s = Root)
    OBVIOUS
  <2> HIDE DEF raced
  <2>4. /\ call' \in Calls /\ call'.todo = call.todo /\ call'.edit = call.edit
        /\ call'.target = call.target /\ call'.bare = call.bare /\ call'.key = call.key
        /\ call'.placed = call.placed /\ call'.built = call.built
        /\ call'.copying = call.copying
        /\ call'.loaded = call.loaded /\ call'.mark = call.mark
        /\ call'.raced = raced /\ call'.alone = FALSE
    BY <1>1, <2>1, <2>2 DEF Calls
  <2>5. Running' /\ \A step : Doing(step)' <=> Doing(step)
    BY <1>4, <2>4 DEF Running, Doing
  <2>6. CallOK'
    BY <1>1, <1>2, <1>3, <2>4 DEF CallOK, Querying, Editing, Ahead, Made
  <2>7. BackupSteps'
    BY <1>1, <2>4, <2>5 DEF CallInv, BackupSteps
  <2>8. ASSUME ~raced PROVE ~call.raced /\ UNCHANGED <<mtime, clock>> /\ Truth' = Truth
                            /\ sheet'[Root] = sheet[Root]
    BY <2>3, <2>8 DEF Truth
  <2>9. LoadOK'
    <3> SUFFICES ASSUME Doing("write")
                 PROVE  /\ \A e \in sheet'[call.target].edits :
                             e \in call.loaded.edits \/ e.n >= call.mark
                        /\ call.target \in DOMAIN backup =>
                             backup[call.target].content.edits \subseteq call.loaded.edits
                        /\ ~raced /\ call.target = Root
                             => call.loaded.edits = sheet'[Root].edits
      BY <2>4, <2>5 DEF LoadOK
    <3>1. /\ \A e \in sheet[call.target].edits : e \in call.loaded.edits \/ e.n >= call.mark
          /\ call.target \in DOMAIN backup =>
               backup[call.target].content.edits \subseteq call.loaded.edits
          /\ ~call.raced /\ call.target = Root => call.loaded.edits = sheet[Root].edits
      BY <1>1 DEF CallInv, LoadOK
    <3>2. ASSUME NEW e \in sheet'[call.target].edits, e.n \in Nat, e.n >= nextEdit
          PROVE  e.n >= call.mark
      <4>1. call.target \in Sheets /\ call.mark \in Nat /\ call.mark <= nextEdit
        BY <1>1 DEF Calls
      <4> QED BY <1>1, <3>2, <4>1
    <3>3. call.target \in Sheets
      BY <1>1 DEF Calls
    <3> QED BY <2>8, <3>1, <3>2, <3>3
  <2>10. ReadOK'
    <3>1. (Doing("verify") \/ Doing("register")) /\ ~raced
            => (Settled(Derive) = Truth /\ OneGuess(Derive))'
      <4>1. Derive' = Derive
        BY <2>4, DeriveKept
      <4>2. (Doing("verify") \/ Doing("register")) /\ ~raced
              => Settled(Derive) = Truth /\ OneGuess(Derive) /\ Truth' = Truth
        BY <1>1, <2>8 DEF CallInv, ReadOK
      <4> QED BY <4>1, <4>2 DEF Settled, OneGuess
    <3>3. (Doing("positions") \/ Doing("netlist")) => call.key \in 1..clock'
      BY <1>1 DEF CallInv, ReadOK
    <3>4. DoingOneOf({"backup", "copy", "git", "load", "write"})'
            <=> DoingOneOf({"backup", "copy", "git", "load", "write"})
      BY <1>4, <2>4, <2>5 DEF DoingOneOf
    <3> QED BY <1>1, <2>4, <2>5, <2>8, <3>1, <3>3, <3>4 DEF CallInv, ReadOK
  <2>11. AnswerOK'
    BY <2>4 DEF AnswerOK
  <2> QED BY <1>4, <2>4, <2>5, <2>6, <2>7, <2>9, <2>10, <2>11 DEF CallInv
<1>5. CASE ~Running
  <2>1. call' = call /\ call.todo = <<>>
    BY <1>5 DEF Disturb, Running
  <2>2. ~Running'
    BY <2>1 DEF Running
  <2>3. ~(Ahead("write")')
    BY <2>1 DEF Ahead
  <2>4. CallOK'
    BY <1>1, <1>2, <1>3, <2>1, <2>3 DEF CallOK, Querying, Editing, Made
  <2> QED BY <1>5, <2>1, <2>2, <2>4
    DEF CallInv, BackupSteps, LoadOK, ReadOK, AnswerOK, Doing, DoingOneOf
<1> QED BY <1>4, <1>5

\* A write has a new mtime, so nothing that was true becomes untrue.
LEMMA ExternalWriteStep == ASSUME SchInv, ExternalWrite PROVE SchInv'
<1>0. present \in SUBSET Sheets /\ UNCHANGED <<present, late>>
  BY DEF ExternalWrite, SchInv, StateInv, EditsOK
<1>1. PICK s \in present, overwrites \in BOOLEAN, annotates \in BOOLEAN :
        \E shows \in IF s = Root THEN {"symbol", "placement", "value", "nothing"}
                                 ELSE {"nothing"} :
          LET base == IF overwrites THEN sheet[s].edits \ own ELSE sheet[s].edits
          IN  /\ SetSheet(s, base \cup {[n |-> nextEdit, shows |-> shows]},
                          IF annotates THEN {} ELSE sheet[s].bare \cap base)
              /\ Disturb(s)
  BY DEF ExternalWrite
<1>2. PICK shows \in Shows :
        LET base == IF overwrites THEN sheet[s].edits \ own ELSE sheet[s].edits
        IN  /\ SetSheet(s, base \cup {[n |-> nextEdit, shows |-> shows]},
                        IF annotates THEN {} ELSE sheet[s].bare \cap base)
            /\ Disturb(s)
  BY <1>1 DEF Shows
<1>a. s \in Sheets /\ ToBackUp' = ToBackUp
  BY <1>0 DEF ToBackUp
<1> DEFINE base == IF overwrites THEN sheet[s].edits \ own ELSE sheet[s].edits
           new == [n |-> nextEdit, shows |-> shows]
           bare == IF annotates THEN {} ELSE sheet[s].bare \cap base
<1>3. SetSheet(s, base \cup {new}, bare) /\ Disturb(s)
  BY <1>2
<1>4. /\ nextEdit \in Nat /\ nextEdit >= 1 /\ nextEdit <= MaxEdits /\ nextEdit' = nextEdit + 1
      /\ Ahead("write") => nextEdit' <= MaxEdits
  BY MaxEditsAssumption
  DEF ExternalWrite, MayEdit, Owed, Ahead, SchInv, StateInv, EditsOK
<1>5. /\ sheet \in [Sheets -> Contents] /\ \A r \in Sheets : Made(sheet[r])
      /\ own \in SUBSET Edits /\ \A e \in own : e.n \in 1..(nextEdit - 1)
      /\ audit \in SUBSET Edits /\ failed \in SUBSET Edits
  BY DEF SchInv, StateInv, EditsOK
<1>6. /\ base \subseteq sheet[s].edits /\ bare \subseteq sheet[s].bare
      /\ sheet[s].edits \ own \subseteq base
  OBVIOUS
<1>7. new \in Edits /\ new.n = nextEdit
  BY <1>4, MaxEditsAssumption DEF Edits
<1> HIDE DEF base, new, bare
<1>8. /\ UNCHANGED <<entries, nextId, liveStale, liveStaleSnap, latestDiskMtimes>>
      /\ UNCHANGED <<cache, states, backup, done, audit, own, failed, torn, doubted>>
  BY <1>3 DEF Disturb, memory, session
<1>9. sheet' = [sheet EXCEPT ![s] = [edits |-> base \cup {new}, bare |-> bare]]
  BY <1>3 DEF SetSheet
<1>10. /\ sheet' \in [Sheets -> Contents]
       /\ sheet'[s].edits = base \cup {new} /\ sheet'[s].bare = bare
       /\ \A r \in Sheets \ {s} : sheet'[r] = sheet[r]
  <2>1. base \cup {new} \in SUBSET Edits /\ bare \in SUBSET Edits
    BY <1>a, <1>5, <1>6, <1>7 DEF Contents
  <2>2. [edits |-> base \cup {new}, bare |-> bare] \in Contents
    BY <2>1 DEF Contents
  <2> QED BY <1>a, <1>5, <1>9, <2>2
<1>11. \A e \in Edits : e.n \in Nat
  BY MaxEditsAssumption DEF Edits
<1>12. \A c : Made(c) => /\ c \in Contents /\ \A e \in c.edits : e.n < nextEdit'
                        /\ \A e \in c.bare : e.shows = "symbol"
  <2> SUFFICES ASSUME NEW c, Made(c)
               PROVE  /\ c \in Contents /\ \A e \in c.edits : e.n < nextEdit'
                      /\ \A e \in c.bare : e.shows = "symbol"
    OBVIOUS
  <2>1. \A e \in c.edits : e.n \in Nat /\ e.n < nextEdit
    BY <1>11 DEF Made, Contents
  <2> QED BY <1>4, <2>1 DEF Made
<1>13. ASSUME NEW r \in Sheets
       PROVE  /\ sheet'[r] \in Contents /\ \A e \in sheet'[r].edits : e.n < nextEdit'
              /\ \A e \in sheet'[r].bare : e.shows = "symbol"
  <2>1. CASE r = s
    <3>1. /\ \A e \in base : e.n < nextEdit'
          /\ \A e \in bare : e.shows = "symbol"
      BY <1>a, <1>5, <1>6, <1>12
    <3>2. new.n < nextEdit'
      BY <1>4, <1>7
    <3>3. /\ \A e \in base \cup {new} : e.n < nextEdit'
          /\ sheet'[s].edits = base \cup {new} /\ sheet'[s].bare = bare
          /\ sheet'[s] \in Contents
      BY <1>a, <1>10, <3>1, <3>2
    <3>4. \A e \in sheet'[s].edits : e.n < nextEdit'
      BY <3>3, Zenon
    <3>5. \A e \in sheet'[s].bare : e.shows = "symbol"
      BY <3>1, <3>3, Zenon
    <3> QED BY <2>1, <3>3, <3>4, <3>5, Zenon
  <2>2. CASE r # s
    BY <1>5, <1>10, <1>12, <2>2
  <2> QED BY <2>1, <2>2
<1>14. EditsOK'
  <2>1. \A e \in own : e.n \in 1..(nextEdit' - 1)
    BY <1>4, <1>5
  <2>2. nextEdit' \in 1..(MaxEdits + 1)
    BY <1>4, MaxEditsAssumption
  <2>3. present' \in SUBSET Sheets /\ late' \in SUBSET present'
    BY <1>0 DEF SchInv, StateInv, EditsOK
  <2> QED BY <1>5, <1>8, <1>10, <1>13, <2>1, <2>2, <2>3 DEF EditsOK, Made
<1>15. RootChange
  <2>1. CASE s = Root
    BY <1>3, <2>1 DEF SetSheet, RootChange
  <2>2. CASE s # Root
    BY <1>3, <1>10, <2>2 DEF SetSheet, RootChange, Sheets
  <2> QED BY <2>1, <2>2
<1>16. FilesOK' /\ CacheOK' /\ SnapsOK' /\ clock' \in Nat /\ clock' >= clock
  BY <1>8, <1>15, NothingBecomesUntrue DEF memory
<1>17. ASSUME NEW r \in DOMAIN backup
       PROVE  backup[r].content.edits \subseteq sheet'[r].edits
  <2>1. r \in Sheets /\ backup[r].content.edits \subseteq sheet[r].edits
        /\ backup[r].content.edits \cap own = {}
    BY DEF SchInv, StateInv, BackupOK
  <2>2. CASE r = s
    BY <1>6, <1>10, <2>1, <2>2
  <2>3. CASE r # s
    BY <1>10, <2>1, <2>3
  <2> QED BY <2>2, <2>3
<1>18. BackupOK'
  <2>1. /\ DOMAIN backup \subseteq Sheets /\ done \in BOOLEAN
        /\ done => ToBackUp \subseteq DOMAIN backup
        /\ own # {} => done
        /\ \A r \in DOMAIN backup : /\ Made(backup[r].content)
                                    /\ backup[r].mtime \in 1..clock
                                    /\ backup[r].content.edits \cap own = {}
    BY DEF SchInv, StateInv, BackupOK
  <2>2. \A r \in DOMAIN backup : backup[r].mtime \in 1..clock'
    BY <1>16, <2>1 DEF SchInv, StateInv, FilesOK, StoreTypeOK
  <2>3. \A r \in DOMAIN backup : Made(backup[r].content)'
    BY <1>8, <1>12, <2>1 DEF Made
  <2> QED BY <1>a, <1>8, <1>17, <2>1, <2>2, <2>3 DEF BackupOK
<1>19. s # Root => UNCHANGED <<mtime, clock>> /\ sheet'[Root] = sheet[Root]
  BY <1>3, <1>10 DEF SetSheet, files, Sheets
<1>20. ASSUME NEW r \in Sheets, NEW e \in sheet'[r].edits
       PROVE  e \in sheet[r].edits \/ (e.n \in Nat /\ e.n >= nextEdit)
  <2>1. CASE r = s
    BY <1>4, <1>6, <1>7, <1>10, <2>1
  <2>2. CASE r # s
    BY <1>10, <2>2
  <2> QED BY <2>1, <2>2
<1>21. CallInv' /\ (Running' <=> Running) /\ call'.edit = call.edit
  BY <1>a, <1>3, <1>4, <1>8, <1>16, <1>19, <1>20, Disturbed
<1>22. AuditOrFailure'
  BY <1>8, <1>21 DEF SchInv, AuditOrFailure
<1> QED BY <1>14, <1>16, <1>18, <1>21, <1>22 DEF SchInv, StateInv

\* A sheet that is new is one that no backup has to hold yet.
LEMMA ExternalCreateStep == ASSUME SchInv, ExternalCreate PROVE SchInv'
<1>1. PICK s \in Beside \ present :
        present' = present \cup {s} /\ late' = late \cup {s} /\ Disturb(s)
  BY DEF ExternalCreate
<1>2. /\ UNCHANGED <<entries, nextId, liveStale, liveStaleSnap, latestDiskMtimes>>
      /\ UNCHANGED <<cache, states, backup, done, audit, own, failed, torn, doubted>>
      /\ UNCHANGED <<mtime, clock, sheet, nextEdit>>
  BY <1>1 DEF ExternalCreate, Disturb, memory, session, files
<1>3. /\ nextEdit \in Nat /\ late \in SUBSET present /\ present \in SUBSET Sheets
      /\ clock \in Nat
  BY MaxEditsAssumption DEF SchInv, StateInv, EditsOK, FilesOK, StoreTypeOK
<1>4. s \in Sheets /\ s # Root
  BY SheetsAssumption DEF Sheets
<1>5. ToBackUp' = ToBackUp
  BY <1>1, <1>3 DEF ToBackUp
<1>6. FilesOK' /\ CacheOK' /\ SnapsOK'
  <2>1. RootChange
    BY <1>2 DEF RootChange, files
  <2> QED BY <1>2, <2>1, NothingBecomesUntrue DEF memory
<1>7. EditsOK'
  <2>1. present' \in SUBSET Sheets /\ late' \in SUBSET present'
    BY <1>1, <1>3, <1>4
  <2>2. failed' \in SUBSET Edits
    BY <1>2 DEF SchInv, StateInv, EditsOK
  <2> QED BY <1>2, <2>1, <2>2 DEF SchInv, StateInv, EditsOK, Made
<1>8. BackupOK'
  BY <1>2, <1>5 DEF SchInv, StateInv, BackupOK, Made
<1>9. CallInv' /\ (Running' <=> Running) /\ call'.edit = call.edit
  <2>1. Ahead("write") => nextEdit' <= MaxEdits
    BY <1>2 DEF SchInv, CallInv, CallOK
  <2> QED BY <1>1, <1>2, <1>3, <1>4, <1>5, <2>1, Disturbed
<1>10. AuditOrFailure'
  BY <1>2, <1>9 DEF SchInv, AuditOrFailure
<1> QED BY <1>6, <1>7, <1>8, <1>9, <1>10 DEF SchInv, StateInv

\* A backup that comes back with its mtime is what the file was then.
LEMMA RestoreStep == ASSUME SchInv, Restore PROVE SchInv'
<1>1. PICK s \in DOMAIN backup :
        /\ sheet' = [sheet EXCEPT ![s] = backup[s].content]
        /\ \/ s = Root /\ MayWrite /\ Write(Root)
           \/ s = Root /\ mtime' = [mtime EXCEPT ![Root] = backup[s].mtime] /\ UNCHANGED clock
           \/ s # Root /\ UNCHANGED files
        /\ Disturb(s)
  BY DEF Restore
<1>2. UNCHANGED <<present, nextEdit, late>>
  BY DEF Restore
<1>3. /\ UNCHANGED <<entries, nextId, liveStale, liveStaleSnap, latestDiskMtimes>>
      /\ UNCHANGED <<cache, states, backup, done, audit, own, failed, torn, doubted>>
  BY <1>1 DEF Disturb, memory, session
<1>4. /\ nextEdit \in Nat /\ nextEdit \in 1..(MaxEdits + 1)
      /\ sheet \in [Sheets -> Contents] /\ \A r \in Sheets : Made(sheet[r])
      /\ own \in SUBSET Edits /\ \A e \in own : e.n \in 1..(nextEdit - 1)
      /\ audit \in SUBSET Edits /\ failed \in SUBSET Edits
      /\ present \in SUBSET Sheets /\ late \in SUBSET present
  BY MaxEditsAssumption DEF SchInv, StateInv, EditsOK
<1>5. /\ DOMAIN backup \subseteq Sheets
      /\ \A r \in DOMAIN backup : /\ Made(backup[r].content)
                                  /\ backup[r].mtime \in 1..clock
                                  /\ backup[r].content.edits \subseteq sheet[r].edits
                                  /\ backup[r].content.edits \cap own = {}
      /\ done \in BOOLEAN /\ (own # {} => done)
      /\ done => ToBackUp \subseteq DOMAIN backup
  BY DEF SchInv, StateInv, BackupOK
<1>6. /\ s \in Sheets /\ sheet'[s] = backup[s].content
      /\ \A r \in Sheets \ {s} : sheet'[r] = sheet[r]
      /\ sheet' \in [Sheets -> Contents]
  BY <1>1, <1>4, <1>5 DEF Made
<1>7. RootChange
  <2>1. Root \in Sheets
    BY DEF Sheets
  <2> QED BY <1>1, <1>6, <2>1 DEF RootChange
<1>8. FilesOK' /\ CacheOK' /\ SnapsOK' /\ clock' \in Nat /\ clock' >= clock
  BY <1>3, <1>7, NothingBecomesUntrue DEF memory
<1>9. ToBackUp' = ToBackUp
  BY <1>2 DEF ToBackUp
<1>10. \A r \in Sheets : Made(sheet[r])'
  <2>1. ASSUME NEW r \in Sheets PROVE Made(sheet'[r])
    BY <1>4, <1>5, <1>6
  <2> QED BY <1>2, <2>1 DEF Made
<1>11. EditsOK'
  BY <1>2, <1>3, <1>4, <1>6, <1>10 DEF EditsOK
<1>12. BackupOK'
  <2>1. ASSUME NEW r \in DOMAIN backup
        PROVE  backup[r].content.edits \subseteq sheet'[r].edits
    <3>1. CASE r = s
      BY <1>6, <3>1
    <3>2. CASE r # s
      BY <1>5, <1>6, <3>2
    <3> QED BY <3>1, <3>2
  <2>2. \A r \in DOMAIN backup : backup[r].mtime \in 1..clock'
    BY <1>5, <1>8 DEF SchInv, StateInv, FilesOK, StoreTypeOK
  <2>3. \A r \in DOMAIN backup : Made(backup[r].content)'
    BY <1>2, <1>3, <1>5 DEF Made
  <2> QED BY <1>2, <1>3, <1>5, <1>9, <2>1, <2>2, <2>3 DEF BackupOK
<1>13. s # Root => UNCHANGED <<mtime, clock>> /\ sheet'[Root] = sheet[Root]
  BY <1>1, <1>6 DEF files, Sheets
<1>14. ASSUME NEW r \in Sheets, NEW e \in sheet'[r].edits
       PROVE  e \in sheet[r].edits \/ (r \in DOMAIN backup /\ e \in backup[r].content.edits)
  BY <1>6
<1>15. Ahead("write") => nextEdit' <= MaxEdits
  BY <1>2 DEF SchInv, CallInv, CallOK
<1>16. CallInv' /\ (Running' <=> Running) /\ call'.edit = call.edit
  BY <1>1, <1>2, <1>3, <1>4, <1>6, <1>8, <1>9, <1>13, <1>14, <1>15, Disturbed
<1>17. AuditOrFailure'
  BY <1>3, <1>16 DEF SchInv, AuditOrFailure
<1> QED BY <1>8, <1>11, <1>12, <1>16, <1>17 DEF SchInv, StateInv

\* What a call makes of a sheet, whether it goes on after that or not.
LEMMA SheetWritten ==
  ASSUME SchInv, Running, Doing("write"), NEW edit, edit = [call.edit EXCEPT !.n = nextEdit],
         SetSheet(call.target, call.loaded.edits \cup {edit},
                  call.loaded.bare \cup (IF call.bare THEN {edit} ELSE {})),
         nextEdit' = nextEdit + 1, own' = own \cup {edit}, failed' \in SUBSET Edits,
         UNCHANGED <<memory, present, session, audit, late, torn, doubted>>
  PROVE  /\ StateInv'
         /\ edit \in Edits /\ edit.n = nextEdit /\ edit.shows = call.edit.shows
         /\ call.edit \notin own /\ nextEdit \in Nat
         /\ sheet'[call.target].edits = call.loaded.edits \cup {edit}
         /\ call.target # Root => UNCHANGED files /\ sheet'[Root] = sheet[Root]
<1> DEFINE t == call.target
           bare == call.loaded.bare \cup (IF call.bare THEN {edit} ELSE {})
<1>1. /\ call \in Calls /\ t \in Sheets /\ Made(call.loaded) /\ call.loaded \in Contents
      /\ call.bare => call.edit.shows = "symbol"
      /\ call.edit \in Edits /\ call.edit.n = 0 /\ nextEdit <= MaxEdits
      /\ nextEdit \in Nat /\ nextEdit >= 1
  BY AtStep, EditStages, MaxEditsAssumption
  DEF SchInv, CallInv, CallOK, Calls, Made, StateInv, EditsOK
<1>2. /\ done /\ ToBackUp \subseteq DOMAIN backup /\ DOMAIN backup \subseteq Sheets
      /\ \A e \in sheet[t].edits : e \in call.loaded.edits \/ e.n >= call.mark
      /\ t \in DOMAIN backup => backup[t].content.edits \subseteq call.loaded.edits
  BY DEF SchInv, CallInv, BackupSteps, LoadOK, StateInv, BackupOK
<1>3. /\ UNCHANGED <<entries, nextId, liveStale, liveStaleSnap, latestDiskMtimes>>
      /\ UNCHANGED <<cache, states, backup, done, audit, present, late, torn, doubted>>
  BY DEF memory, session
<1>4. edit \in Edits /\ edit.n = nextEdit /\ edit.shows = call.edit.shows
  BY <1>1, MaxEditsAssumption DEF Edits
<1>5. /\ sheet \in [Sheets -> Contents] /\ \A r \in Sheets : Made(sheet[r])
      /\ own \in SUBSET Edits /\ \A e \in own : e.n \in 1..(nextEdit - 1)
      /\ audit \in SUBSET Edits /\ present \in SUBSET Sheets /\ late \in SUBSET present
  BY DEF SchInv, StateInv, EditsOK
<1>6. call.edit \notin own
  BY <1>1, <1>5
<1>7. sheet' = [sheet EXCEPT ![t] = [edits |-> call.loaded.edits \cup {edit}, bare |-> bare]]
  BY DEF SetSheet
<1> HIDE DEF bare
<1>8. bare \in SUBSET Edits /\ \A e \in bare : e.shows = "symbol"
  BY <1>1, <1>4 DEF bare, Made, Contents
<1>9. /\ sheet' \in [Sheets -> Contents]
      /\ sheet'[t].edits = call.loaded.edits \cup {edit} /\ sheet'[t].bare = bare
      /\ \A r \in Sheets \ {t} : sheet'[r] = sheet[r]
  <2>1. [edits |-> call.loaded.edits \cup {edit}, bare |-> bare] \in Contents
    BY <1>1, <1>4, <1>8 DEF Contents
  <2> QED BY <1>1, <1>5, <1>7, <2>1
<1>10. \A c : Made(c) => /\ c \in Contents /\ \A e \in c.edits : e.n < nextEdit'
                        /\ \A e \in c.bare : e.shows = "symbol"
  <2> SUFFICES ASSUME NEW c, Made(c)
               PROVE  /\ c \in Contents /\ \A e \in c.edits : e.n < nextEdit'
                      /\ \A e \in c.bare : e.shows = "symbol"
    OBVIOUS
  <2>1. \A e \in c.edits : e.n \in Nat /\ e.n < nextEdit
    BY MaxEditsAssumption DEF Made, Contents, Edits
  <2> QED BY <1>1, <2>1 DEF Made
<1>11. ASSUME NEW r \in Sheets
       PROVE  /\ sheet'[r] \in Contents /\ \A e \in sheet'[r].edits : e.n < nextEdit'
              /\ \A e \in sheet'[r].bare : e.shows = "symbol"
  <2>1. CASE r = t
    <3>1. \A e \in call.loaded.edits \cup {edit} : e.n < nextEdit'
      <4>1. edit.n < nextEdit'
        BY <1>1, <1>4
      <4> QED BY <1>1, <1>10, <4>1
    <3>2. /\ \A e \in sheet'[t].edits : e.n < nextEdit'
          /\ \A e \in sheet'[t].bare : e.shows = "symbol"
      BY <1>8, <1>9, <3>1, Zenon
    <3> QED BY <1>9, <2>1, <3>2, Zenon
  <2>2. CASE r # t
    BY <1>5, <1>9, <1>10, <2>2
  <2> QED BY <2>1, <2>2
<1>12. EditsOK'
  <2>1. \A e \in own' : e.n \in 1..(nextEdit' - 1)
    <3>1. \A e \in own : e.n \in 1..(nextEdit' - 1)
      BY <1>1, <1>5
    <3>2. edit.n \in 1..(nextEdit' - 1)
      BY <1>1, <1>4
    <3> QED BY <3>1, <3>2, Zenon
  <2>2. nextEdit' \in 1..(MaxEdits + 1)
    BY <1>1, MaxEditsAssumption
  <2> QED BY <1>3, <1>4, <1>5, <1>9, <1>11, <2>1, <2>2 DEF EditsOK, Made
<1>13. t # Root => UNCHANGED files /\ sheet'[Root] = sheet[Root]
  BY <1>9 DEF SetSheet, Sheets
<1>14. RootChange
  <2>1. CASE t = Root
    BY <2>1 DEF SetSheet, RootChange
  <2>2. CASE t # Root
    BY <1>13, <2>2 DEF RootChange
  <2> QED BY <2>1, <2>2
<1>15. FilesOK' /\ CacheOK' /\ SnapsOK' /\ clock' \in Nat /\ clock' >= clock
  BY <1>3, <1>14, NothingBecomesUntrue DEF memory
<1>16. BackupOK'
  <2>1. \A r \in DOMAIN backup : /\ Made(backup[r].content)
                                 /\ backup[r].mtime \in 1..clock
                                 /\ backup[r].content.edits \subseteq sheet[r].edits
                                 /\ backup[r].content.edits \cap own = {}
    BY DEF SchInv, StateInv, BackupOK
  <2>2. ASSUME NEW r \in DOMAIN backup
        PROVE  backup[r].content.edits \subseteq sheet'[r].edits
    <3>1. CASE r = t
      BY <1>2, <1>9, <3>1
    <3>2. CASE r # t
      BY <1>2, <1>9, <2>1, <3>2
    <3> QED BY <3>1, <3>2
  <2>3. ASSUME NEW r \in DOMAIN backup PROVE backup[r].content.edits \cap own' = {}
    <3>1. edit \notin backup[r].content.edits
      <4>1. \A e \in backup[r].content.edits : e.n < nextEdit
        BY <2>1 DEF Made
      <4>2. ~(edit.n < nextEdit)
        BY <1>1, <1>4
      <4> QED BY <4>1, <4>2, Zenon
    <3> QED BY <2>1, <3>1
  <2>4. \A r \in DOMAIN backup : backup[r].mtime \in 1..clock'
    BY <1>15, <2>1 DEF SchInv, StateInv, FilesOK, StoreTypeOK
  <2>5. \A r \in DOMAIN backup : Made(backup[r].content)'
    BY <1>3, <1>10, <2>1 DEF Made
  <2>6. ToBackUp' = ToBackUp
    BY <1>3 DEF ToBackUp
  <2> QED BY <1>2, <1>3, <2>2, <2>3, <2>4, <2>5, <2>6 DEF BackupOK
<1>17. StateInv'
  BY <1>12, <1>15, <1>16 DEF StateInv
<1> QED BY <1>1, <1>4, <1>6, <1>9, <1>13, <1>17

\* The edit a call applies by hand to what it had built tells what the file holds
\* with it, but for what is made up or astray.
LEMMA DerivedTells ==
  ASSUME NEW old, NEW new, NEW edit \in Edits, call'.edit = edit, call'.built = View(old),
         \/ /\ edit.shows \in {"symbol", "value", "nets", "nothing"}
            /\ new.edits = old.edits \cup {edit}
         \/ edit.shows \in {"stray", "nothing"} /\ new.edits = old.edits
  PROVE  Settled(Derive') = View(new) /\ OneGuess(Derive')
<1> DEFINE astray == Showing(Edits, {"stray"})
           placed == Placed(old)
           listed == Listed(old)
<1>1. placed \ astray = placed
  BY DEF Placed, Showing
<1>2. /\ call'.built.placed = placed /\ call'.built.listed = listed
      /\ call'.built.guessed = {}
      /\ call'.built = [placed |-> placed, listed |-> listed, guessed |-> {}]
  BY DEF View
<1>3. CASE edit.shows = "symbol" /\ new.edits = old.edits \cup {edit}
  <2>1. Placed(new) = placed \cup {edit} /\ Listed(new) = listed \cup {edit}
    BY <1>3 DEF Placed, Listed, Showing
  <2>2. Derive' = [placed |-> placed \cup {edit}, listed |-> listed, guessed |-> {edit}]
    BY <1>2, <1>3 DEF Derive, DeriveSch
  <2>3. (placed \cup {edit}) \ astray = placed \cup {edit} /\ {edit} \ astray = {edit}
    BY <1>1, <1>3 DEF Showing
  <2> HIDE DEF astray, placed, listed
  <2> QED BY <2>1, <2>2, <2>3 DEF Settled, View, OneGuess, astray
<1>4. CASE edit.shows = "nets" /\ new.edits = old.edits \cup {edit}
  <2>1. Placed(new) = placed /\ Listed(new) = listed \cup {edit}
    BY <1>4 DEF Placed, Listed, Showing
  <2>2. Derive' = [placed |-> placed, listed |-> listed, guessed |-> {edit}]
    BY <1>2, <1>4 DEF Derive, DeriveConnect
  <2>3. {edit} \ astray = {edit}
    BY <1>4 DEF Showing
  <2> HIDE DEF astray, placed, listed
  <2> QED BY <1>1, <2>1, <2>2, <2>3 DEF Settled, View, OneGuess, astray
<1>5. CASE edit.shows = "value" /\ new.edits = old.edits \cup {edit}
  <2>1. Placed(new) = placed /\ Listed(new) = listed \cup {edit}
    BY <1>5 DEF Placed, Listed, Showing
  <2>2. Derive' = [placed |-> placed, listed |-> listed \cup {edit}, guessed |-> {}]
    BY <1>2, <1>5 DEF Derive, DeriveSetValue
  <2> HIDE DEF astray, placed, listed
  <2> QED BY <1>1, <2>1, <2>2 DEF Settled, View, OneGuess, astray
<1>6. CASE /\ edit.shows = "nothing"
           /\ new.edits = old.edits \cup {edit} \/ new.edits = old.edits
  <2>1. Placed(new) = placed /\ Listed(new) = listed
    BY <1>6 DEF Placed, Listed, Showing
  <2>2. Derive' = call'.built
    BY <1>6 DEF Derive
  <2> HIDE DEF astray, placed, listed
  <2> QED BY <1>1, <1>2, <2>1, <2>2 DEF Settled, View, OneGuess, astray
<1>7. CASE edit.shows = "stray" /\ new.edits = old.edits
  <2>1. Placed(new) = placed /\ Listed(new) = listed
    BY <1>7 DEF Placed, Listed, Showing
  <2>2. Derive' = [placed |-> placed \cup {edit}, listed |-> listed, guessed |-> {edit}]
    BY <1>2, <1>7 DEF Derive, DeriveSch
  <2>3. (placed \cup {edit}) \ astray = placed /\ {edit} \ astray = {}
    BY <1>1, <1>7 DEF Showing
  <2> HIDE DEF astray, placed, listed
  <2> QED BY <2>1, <2>2, <2>3 DEF Settled, View, OneGuess, astray
<1> QED BY <1>3, <1>4, <1>5, <1>6, <1>7

\* The sheet is written after its backup, with what was loaded and the edit.
LEMMA WriteSheetStep == ASSUME SchInv, WriteSheet PROVE SchInv'
<1>1. /\ Running /\ Doing("write")
      /\ UNCHANGED <<memory, present, session, audit, late, torn, doubted>>
  BY DEF WriteSheet, Doing
<1> DEFINE edit == [call.edit EXCEPT !.n = nextEdit]
           written == /\ SetSheet(call.target, call.loaded.edits \cup {edit},
                                  call.loaded.bare \cup (IF call.bare THEN {edit} ELSE {}))
                      /\ nextEdit' = nextEdit + 1
                      /\ own' = own \cup {edit}
           known == [call EXCEPT !.edit = edit, !.loaded = NoContent]
<1>2. \/ written /\ GoOn(1, known)
      \/ written /\ call' = Idle("FAILED") /\ failed' = failed \cup {edit}
      \/ Return("FAILED") /\ UNCHANGED <<sheet, nextEdit, own, files>>
  BY DEF WriteSheet, MayFail
<1>3. /\ call \in Calls /\ call.edit \in Edits /\ failed \in SUBSET Edits
      /\ nextEdit \in Nat /\ nextEdit <= MaxEdits /\ call.mark \in Nat /\ call.mark <= nextEdit
      /\ Editing /\ Len(call.todo) = 4 /\ call.todo[2] = "verify"
      /\ call.bare => call.edit.shows = "symbol"
  BY <1>1, AtStep, EditStages, MaxEditsAssumption
  DEF SchInv, CallInv, CallOK, Calls, StateInv, EditsOK
<1>4. edit \in Edits
  BY <1>3, MaxEditsAssumption DEF Edits
<1>5. own \subseteq audit \cup failed \cup {call.edit}
  BY <1>1 DEF SchInv, AuditOrFailure
<1>6. CASE Return("FAILED") /\ UNCHANGED <<sheet, nextEdit, own, files>>
  <2>1. UNCHANGED Kept
    BY <1>1, <1>6 DEF Kept, storeVars, sheets, files, memory, session
  <2> QED BY <1>1, <1>6, <2>1, FailureReplies, Fails
<1>7. CASE written /\ call' = Idle("FAILED") /\ failed' = failed \cup {edit}
  <2>1. failed' \in SUBSET Edits
    BY <1>3, <1>4, <1>7
  <2>2. StateInv' /\ call.edit \notin own
    BY <1>1, <1>7, <2>1, SheetWritten
  <2>3. CallInv' /\ ~Running'
    BY <1>7, <2>2, Ends DEF StateInv, Replies
  <2>4. AuditOrFailure'
    BY <1>1, <1>5, <1>7, <2>2, <2>3 DEF AuditOrFailure
  <2> QED BY <2>2, <2>3, <2>4 DEF SchInv
<1>8. CASE written /\ GoOn(1, known)
  <2>1. /\ known \in Calls /\ known.todo = call.todo /\ known.edit = edit
        /\ known.target = call.target /\ known.bare = call.bare
        /\ known.loaded = NoContent /\ known.mark = call.mark
        /\ known.built = call.built /\ known.raced = call.raced
    <3>1. NoContent \in Contents
      BY DEF NoContent, Contents
    <3> HIDE DEF edit
    <3> QED BY <1>3, <1>4, <3>1 DEF Calls
  <2> HIDE DEF known
  <2>2. 1 \in Nat /\ 1 < Len(call.todo) /\ CallOK
    BY <1>3 DEF SchInv, CallInv
  <2>3. /\ call' \in Calls /\ failed' = failed
        /\ Running' /\ Head(call'.todo) = call.todo[1 + 1]
        /\ Len(call'.todo) = Len(call.todo) - 1
        /\ EndOf(call.todo, SchEdit) => EndOf(call'.todo, SchEdit)
        /\ call'.edit = edit /\ call'.target = call.target
        /\ call'.bare = call.bare /\ call'.built = call.built
        /\ call'.loaded = NoContent /\ call'.mark = call.mark
        /\ call'.raced = call.raced
    BY <1>1, <1>8, <2>1, <2>2, Goes
  <2>4. Head(call'.todo) = "verify" /\ Len(call'.todo) = 3
    BY <1>3, <2>3
  <2>5. /\ StateInv' /\ edit.n = nextEdit /\ edit.shows = call.edit.shows
        /\ call.edit \notin own
        /\ sheet'[call.target].edits = call.loaded.edits \cup {edit}
        /\ call.target # Root => UNCHANGED files /\ sheet'[Root] = sheet[Root]
    <3>1. failed' \in SUBSET Edits
      BY <1>3, <2>3
    <3> QED BY <1>1, <1>8, <3>1, SheetWritten
  <2>6. nextEdit' = nextEdit + 1 /\ own' = own \cup {edit}
    BY <1>8
  <2>7. UNCHANGED audit
    BY <1>1
  <2>8. AuditOrFailure'
    BY <1>5, <2>3, <2>5, <2>6, <2>7 DEF AuditOrFailure
  <2>9. EndOf(call'.todo, SchEdit)
    BY <1>3, <2>3 DEF Editing
  <2>10. ~(Ahead("write")')
    <3>1. call'.todo \in Seq(Steps) /\ call'.todo # <<>>
      BY <2>3 DEF Calls, Running
    <3>2. (\E i \in 1..Len(call'.todo) : call'.todo[i] = "write") <=> Len(call'.todo) >= 4
      BY <2>9, <3>1, WriteAhead
    <3> QED BY <2>4, <3>2 DEF Ahead
  <2>11. CallOK'
    <3>1. Editing'
      BY <1>3, <2>3, <2>5, <2>9 DEF Editing
    <3>2. Made(call.loaded)'
      BY <2>3 DEF Made, NoContent, Contents
    <3>3. call'.edit.n < nextEdit' /\ call'.mark <= nextEdit'
      BY <1>3, <2>3, <2>5, <2>6
    <3> QED BY <1>3, <2>3, <2>5, <2>10, <3>1, <3>2, <3>3 DEF CallOK
  <2>12. ASSUME ~call.raced
         PROVE  (Settled(Derive) = Truth /\ OneGuess(Derive))'
    <3>1. call.built = View(sheet[Root])
      BY <1>1, <2>12 DEF SchInv, CallInv, ReadOK, DoingOneOf, Doing, Truth
    <3>2. call'.edit = edit /\ edit \in Edits /\ call'.built = View(sheet[Root])
      BY <1>4, <2>3, <3>1
    <3> HIDE DEF edit
    <3>3. CASE call.target = Root
      <4>1. call.loaded.edits = sheet[Root].edits
        BY <1>1, <2>12, <3>3 DEF SchInv, CallInv, LoadOK
      <4>2. sheet'[Root].edits = sheet[Root].edits \cup {edit}
        BY <2>5, <3>3, <4>1
      <4>3. edit.shows \in {"symbol", "value", "nets", "nothing"}
        BY <1>3, <2>5, <3>3 DEF Editing
      <4>4. Settled(Derive') = View(sheet'[Root]) /\ OneGuess(Derive')
        BY <3>2, <4>2, <4>3, DerivedTells
      <4> QED BY <4>4 DEF Truth, Settled, OneGuess
    <3>4. CASE call.target # Root
      <4>1. edit.shows \in {"stray", "nothing"}
        BY <1>3, <2>5, <3>4 DEF Editing
      <4>2. sheet'[Root].edits = sheet[Root].edits
        BY <2>5, <3>4
      <4>3. Settled(Derive') = View(sheet'[Root]) /\ OneGuess(Derive')
        BY <3>2, <4>1, <4>2, DerivedTells
      <4> QED BY <4>3 DEF Truth, Settled, OneGuess
    <3> QED BY <3>3, <3>4
  <2>13. ReadOK'
    BY <2>3, <2>4, <2>12 DEF ReadOK, Doing, DoingOneOf
  <2>14. CallInv'
    BY <2>4, <2>11, <2>13 DEF CallInv, BackupSteps, LoadOK, AnswerOK, Doing
  <2> QED BY <2>5, <2>8, <2>14 DEF SchInv
<1> QED BY <1>2, <1>6, <1>7, <1>8

----------------------------------------------------------------------------
(* Registering, and the steps between calls                                *)

\* What is collected is the mtime of the root schematic.
LEMMA RootIsCollected ==
  ASSUME FilesOK
  PROVE  CollectMtimes = RootMtimes(mtime[Root]) /\ OptionalMtimes({CollectMtimes})
<1>1. Files = {Root} /\ mtime \in [Files -> Nat] /\ mtime[Root] # 0
  BY SheetsAssumption DEF FilesOK, StoreTypeOK
<1>2. {g \in Files : mtime[g] # 0} = Files
  BY <1>1
<1>3. CollectMtimes = [f \in Files |-> mtime[f]]
  BY <1>2 DEF CollectMtimes
<1>4. [f \in Files |-> mtime[f]] = RootMtimes(mtime[Root])
  BY <1>1 DEF RootMtimes
<1> QED BY <1>1, <1>3, <1>4, CollectType DEF OptionalMtimes, AtMostOne

\* A state with an edit applied by hand is a state.
LEMMA DeriveType == ASSUME call \in Calls PROVE Derive \in States
BY DEF Derive, DeriveSch, DeriveConnect, DeriveSetValue, Calls, States

\* What is registered is true of the mtime recorded with it, outside the
\* exceptions.
LEMMA RegisterStateStep == ASSUME SchInv, RegisterState PROVE SchInv'
<1>1. /\ Running /\ Doing("register")
      /\ Register("sch", {CollectMtimes})
      /\ UNCHANGED <<liveStale, liveStaleSnap, mtime, clock>>
      /\ UNCHANGED <<present, sheet, cache, backup, done, audit, nextEdit, late, own, torn>>
      /\ states' = StateOfRetained
      /\ doubted' = IF call.raced THEN doubted \cup {nextId} ELSE doubted
      /\ Continue
  BY DEF RegisterState, Doing, KeepStale, files, sheets
<1>2. 1 \in Nat /\ 1 < Len(call.todo) /\ call.todo[2] \in {"audit", "encode"}
  BY <1>1, AtStep, Stages
<1>3. /\ CallOK' /\ failed' = failed /\ Running' /\ Head(call'.todo) \in {"audit", "encode"}
      /\ call'.edit = call.edit
  <2>1. CallOK' /\ failed' = failed /\ Running' /\ Head(call'.todo) = call.todo[1 + 1]
        /\ call'.edit = call.edit
    BY <1>1, <1>2, AtStep, GoesOn DEF Continue
  <2> QED BY <1>2, <2>1
<1>4. FilesOK /\ StoreTypeOK /\ RetentionWindow /\ nextId \in Nat \ {0}
  BY DEF SchInv, StateInv, FilesOK, StoreTypeOK
<1>5. CollectMtimes = RootMtimes(mtime[Root]) /\ OptionalMtimes({CollectMtimes})
  BY <1>4, RootIsCollected
<1>6. /\ RetentionWindow'
      /\ DOMAIN entries' \subseteq DOMAIN entries \cup {nextId}
      /\ nextId \in DOMAIN entries'
      /\ entries'[nextId] = [kind |-> "sch", mtimes |-> {CollectMtimes}]
      /\ \A i \in DOMAIN entries' \ {nextId} : entries'[i] = entries[i]
  BY <1>1, <1>4, RegisterKeepsWindow
<1>7. /\ nextId' \in Nat \ {0}
      /\ DOMAIN entries' \subseteq Nat
      /\ \A i \in DOMAIN entries' :
           /\ entries'[i].kind \in Kinds
           /\ OptionalMtimes(entries'[i].mtimes)
      /\ OptionalMtimes(latestDiskMtimes')
  BY <1>1, <1>4, <1>5, RegisterType DEF Kinds
<1>8. StoreTypeOK'
  BY <1>1, <1>4, <1>7 DEF StoreTypeOK
<1>9. FilesOK'
  BY <1>1, <1>4, <1>6, <1>8 DEF FilesOK
<1>10. EditsOK' /\ BackupOK'
  BY <1>1, <1>3 DEF SchInv, StateInv, EditsOK, BackupOK, ToBackUp, Made
<1>11. \A m, state : TrueAt(m, state)' <=> TrueAt(m, state)
  BY <1>1 DEF TrueAt, Truth
<1>a. \A m, state : TellsAt(m, state)' <=> TellsAt(m, state)
  BY <1>11 DEF TellsAt, Settled, OneGuess
<1>12. CacheOK'
  BY <1>1, <1>11 DEF SchInv, StateInv, CacheOK
<1>13. /\ DOMAIN states = DOMAIN entries /\ doubted \subseteq Nat
       /\ \A i \in DOMAIN entries :
            /\ states[i] \in States
            /\ \E m \in 1..clock : /\ entries[i].mtimes = {RootMtimes(m)}
                                   /\ TellsAt(m, states[i]) \/ i \in doubted
  BY DEF SchInv, StateInv, SnapsOK
<1>14. doubted' \subseteq Nat /\ doubted \subseteq doubted'
  <2>1. doubted' = doubted \/ doubted' = doubted \cup {nextId}
    BY <1>1
  <2> QED BY <1>4, <1>13, <2>1
<1>15. /\ DOMAIN states' = DOMAIN entries' /\ states'[nextId] = Derive
       /\ \A i \in DOMAIN entries' \ {nextId} : states'[i] = states[i]
  BY <1>1, <1>6 DEF StateOfRetained
<1>16. TellsAt(mtime[Root], Derive) \/ nextId \in doubted'
  <2>1. call.raced \/ (Settled(Derive) = Truth /\ OneGuess(Derive))
    BY <1>1 DEF SchInv, CallInv, ReadOK
  <2>2. CASE call.raced
    BY <1>1, <2>2
  <2>3. CASE Settled(Derive) = Truth /\ OneGuess(Derive)
    <3>1. TrueAt(mtime[Root], Truth)
      BY <1>4 DEF FilesOK, TrueAt, Truth
    <3> QED BY <2>3, <3>1 DEF TellsAt
  <2> QED BY <2>1, <2>2, <2>3
<1>17. ASSUME NEW i \in DOMAIN entries'
       PROVE  /\ states'[i] \in States
              /\ \E m \in 1..clock : /\ entries'[i].mtimes = {RootMtimes(m)}
                                     /\ TellsAt(m, states'[i]) \/ i \in doubted'
  <2>1. CASE i = nextId
    <3>1. Derive \in States
      BY <1>1, AtStep, DeriveType
    <3>2. mtime[Root] \in 1..clock
      BY <1>4 DEF FilesOK
    <3>3. entries'[nextId].mtimes = {RootMtimes(mtime[Root])}
      BY <1>5, <1>6
    <3> QED BY <1>15, <1>16, <2>1, <3>1, <3>2, <3>3
  <2>2. CASE i # nextId
    <3>1. i \in DOMAIN entries /\ entries'[i] = entries[i] /\ states'[i] = states[i]
      BY <1>6, <1>15, <2>2
    <3> QED BY <1>13, <1>14, <3>1
  <2> QED BY <2>1, <2>2
<1>18. SnapsOK'
  <2>1. \A m : RootMtimes(m)' = RootMtimes(m)
    BY DEF RootMtimes
  <2> QED BY <1>1, <1>a, <1>14, <1>15, <1>17, <2>1 DEF SnapsOK
<1>19. ValidBase(nextId - 1)'
  <2>1. nextId' - 1 = nextId
    BY <1>1, <1>4 DEF Register
  <2>2. \A f \in DOMAIN CollectMtimes : mtime'[f] = CollectMtimes[f]
    BY <1>1 DEF CollectMtimes
  <2>3. nextId \in DOMAIN entries' /\ \A m \in entries'[nextId].mtimes : m = CollectMtimes
    BY <1>6
  <2> QED BY <2>1, <2>2, <2>3 DEF ValidBase, Unchanged, Changed
<1>20. CallInv'
  BY <1>3, <1>19
  DEF CallInv, BackupSteps, LoadOK, ReadOK, AnswerOK, Doing, DoingOneOf
<1>21. AuditOrFailure'
  BY <1>1, <1>3 DEF SchInv, AuditOrFailure
<1> QED BY <1>9, <1>10, <1>12, <1>18, <1>20, <1>21 DEF SchInv, StateInv

\* A restart forgets the store, the cache and the session; no call is running
\* after it.
LEMMA ServerRestartStep == ASSUME SchInv, ServerRestart PROVE SchInv'
<1>1. /\ UNCHANGED <<mtime, clock, present, sheet, backup, nextEdit>>
      /\ entries' = [i \in {} |-> {}] /\ nextId' = 1
      /\ liveStale' = FALSE /\ liveStaleSnap' = {} /\ latestDiskMtimes' = {}
      /\ cache' = [m \in {} |-> NoState] /\ states' = [i \in {} |-> NoState]
      /\ done' = FALSE
      /\ audit' = {} /\ late' = {} /\ own' = {} /\ failed' = {} /\ torn' = {} /\ doubted' = {}
      /\ call' = Idle("none")
  BY DEF ServerRestart, ForgetAll, files, sheets
<1>2. FilesOK'
  <2>1. StoreTypeOK'
    <3>1. mtime' \in [Files -> Nat] /\ clock' \in Nat \ {0}
      BY <1>1 DEF SchInv, StateInv, FilesOK, StoreTypeOK
    <3>2. DOMAIN entries' = {} /\ nextId' \in Nat \ {0}
      BY <1>1
    <3>3. liveStale' \in BOOLEAN
      BY <1>1, Zenon
    <3>4. OptionalMtimes({}) /\ AtMostOne({})
      BY DEF OptionalMtimes, AtMostOne
    <3> QED BY <1>1, <3>1, <3>2, <3>3, <3>4 DEF StoreTypeOK
  <2>2. RetentionWindow'
    BY <1>1, RetentionAssumption DEF RetentionWindow
  <2> QED BY <1>1, <2>1, <2>2 DEF SchInv, StateInv, FilesOK
<1>3. EditsOK'
  BY <1>1 DEF SchInv, StateInv, EditsOK, Made
<1>4. BackupOK'
  BY <1>1 DEF SchInv, StateInv, BackupOK, Made
<1>5. CacheOK' /\ SnapsOK'
  BY <1>1 DEF CacheOK, SnapsOK
<1>6. CallInv'
  BY <1>1, <1>3, Ends DEF Replies
<1>7. AuditOrFailure'
  BY <1>1 DEF AuditOrFailure
<1> QED BY <1>2, <1>3, <1>4, <1>5, <1>6, <1>7 DEF SchInv, StateInv

\* A call begins at the start of a program, or at that of its end.
LEMMA Begins ==
  ASSUME SchInv, ~Running, UNCHANGED <<storeVars, sheets, session, audit, nextEdit, ghosts>>,
         CallOK', Head(call'.todo) \in {"base", "delta", "check", "stat"}
  PROVE  SchInv'
<1>1. UNCHANGED <<late, own, failed, torn, doubted>>
  BY DEF ghosts
<1>2. audit' \in SUBSET Edits /\ failed' \in SUBSET Edits
  BY <1>1 DEF SchInv, StateInv, EditsOK
<1>3. StateInv'
  BY <1>1, <1>2, StateKept DEF SchInv
<1>4. CallInv'
  BY EarlyStep
<1>5. AuditOrFailure'
  BY <1>1 DEF SchInv, AuditOrFailure
<1> QED BY <1>3, <1>4, <1>5 DEF SchInv

\* A call that begins has loaded nothing.
LEMMA IdleType ==
  ASSUME NEW todo \in Seq(Steps), NEW target \in Sheets, NEW bare \in BOOLEAN, NEW edit \in Edits,
         call' = [Idle("none") EXCEPT !.todo = todo, !.target = target, !.bare = bare,
                    !.edit = edit]
  PROVE  /\ call' \in Calls /\ call'.todo = todo /\ call'.edit = edit
         /\ call'.target = target /\ call'.bare = bare
         /\ call'.loaded = NoContent /\ call'.mark = 0
<1>1. /\ Root \in Sheets /\ NoState \in States /\ NoContent \in Contents
      /\ "none" \in Replies /\ FALSE \in BOOLEAN /\ TRUE \in BOOLEAN
  BY DEF Sheets, NoState, States, NoContent, Contents, Replies
<1> QED BY <1>1 DEF Idle, Calls

\* A query begins at the first step of its program.
LEMMA BeginQueryStep == ASSUME SchInv, BeginQuery PROVE SchInv'
<1>1. /\ ~Running
      /\ UNCHANGED <<storeVars, sheets, session, audit, nextEdit, ghosts>>
      /\ nextEdit \in Nat /\ nextEdit >= 1
  BY MaxEditsAssumption DEF BeginQuery, SchInv, StateInv, EditsOK
<1>2. PICK tool \in Tools \cap DOMAIN Queries : call' = [Idle("none") EXCEPT !.todo = Queries[tool]]
  BY DEF BeginQuery
<1> DEFINE program == Queries[tool]
<1>3. program \in {SchContext, ContextDelta}
  BY DEF Queries
<1> HIDE DEF program
<1>4. /\ program \in Seq(Steps) /\ (Len(program) = 5 \/ Len(program) = 6)
      /\ EndOf(program, ContextDelta) /\ program # <<>>
  <2>1. CASE program = ContextDelta
    <3>1. EndOf(ContextDelta, ContextDelta)
      BY Query DEF EndOf
    <3> QED BY <2>1, <3>1, Query
  <2>2. CASE program = SchContext
    <3>1. EndOf(SchContext, ContextDelta)
      <4>1. ASSUME NEW i \in 1..5 PROVE SchContext[i] = ContextDelta[6 - 5 + i]
        BY Query
      <4> QED BY <4>1, Query DEF EndOf
    <3>2. SchContext \in Seq(Steps) /\ Len(SchContext) = 5 /\ SchContext # <<>>
      BY Query
    <3> QED BY <2>2, <3>1, <3>2
  <2> QED BY <1>3, <2>1, <2>2
<1>5. /\ Head(program) \in {"delta", "stat"}
      /\ \A i \in 1..Len(program) : program[i] # "write"
  <2>1. /\ Head(program) \in {"delta", "stat", "positions", "netlist", "register", "encode"}
        /\ Head(program) = "positions" => Len(program) = 4
        /\ Head(program) = "netlist" => Len(program) = 3
        /\ Head(program) = "register" => Len(program) = 2
        /\ Head(program) = "encode" => Len(program) = 1
        /\ \A i \in 1..Len(program) : program[i] \notin {"write", "audit"}
    BY <1>4, QueryFollows
  <2>2. Len(program) \in {5, 6} => Len(program) \notin {1, 2, 3, 4}
    OBVIOUS
  <2> QED BY <1>4, <2>1, <2>2
<1>6. /\ call' \in Calls /\ call'.todo = program /\ call'.edit = NoEdit
      /\ call'.target = Root /\ call'.bare = FALSE
      /\ call'.loaded = NoContent /\ call'.mark = 0
  <2>1. /\ Root \in Sheets /\ NoState \in States /\ NoContent \in Contents /\ NoEdit \in Edits
        /\ "none" \in Replies /\ FALSE \in BOOLEAN /\ TRUE \in BOOLEAN
    BY MaxEditsAssumption
    DEF Sheets, NoState, States, NoContent, Contents, Replies, NoEdit, Edits, Shows
  <2>2. call' = [Idle("none") EXCEPT !.todo = program]
    BY <1>2 DEF program
  <2> QED BY <1>4, <2>1, <2>2 DEF Idle, Calls
<1>7. CallOK'
  <2>1. Querying'
    BY <1>4, <1>6 DEF Querying
  <2>2. ~(Ahead("write")')
    BY <1>5, <1>6 DEF Ahead
  <2>3. Made(call.loaded)' /\ call'.edit.n < nextEdit' /\ call'.mark <= nextEdit'
    BY <1>1, <1>6 DEF Made, NoContent, Contents, NoEdit
  <2> QED BY <1>6, <2>1, <2>2, <2>3 DEF CallOK
<1>8. Head(call'.todo) \in {"base", "delta", "check", "stat"}
  BY <1>5, <1>6
<1> QED BY <1>1, <1>7, <1>8, Begins

\* An edit begins with a number of its own.
LEMMA BeginEditStep == ASSUME SchInv, BeginEdit PROVE SchInv'
<1>1. /\ ~Running /\ nextEdit <= MaxEdits
      /\ UNCHANGED <<storeVars, sheets, session, audit, nextEdit, ghosts>>
      /\ nextEdit \in Nat /\ nextEdit >= 1
  BY MaxEditsAssumption DEF BeginEdit, SchInv, StateInv, EditsOK
<1>2. PICK tool \in Tools \ DOMAIN Queries, target \in present :
        \E kind \in EditsOf(tool, target) :
          call' = [Idle("none") EXCEPT !.todo = SchEdit, !.target = target,
                     !.bare = kind.bare, !.edit = [n |-> 0, shows |-> kind.shows]]
  BY DEF BeginEdit
<1>3. PICK kind \in EditsOf(tool, target) :
        call' = [Idle("none") EXCEPT !.todo = SchEdit, !.target = target,
                   !.bare = kind.bare, !.edit = [n |-> 0, shows |-> kind.shows]]
  BY <1>2
<1>4. tool \in {"addSymbol", "setValue", "setFootprint", "connectPins"}
  <2>1. DOMAIN Queries = {"schContext", "contextDelta"}
    BY DEF Queries
  <2> QED BY <1>2, <2>1, ToolsAssumption DEF AllTools
<1>a. target \in Sheets
  BY <1>2 DEF SchInv, StateInv, EditsOK
<1>5. /\ kind.shows \in (IF target = Root THEN {"symbol", "value", "nets", "nothing"}
                                         ELSE {"stray", "nothing"})
      /\ kind.bare \in BOOLEAN
      /\ kind.bare => kind.shows = "symbol"
  <2>1. CASE tool = "addSymbol"
    BY <1>3, <2>1 DEF EditsOf
  <2>2. CASE tool = "setValue"
    BY <1>3, <2>2 DEF EditsOf
  <2>3. CASE tool = "connectPins"
    BY <1>3, <2>3 DEF EditsOf
  <2>4. CASE tool = "setFootprint"
    BY <1>3, <2>4 DEF EditsOf
  <2> QED BY <1>4, <2>1, <2>2, <2>3, <2>4
<1> DEFINE edit == [n |-> 0, shows |-> kind.shows]
<1>6. edit \in Edits /\ edit.n = 0 /\ edit.shows = kind.shows
  <2>1. kind.shows \in Shows
    BY <1>5 DEF Shows
  <2> QED BY <2>1, MaxEditsAssumption DEF Edits
<1> HIDE DEF edit
<1>7. /\ call' \in Calls /\ call'.todo = SchEdit /\ call'.edit = edit
      /\ call'.target = target /\ call'.bare = kind.bare
      /\ call'.loaded = NoContent /\ call'.mark = 0
  <2>1. call' = [Idle("none") EXCEPT !.todo = SchEdit, !.target = target,
                   !.bare = kind.bare, !.edit = edit]
    BY <1>3 DEF edit
  <2>2. SchEdit \in Seq(Steps)
    BY Edit
  <2> QED BY <1>a, <1>5, <1>6, <2>1, <2>2, IdleType
<1>8. Editing'
  <2>1. EndOf(SchEdit, SchEdit)
    BY Edit DEF EndOf
  <2> QED BY <1>5, <1>6, <1>7, <2>1 DEF Editing
<1>9. CallOK'
  <2>1. Made(call.loaded)' /\ call'.edit.n < nextEdit' /\ call'.mark <= nextEdit'
    BY <1>1, <1>6, <1>7 DEF Made, NoContent, Contents
  <2> QED BY <1>1, <1>5, <1>6, <1>7, <1>8, <2>1 DEF CallOK
<1>10. Head(call'.todo) \in {"base", "delta", "check", "stat"}
  BY <1>7, Edit
<1> QED BY <1>1, <1>9, <1>10, Begins

----------------------------------------------------------------------------
(* The invariant                                                           *)

\* Nothing has been edited, read or copied.
LEMMA SchInvInit == Init => SchInv
<1> SUFFICES ASSUME Init PROVE SchInv
  OBVIOUS
<1>1. /\ StoreInit /\ mtime = [f \in Files |-> 1]
      /\ present \in {{Root} \cup Below \cup some : some \in SUBSET Beside}
      /\ sheet = [s \in Sheets |-> NoContent]
      /\ cache = [m \in {} |-> NoState] /\ states = [i \in {} |-> NoState]
      /\ call = Idle("none") /\ backup = NoBackup /\ done = FALSE
      /\ audit = {} /\ late = {} /\ own = {} /\ failed = {} /\ torn = {} /\ doubted = {}
      /\ nextEdit = 1
  BY DEF Init
<1>2. NoContent \in Contents /\ NoContent.edits = {} /\ NoContent.bare = {}
  BY DEF NoContent, Contents
<1>3. DOMAIN backup = {} /\ DOMAIN cache = {} /\ DOMAIN states = {} /\ DOMAIN entries = {}
  BY <1>1 DEF NoBackup, StoreInit
<1>4. FilesOK
  <2>1. StoreTypeOK
    BY <1>1, InitType
  <2>2. RetentionWindow
    BY <1>1, RetentionAssumption DEF StoreInit, RetentionWindow
  <2>3. mtime[Root] = 1 /\ clock = 1
    BY <1>1, SheetsAssumption DEF StoreInit
  <2> QED BY <1>3, <2>1, <2>2, <2>3 DEF FilesOK
<1>5. EditsOK
  <2>1. \A s \in Sheets : Made(sheet[s])
    BY <1>1, <1>2 DEF Made
  <2>2. sheet \in [Sheets -> Contents]
    BY <1>1, <1>2
  <2>3. present \in SUBSET Sheets
    BY <1>1 DEF Sheets
  <2> QED BY <1>1, <2>1, <2>2, <2>3, MaxEditsAssumption DEF EditsOK
<1>6. BackupOK
  BY <1>1, <1>3 DEF BackupOK
<1>7. CacheOK /\ SnapsOK
  BY <1>1, <1>3 DEF CacheOK, SnapsOK
<1>8. call.todo = <<>> /\ ~Running
  BY <1>1 DEF Idle, Running
<1>9. CallOK
  <2>1. call \in Calls
    <3>1. /\ <<>> \in Seq(Steps) /\ Root \in Sheets /\ NoEdit \in Edits
          /\ NoState \in States /\ "none" \in Replies /\ FALSE \in BOOLEAN /\ TRUE \in BOOLEAN
      BY MaxEditsAssumption DEF Sheets, NoEdit, Edits, Shows, NoState, States, Replies
    <3> QED BY <1>1, <1>2, <3>1 DEF Idle, Calls
  <2>2. Querying
    <3>1. Len(<<>>) = 0 /\ Len(ContextDelta) = 6
      BY Query
    <3> QED BY <1>1, <1>8, <3>1 DEF Querying, EndOf, Idle
  <2>3. ~Ahead("write")
    BY <1>8 DEF Ahead
  <2>4. Made(call.loaded) /\ call.edit.n < nextEdit /\ call.mark <= nextEdit /\ ~call.bare
    BY <1>1, <1>2 DEF Made, Idle, NoEdit
  <2> QED BY <2>1, <2>2, <2>3, <2>4 DEF CallOK
<1>10. CallInv
  BY <1>8, <1>9
  DEF CallInv, BackupSteps, LoadOK, ReadOK, AnswerOK, Doing, DoingOneOf
<1>11. AuditOrFailure
  BY <1>1 DEF AuditOrFailure
<1> QED BY <1>4, <1>5, <1>6, <1>7, <1>10, <1>11 DEF SchInv, StateInv

\* Nothing has changed.
LEMMA SchInvStutter == ASSUME SchInv, UNCHANGED vars PROVE SchInv'
<1>1. /\ UNCHANGED <<storeVars, sheets, session, call, audit, nextEdit, ghosts>>
      /\ UNCHANGED <<entries, nextId, mtime, clock, present, sheet, backup, done>>
      /\ UNCHANGED <<late, own, failed, torn, doubted>>
  BY DEF vars, storeVars, sheets, session, ghosts
<1>2. audit' \in SUBSET Edits /\ failed' \in SUBSET Edits
  BY <1>1 DEF SchInv, StateInv, EditsOK
<1>3. StateInv'
  BY <1>1, <1>2, StateKept DEF SchInv
<1>4. CallOK'
  BY <1>1 DEF SchInv, CallInv, CallOK, Querying, Editing, Ahead, Made
<1>5. BackupSteps' /\ LoadOK'
  BY <1>1 DEF SchInv, CallInv, BackupSteps, LoadOK, ToBackUp, Doing, Running
<1>6. ReadOK'
  <2>1. Derive' = Derive /\ Truth' = Truth
    BY <1>1, DeriveKept DEF Truth
  <2>2. (Settled(Derive) = Truth /\ OneGuess(Derive))'
          <=> Settled(Derive) = Truth /\ OneGuess(Derive)
    BY <2>1 DEF Settled, OneGuess
  <2> QED BY <1>1, <2>1, <2>2 DEF SchInv, CallInv, ReadOK, Doing, DoingOneOf, Running
<1>7. AnswerOK'
  BY <1>1 DEF SchInv, CallInv, AnswerOK, Doing, Running, ValidBase, Unchanged, Changed
<1>8. AuditOrFailure'
  BY <1>1 DEF SchInv, AuditOrFailure, Running
<1> QED BY <1>3, <1>4, <1>5, <1>6, <1>7, <1>8 DEF SchInv, CallInv

\* By the lemmas above, one for each step.
LEMMA SchInvStep == SchInv /\ [Next]_vars => SchInv'
<1> SUFFICES ASSUME SchInv, [Next]_vars PROVE SchInv'
  OBVIOUS
<1>1. CASE BeginQuery \/ BeginEdit
  BY <1>1, BeginQueryStep, BeginEditStep
<1>2. CASE ToolStep
  BY <1>2, CheckBaseStep, DeltaBaseStep, CheckStep, StatStep, PositionsStep, ReadNetlistStep,
     BackupStep, CopySheetStep, CheckpointStep, LoadStep, WriteSheetStep, VerifyStep,
     RegisterStateStep, AuditStep, EncodeStep
  DEF ToolStep
<1>3. CASE ExternalWrite \/ ExternalCreate \/ Restore \/ ServerRestart
  BY <1>3, ExternalWriteStep, ExternalCreateStep, RestoreStep, ServerRestartStep
<1>4. CASE UNCHANGED vars
  BY <1>4, SchInvStutter
<1> QED BY <1>1, <1>2, <1>3, <1>4 DEF Next

\* The inductive invariant holds in every state, whatever the world does.
THEOREM SchInvariant == Spec => []SchInv
BY SchInvInit, SchInvStep, PTL DEF Spec

\* Every variable has its type.
THEOREM SchTypeCorrect == Spec => []SchTypeOK
<1>1. SchInv => SchTypeOK
  <2> SUFFICES ASSUME SchInv PROVE SchTypeOK
    OBVIOUS
  <2>1. StoreTypeOK /\ clock \in Nat
    BY DEF SchInv, StateInv, FilesOK, StoreTypeOK
  <2>2. /\ sheet \in [Sheets -> Contents] /\ audit \cup own \cup failed \subseteq Edits
        /\ DOMAIN backup \subseteq Sheets /\ done \in BOOLEAN
        /\ late \subseteq present /\ present \subseteq Sheets
    BY DEF SchInv, StateInv, EditsOK, BackupOK
  <2>3. /\ DOMAIN cache \subseteq Nat /\ torn \subseteq Nat
        /\ \A m \in DOMAIN cache : cache[m] \in States
    BY <2>1 DEF SchInv, StateInv, CacheOK
  <2>4. /\ DOMAIN states = DOMAIN entries /\ doubted \subseteq Nat
        /\ \A i \in DOMAIN states : states[i] \in States
    BY DEF SchInv, StateInv, SnapsOK
  <2>5. /\ call.todo \in Seq(Steps) /\ call.reply \in Replies /\ call.edit \in Edits
        /\ call.built \in States /\ call.copying \subseteq Sheets /\ call.loaded \in Contents
    BY DEF SchInv, CallInv, CallOK, Calls
  <2> QED BY <2>1, <2>2, <2>3, <2>4, <2>5 DEF SchTypeOK
<1> QED BY <1>1, SchInvariant, PTL

\* A hit in the state cache tells what the root schematic holds now, unless it
\* was read across a write of another program.
THEOREM CacheCorrect == Spec => []CacheIsTruth
<1>1. SchInv => CacheIsTruth
  BY DEF SchInv, StateInv, CacheOK, TrueAt, Truth, CacheIsTruth
<1> QED BY <1>1, SchInvariant, PTL

\* A snapshot accepted as a base leaves nothing out that the root schematic holds
\* now and tells nothing else, but for what its own call's edit shows in the netlist
\* or on another sheet, however many calls, writers and restored backups came after.
THEOREM ValidBaseCorrect == Spec => []ValidBaseIsTruth
<1>1. SchInv => ValidBaseIsTruth
  <2> SUFFICES ASSUME SchInv, NEW i \in DOMAIN entries, ValidBase(i), i \notin doubted
               PROVE  /\ Settled(states[i]) = View(sheet[Root])
                      /\ \A d, e \in states[i].guessed : d = e
    BY DEF ValidBaseIsTruth
  <2>1. PICK m \in 1..clock : entries[i].mtimes = {RootMtimes(m)} /\ TellsAt(m, states[i])
    BY DEF SchInv, StateInv, SnapsOK
  <2>2. \A f \in DOMAIN RootMtimes(m) : mtime[f] = RootMtimes(m)[f]
    BY <2>1 DEF ValidBase, Unchanged, Changed
  <2>3. m = mtime[Root]
    BY <2>2, SheetsAssumption DEF RootMtimes
  <2> QED BY <2>1, <2>3 DEF TellsAt, TrueAt, Truth, OneGuess
<1> QED BY <1>1, SchInvariant, PTL

\* Gate G1: once the session has changed a sheet, every sheet that was in the root
\* schematic's directory when the backup was begun has a copy with no edit of the
\* session in it.
THEOREM BackupCorrect == Spec => []MutationHasBackup
<1>1. SchInv => MutationHasBackup
  BY DEF SchInv, StateInv, BackupOK, ToBackUp, MutationHasBackup
<1> QED BY <1>1, SchInvariant, PTL

\* No change is made in silence: it is in the audit log, or its call failed.
THEOREM AuditCorrect == Spec => []AuditOrFailure
<1>1. SchInv => AuditOrFailure
  BY DEF SchInv
<1> QED BY <1>1, SchInvariant, PTL

\* A tool that writes a whole sheet loses no edit that was in the file when it
\* opened it to make its own.
THEOREM WriteKeepsEdits == Spec => SchWriteKeepsEdits
<1>1. ASSUME SchInv, WriteSheet
      PROVE  \A e \in sheet[call.target].edits \ sheet'[call.target].edits : e.n >= call.mark
  <2>1. Running /\ Doing("write")
    BY <1>1 DEF WriteSheet, Doing
  <2>2. /\ call.target \in Sheets /\ sheet \in [Sheets -> Contents]
        /\ \A e \in sheet[call.target].edits : e \in call.loaded.edits \/ e.n >= call.mark
    BY <1>1, <2>1 DEF SchInv, CallInv, CallOK, Calls, LoadOK, StateInv, EditsOK
  <2>3. \/ UNCHANGED sheet
        \/ \E edits, bare : /\ call.loaded.edits \subseteq edits
                            /\ sheet' = [sheet EXCEPT ![call.target] =
                                           [edits |-> edits, bare |-> bare]]
    BY <1>1 DEF WriteSheet, SetSheet
  <2>4. CASE UNCHANGED sheet
    BY <2>4
  <2>5. ASSUME NEW edits, NEW bare, call.loaded.edits \subseteq edits,
               sheet' = [sheet EXCEPT ![call.target] = [edits |-> edits, bare |-> bare]]
        PROVE  \A e \in sheet[call.target].edits \ sheet'[call.target].edits : e.n >= call.mark
    <3>1. sheet'[call.target].edits = edits
      BY <2>2, <2>5
    <3> QED BY <2>2, <2>5, <3>1, Zenon
  <2> QED BY <2>3, <2>4, <2>5
<1>2. SchInv /\ [Next]_vars =>
        [WriteSheet =>
           \A e \in sheet[call.target].edits \ sheet'[call.target].edits : e.n >= call.mark]_vars
  BY <1>1
<1> QED BY <1>2, SchInvariant, PTL DEF Spec, SchWriteKeepsEdits

----------------------------------------------------------------------------
(* What the agent may do with an answer                                    *)

\* A call with steps left that goes on has not answered.
LEMMA StillRunning ==
  ASSUME SchInv, Running, NEW n \in Nat, n < Len(call.todo), NEW known,
         "todo" \in DOMAIN known, known.todo = call.todo, GoOn(n, known)
  PROVE  Running'
<1> DEFINE rest == SubSeq(call.todo, n + 1, Len(call.todo))
<1>1. call.todo \in Seq(Steps) /\ Len(call.todo) \in Nat
  BY DEF SchInv, CallInv, CallOK, Calls
<1>2. rest # <<>>
  BY <1>1, RestOfEnd
<1>3. call' = [known EXCEPT !.todo = rest]
  BY <1>1 DEF GoOn
<1> HIDE DEF rest
<1> QED BY <1>2, <1>3 DEF Running

\* A call is a record that says what is left of it.
LEMMA KeepsTodo ==
  ASSUME SchInv
  PROVE  "todo" \in DOMAIN call
BY DEF SchInv, CallInv, CallOK, Calls

\* Only the last steps of the programs answer that a call succeeded.
LEMMA OnlyTheLastAnswers ==
  ASSUME SchInv, Next, Running, ~Running', call'.reply = "OK"
  PROVE  Audit \/ Encode
<1> SUFFICES ASSUME ~Audit, ~Encode PROVE FALSE
  OBVIOUS
<1>0. /\ "todo" \in DOMAIN call /\ CallOK
      /\ 1 \in Nat /\ 3 \in Nat /\ 4 \in Nat /\ Len(call.todo) \in Nat
  BY KeepsTodo, AtStep, Stages
<1>1. \A reply : Return(reply) => reply = "OK"
  BY DEF Return, Idle
<1>2. ~MayFail /\ \A base : ~Return(Refusal(base))
  BY <1>1, FailureReplies DEF MayFail
<1>3. ASSUME 1 < Len(call.todo), Continue PROVE FALSE
  BY <1>0, <1>3, StillRunning DEF Continue
<1>4. CASE CheckBase \/ DeltaBase
  BY <1>0, <1>2, <1>3, <1>4, Stages DEF CheckBase, DeltaBase
<1>5. CASE Check \/ Load
  <2> DEFINE known == [call EXCEPT !.loaded = sheet[call.target], !.mark = nextEdit]
  <2>1. GoOn(1, known) /\ (Doing("check") \/ Doing("load"))
    BY <1>2, <1>5 DEF Check, Load
  <2>2. "todo" \in DOMAIN known /\ known.todo = call.todo
    BY <1>0
  <2> HIDE DEF known
  <2>3. 1 < Len(call.todo)
    BY <1>0, <2>1, Stages, EditStages
  <2> QED BY <1>0, <2>1, <2>2, <2>3, StillRunning
<1>6. CASE Stat
  <2> DEFINE key == mtime[Root]
             miss == [call EXCEPT !.key = key, !.raced = key \in torn]
             hit == [miss EXCEPT !.built = cache[key], !.key = 0]
  <2>1. Len(call.todo) > 3
    BY <1>0, <1>6, Stages DEF Stat
  <2>2. GoOn(3, hit) \/ GoOn(1, miss)
    <3>1. Len(Build) = 3
      BY DEF Build
    <3> QED BY <1>6, <3>1 DEF Stat
  <2>3. /\ "todo" \in DOMAIN miss /\ miss.todo = call.todo
        /\ "todo" \in DOMAIN hit /\ hit.todo = call.todo
    BY <1>0
  <2> HIDE DEF miss, hit
  <2>4. 1 < Len(call.todo) /\ 3 < Len(call.todo)
    BY <1>0, <2>1
  <2> QED BY <1>0, <2>2, <2>3, <2>4, StillRunning
<1>7. CASE Positions
  <2> DEFINE known == [call EXCEPT !.placed = Placed(sheet[Root])]
  <2>1. GoOn(1, known) /\ Doing("positions")
    BY <1>2, <1>7 DEF Positions
  <2>2. "todo" \in DOMAIN known /\ known.todo = call.todo
    BY <1>0
  <2> HIDE DEF known
  <2>3. 1 < Len(call.todo)
    BY <1>0, <2>1, Stages
  <2> QED BY <1>0, <2>1, <2>2, <2>3, StillRunning
<1>8. CASE ReadNetlist
  <2>1. PICK state : GoOn(1, [call EXCEPT !.built = state, !.placed = {}, !.key = 0])
    BY <1>1, <1>2, <1>8 DEF ReadNetlist
  <2> DEFINE known == [call EXCEPT !.built = state, !.placed = {}, !.key = 0]
  <2>2. "todo" \in DOMAIN known /\ known.todo = call.todo /\ GoOn(1, known)
    BY <1>0, <2>1
  <2> HIDE DEF known
  <2>3. 1 < Len(call.todo)
    BY <1>0, <1>8, Stages DEF ReadNetlist
  <2> QED BY <1>0, <2>2, <2>3, StillRunning
<1>9. CASE Backup
  <2> DEFINE known == [call EXCEPT !.copying = present \ Below]
  <2>1. Len(call.todo) = 8 /\ (GoOn(3, call) \/ GoOn(1, known))
    <3>1. Len(SessionBackup) = 3
      BY DEF SessionBackup
    <3> QED BY <1>0, <1>9, <3>1, EditStages DEF Backup
  <2>2. "todo" \in DOMAIN known /\ known.todo = call.todo
    BY <1>0
  <2> HIDE DEF known
  <2>3. 1 < Len(call.todo) /\ 3 < Len(call.todo)
    BY <2>1
  <2> QED BY <1>0, <2>1, <2>2, <2>3, StillRunning
<1>10. CASE CopySheet \/ Checkpoint
  <2>1. /\ Doing("copy") \/ Doing("git")
        /\ Continue \/ \E s : call' = [call EXCEPT !.copying = @ \ {s}]
    BY <1>2, <1>10 DEF CopySheet, Checkpoint
  <2>2. 1 < Len(call.todo)
    BY <1>0, <2>1, EditStages
  <2>3. ASSUME NEW s, call' = [call EXCEPT !.copying = @ \ {s}] PROVE FALSE
    <3>1. call'.todo = call.todo
      BY <1>0, <2>3
    <3> QED BY <3>1 DEF Running
  <2> QED BY <1>3, <2>1, <2>2, <2>3
<1>11. CASE WriteSheet
  <2> DEFINE edit == [call.edit EXCEPT !.n = nextEdit]
             known == [call EXCEPT !.edit = edit, !.loaded = NoContent]
  <2>1. GoOn(1, known) /\ Doing("write")
    <3>1. call' # Idle("FAILED")
      BY DEF Idle
    <3> QED BY <1>2, <1>11, <3>1 DEF WriteSheet
  <2>2. "todo" \in DOMAIN known /\ known.todo = call.todo
    BY <1>0
  <2> HIDE DEF known
  <2>3. 1 < Len(call.todo)
    BY <1>0, <2>1, EditStages
  <2> QED BY <1>0, <2>1, <2>2, <2>3, StillRunning
<1>12. CASE Verify \/ RegisterState
  <2>1. Continue /\ (Doing("verify") \/ Doing("register"))
    BY <1>1, <1>2, <1>12 DEF Verify, RegisterState
  <2>2. 1 < Len(call.todo)
    BY <1>0, <2>1, Stages, EditStages
  <2> QED BY <1>3, <2>1, <2>2
<1>13. CASE ExternalWrite \/ ExternalCreate \/ Restore
  <2>1. PICK s : Disturb(s)
    BY <1>13 DEF ExternalWrite, ExternalCreate, Restore
  <2>2. call'.todo = call.todo
    BY <1>0, <2>1 DEF Disturb
  <2> QED BY <2>2 DEF Running
<1>14. CASE ServerRestart
  BY <1>14 DEF ServerRestart, Idle
<1>15. CASE BeginQuery \/ BeginEdit
  BY <1>15 DEF BeginQuery, BeginEdit
<1> QED BY <1>4, <1>5, <1>6, <1>7, <1>8, <1>9, <1>10, <1>11, <1>12, <1>13, <1>14, <1>15
  DEF Next, ToolStep

\* D-08.5: the snapshot that an undisturbed call returns is a valid base of the
\* next one, the server's own write of the sheet notwithstanding.
THEOREM AnswersCorrect == Spec => OkSnapIsValid
<1>1. ASSUME SchInv, Next, Running, ~Running', call.alone, call'.reply = "OK"
      PROVE  ValidBase(nextId - 1)'
  <2>1. (Audit \/ Encode) /\ UNCHANGED storeVars
    BY <1>1, OnlyTheLastAnswers DEF Audit, Encode, Kept
  <2>2. ValidBase(nextId - 1)
    BY <1>1, <2>1 DEF SchInv, CallInv, AnswerOK, Audit, Encode
  <2> QED BY <2>1, <2>2 DEF storeVars, sheets, ValidBase, Unchanged, Changed
<1>2. SchInv /\ [Next]_vars =>
        [Running /\ ~Running' /\ call.alone /\ call'.reply = "OK"
           => ValidBase(nextId - 1)']_vars
  BY <1>1
<1> QED BY <1>2, SchInvariant, PTL DEF Spec, OkSnapIsValid

=============================================================================
