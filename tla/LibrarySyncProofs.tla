-------------------------- MODULE LibrarySyncProofs --------------------------
(***************************************************************************)
(* Theorems of LibrarySync, for any documents, names and bounds. Typed is  *)
(* inductive by itself; EditsKept needs KeptInTime: of a file that is      *)
(* about to be overwritten or removed, the user's edit, if it is owed to   *)
(* the user, is kept already. That no projection is stray rests on         *)
(* Accounted, where a projection may lie while a write is on its way; that *)
(* two passes mirror the library on what one pass that nothing came        *)
(* between has settled: who has which path, and that nothing moves again.  *)
(***************************************************************************)
EXTENDS LibrarySync, TLAPS

Phases == {"idle", "replay", "replaying", "fetch", "documents", "old", "begun", "written",
           "removed", "recorded", "placed", "removing", "dropping"}
Writing == {"begun", "written", "removed", "recorded", "placed"}
Libraries == [Docs -> [name : Names \cup {NoName}, rev : 0..MaxRev]]
Placements == {NoPlacement} \cup [path : Paths, canonical : Paths, rev : 1..MaxRev]
Somewhere == Paths \cup {Plain(NoName)}
File == [of : Docs, rev : 1..MaxRev] \cup [of : {User}, rev : 0..MaxEvents]
Passes == [kind : {"none", "once", "refresh"}, phase : Phases, library : Libraries,
           todo : SUBSET Docs, doc : Docs \cup {User}, target : Somewhere, path : Somewhere,
           rev : 0..MaxRev, previous : Placements, moves : BOOLEAN, clean : BOOLEAN]

\* What a pass knows in each of its phases.
PassTyped ==
    /\ pass \in Passes
    /\ pass.todo \subseteq Present(pass.library)
    /\ pass.phase \in {"old"} \cup Writing =>
          pass.doc \in Docs /\ pass.target \in Paths /\ pass.path \in Paths /\ pass.rev # 0
    /\ pass.moves => pass.phase \in Writing /\ pass.previous # NoPlacement
    /\ pass.kind = "refresh" => pass.doc \in Docs
    /\ pass.phase \in {"removing", "dropping"} =>
          pass.kind = "once" /\ pass.doc \in Docs /\ db[pass.doc] # NoPlacement
JournalTyped ==
    /\ op \in {NoOp} \cup [doc : Docs, path : Paths]
    /\ pass.phase = "replaying" => op # NoOp
    /\ pass.phase \in Writing => op = [doc |-> pass.doc, path |-> pass.path]
    /\ pass.phase \in {"fetch", "documents", "old", "removing", "dropping"} => op = NoOp
PlacementsTyped == db \in [Docs -> Placements] /\ meta \in [Docs -> Placements]
DiskTyped ==
    /\ disk \in [Paths -> File]
    /\ \A p \in Paths : disk[p].of = User => disk[p].rev \in 0..events
RecordTyped ==
    /\ events \in 0..MaxEvents
    /\ made \subseteq 1..events /\ kept \subseteq 1..MaxEvents
    /\ excused \subseteq Docs /\ quiet \in 0..2
ServerTyped == server \in [Docs -> [name : Names \cup {NoName}, rev : 1..MaxRev]]

Typed == ServerTyped /\ DiskTyped /\ PlacementsTyped /\ JournalTyped /\ RecordTyped /\ PassTyped

\* An edit in a file that the pass is about to replace is kept, if it is owed to the user.
KeptInTime == \A p \in Paths :
    BeingReplaced(p) /\ disk[p].of = User /\ disk[p].rev \in made => disk[p].rev \in kept

IInv == Typed /\ EditsKept /\ KeptInTime

-----------------------------------------------------------------------------
(* Paths and files. *)

\* The sets and bounds, as SMT needs them.
LEMMA Types ==
    /\ \A d \in Docs : d \in Nat /\ d # User
    /\ MaxSuffix \in Nat \ {0} /\ MaxRev \in Nat \ {0} /\ MaxEvents \in Nat
    /\ NoName \notin Names
  BY LibrarySyncAssumption DEF User

\* No path is the one that stands for none.
LEMMA PathsAreNamed ==
    /\ \A p \in Paths : p.name \in Names
    /\ Plain(NoName).name = NoName
    /\ Plain(NoName) \notin Paths
  <1>1. \A p \in Paths : p.name \in Names
    BY DEF Paths, Plain, Suffixed
  <1>2. Plain(NoName).name = NoName
    BY DEF Plain
  <1>3. QED BY <1>1, <1>2, Types

\* Projections and edits are files, and no projection is an edit.
LEMMA FilesTyped ==
    /\ \A d \in Docs, r \in 1..MaxRev : Projection(d, r) \in File /\ Projection(d, r).of # User
    /\ Nothing \in File /\ Nothing.of = User /\ Nothing.rev = 0
    /\ \A e \in 0..MaxEvents : Edit(e) \in File /\ Edit(e).of = User /\ Edit(e).rev = e
  BY Types DEF Projection, Edit, Nothing, File

\* allocatePaths gives every document of a snapshot a path.
LEMMA TargetTyped ==
    ASSUME NEW library \in Libraries, NEW d \in Present(library)
    PROVE  Target(library, d) \in Paths
  <1>1. library[d].name \in Names /\ d \in Docs
    BY DEF Present, Libraries
  <1>2. Plain(library[d].name) \in Paths
    BY <1>1 DEF Paths
  <1>3. 1 \in 1..2 * MaxSuffix
    BY Types
  <1>4. Suffixed(library[d].name, d, 1) \in Paths
    BY <1>1, <1>3 DEF Paths
  <1>5. QED BY <1>2, <1>4 DEF Target

\* firstAvailableSibling stays among the paths.
LEMMA SiblingTyped ==
    ASSUME NEW p \in Paths, NEW d \in Docs, NEW k \in 1..MaxSuffix
    PROVE  Sibling(p, d, k) \in Paths
  <1>1. p.name \in Names
    BY DEF Paths, Plain, Suffixed
  <1>2. k \in 1..2 * MaxSuffix /\ MaxSuffix + k \in 1..2 * MaxSuffix
    BY Types
  <1>3. QED BY <1>1, <1>2 DEF Sibling, Paths

\* The path a document is written to is a path, and free if the document has no
\* placement.
LEMMA ResolvedTyped ==
    ASSUME NEW d \in Docs, NEW target \in Paths, NEW previous \in Placements,
           NEW p \in Resolved(d, target, previous)
    PROVE  p \in Paths /\ (previous = NoPlacement => ~Taken(p))
  <1>1. CASE previous.path = target
    BY <1>1, PathsAreNamed DEF Resolved, NoPlacement
  <1>2. CASE /\ previous.path # target
             /\ previous # NoPlacement /\ previous.canonical = target /\ Taken(previous.path)
    BY <1>2 DEF Resolved, Placements
  <1>3. CASE /\ previous.path # target /\ ~Taken(target)
             /\ ~(previous # NoPlacement /\ previous.canonical = target /\ Taken(previous.path))
    BY <1>3 DEF Resolved
  <1>4. CASE /\ previous.path # target /\ Taken(target)
             /\ ~(previous # NoPlacement /\ previous.canonical = target /\ Taken(previous.path))
    <2>1. PICK k \in 1..MaxSuffix : p = Sibling(target, d, k) /\ ~Taken(p)
      BY <1>4 DEF Resolved, FirstAvailable
    <2>2. QED BY <2>1, SiblingTyped
  <1>5. QED BY <1>1, <1>2, <1>3, <1>4

\* A pass that is over knows nothing.
LEMMA NoPassTyped ==
    /\ NoPass \in Passes
    /\ NoPass.phase = "idle" /\ NoPass.kind = "none" /\ NoPass.todo = {}
    /\ NoPass.moves = FALSE /\ NoPass.doc = User
  <1>1. NoPlacement.path = Plain(NoName) /\ NoPlacement \in Placements
    BY DEF NoPlacement, Placements
  <1>2. [d \in Docs |-> [name |-> NoName, rev |-> 0]] \in Libraries
    BY Types DEF Libraries
  <1>3. 0 \in 0..MaxRev /\ Plain(NoName) \in Somewhere
    BY Types DEF Somewhere
  <1>4. QED BY <1>1, <1>2, <1>3 DEF NoPass, Passes, Phases

\* The placement a write starts from, of the database or of the metadata file.
LEMMA PreviousTyped ==
    ASSUME PlacementsTyped, NEW d \in Docs
    PROVE  Previous(d) \in Placements
  BY DEF PlacementsTyped, Previous

\* preserveRecovery: the edit in a file that is there is kept, and all that was kept before.
LEMMA PreservesTyped ==
    ASSUME Typed, NEW p \in Paths, Taken(p), Preserves(disk[p])
    PROVE  kept' \subseteq 1..MaxEvents /\ kept \subseteq kept'
           /\ (disk[p].of = User => disk[p].rev \in kept')
  <1>1. disk[p] \in File
    BY DEF Typed, DiskTyped
  <1>2. disk[p].of = User => disk[p].rev \in 1..MaxEvents
    BY <1>1, Types DEF File, Taken, Nothing, Edit
  <1>3. QED BY <1>2 DEF Preserves, Typed, RecordTyped

-----------------------------------------------------------------------------
(* Types. *)

\* An empty root and an empty database are well-typed.
THEOREM InitTyped == LSInit => Typed
  <1> SUFFICES ASSUME LSInit PROVE Typed
    OBVIOUS
  <1> USE DEF LSInit
  <1>1. ServerTyped
    BY Types DEF ServerTyped
  <1>2. DiskTyped
    <2>1. Nothing \in File /\ Nothing.rev = 0
      BY FilesTyped
    <2>2. QED BY <2>1, Types DEF DiskTyped
  <1>3. PlacementsTyped
    BY DEF PlacementsTyped, Placements
  <1>4. JournalTyped
    BY NoPassTyped DEF JournalTyped, Writing
  <1>5. RecordTyped
    BY Types DEF RecordTyped
  <1>6. PassTyped
    BY NoPassTyped DEF PassTyped, Writing
  <1>7. QED BY <1>1, <1>2, <1>3, <1>4, <1>5, <1>6 DEF Typed

\* A step that ends the pass.
LEMMA EndedTyped ==
    ASSUME pass' = NoPass, op' \in {NoOp} \cup [doc : Docs, path : Paths]
    PROVE  PassTyped' /\ JournalTyped'
  <1>1. PassTyped'
    BY NoPassTyped DEF PassTyped, Writing
  <1>2. JournalTyped'
    BY NoPassTyped DEF JournalTyped, Writing
  <1>3. QED BY <1>1, <1>2

\* A step from one phase to another keeps all else a pass knows.
LEMMA GoesTyped ==
    ASSUME Typed, NEW phase \in Phases, Goes(phase)
    PROVE  /\ pass' \in Passes /\ pass'.phase = phase
           /\ pass'.todo \subseteq Present(pass'.library)
           /\ pass'.moves => pass.phase \in Writing /\ pass'.previous # NoPlacement
           /\ pass'.kind = "refresh" => pass'.doc \in Docs
           /\ pass'.doc = pass.doc /\ pass'.path = pass.path /\ pass'.target = pass.target
           /\ pass'.rev = pass.rev /\ pass'.kind = pass.kind
  BY DEF Typed, PassTyped, Goes, Passes

\* A step of a write: it goes from one phase of writing to the next.
LEMMA WritingTyped ==
    ASSUME Typed, NEW phase \in Writing, pass.phase \in Writing, Goes(phase), UNCHANGED <<op, db>>
    PROVE  PassTyped' /\ JournalTyped'
  <1>1. phase \in Phases
    BY DEF Writing, Phases
  <1>2. PassTyped'
    BY <1>1, GoesTyped DEF Typed, PassTyped, Writing
  <1>3. JournalTyped'
    BY <1>1, GoesTyped DEF Typed, JournalTyped, Writing
  <1>4. QED BY <1>2, <1>3

\* A file of any kind may come to be anywhere.
LEMMA DiskSetTyped ==
    ASSUME Typed, NEW p \in Paths, NEW file \in File, file.of = User => file.rev \in 0..events',
           disk' = [disk EXCEPT ![p] = file], events' \in {events, events + 1}
    PROVE  DiskTyped'
  <1>1. disk' \in [Paths -> File]
    BY DEF Typed, DiskTyped
  <1>2. ASSUME NEW q \in Paths, disk'[q].of = User
        PROVE  disk'[q].rev \in 0..events'
    <2>1. CASE q = p
      BY <1>2, <2>1 DEF Typed, DiskTyped
    <2>2. CASE q # p
      <3>1. disk'[q] = disk[q]
        BY <2>2 DEF Typed, DiskTyped
      <3>2. disk[q].rev \in 0..events /\ events \in Nat
        BY <1>2, <3>1, Types DEF Typed, DiskTyped, RecordTyped
      <3>3. QED BY <3>1, <3>2
    <2>3. QED BY <2>1, <2>2
  <1>3. QED BY <1>1, <1>2 DEF DiskTyped

\* A file may be removed anywhere.
LEMMA RemovedTyped ==
    ASSUME Typed, NEW p \in Paths, disk' = [disk EXCEPT ![p] = Nothing], UNCHANGED events
    PROVE  DiskTyped'
  <1>1. 0 \in 0..events
    BY Types DEF Typed, RecordTyped
  <1>2. QED BY <1>1, DiskSetTyped, FilesTyped

\* What the user and the library do leaves pass and journal well-typed.
LEMMA StirsTyped ==
    ASSUME Typed, Stirs, UNCHANGED <<op, db>>
    PROVE  PassTyped' /\ JournalTyped' /\ quiet' \in 0..2
  <1>1. quiet' = 0
    BY DEF Stirs
  <1>2. pass' = pass \/ pass' = [pass EXCEPT !.clean = FALSE]
    BY DEF Stirs
  <1>3. CASE pass' = pass
    BY <1>1, <1>3 DEF Typed, PassTyped, JournalTyped
  <1>4. CASE pass' = [pass EXCEPT !.clean = FALSE]
    <2>1. /\ pass' \in Passes /\ pass'.phase = pass.phase /\ pass'.library = pass.library
          /\ pass'.todo = pass.todo /\ pass'.doc = pass.doc /\ pass'.target = pass.target
          /\ pass'.path = pass.path /\ pass'.rev = pass.rev /\ pass'.previous = pass.previous
          /\ pass'.moves = pass.moves /\ pass'.kind = pass.kind
      BY <1>4 DEF Typed, PassTyped, Passes
    <2>2. PassTyped'
      BY <2>1 DEF Typed, PassTyped
    <2>3. JournalTyped'
      BY <2>1 DEF Typed, JournalTyped
    <2>4. QED BY <1>1, <2>2, <2>3
  <1>5. QED BY <1>2, <1>3, <1>4

\* An event gets a number no earlier event has.
LEMMA HappensTyped ==
    ASSUME Typed, Happens
    PROVE  /\ events' = events + 1 /\ events \in Nat
           /\ events' \in 1..MaxEvents /\ events \notin events'..MaxEvents
           /\ made \subseteq 1..events'
  BY Types DEF Typed, RecordTyped, Happens

\* A document whose placement is dropped has none, in the database and on disk.
LEMMA DropsTyped ==
    ASSUME Typed, NEW d \in Docs, Drops(d)
    PROVE  PlacementsTyped'
  BY DEF Typed, PlacementsTyped, Placements, Drops

\* The looks of writeProjection at its target keep the types.
LEMMA LooksTyped ==
    ASSUME Typed, NEW d \in Docs, NEW target \in Paths, NEW rev \in 1..MaxRev,
           op = NoOp, pass.phase \in {"fetch", "documents"}, Looks(d, target, rev)
    PROVE  Typed'
  <1>1. Previous(d) \in Placements
    BY PreviousTyped DEF Typed
  <1>2. PICK p \in Resolved(d, target, Previous(d)) :
          /\ IF Taken(p) /\ Dirty(d, Previous(d), disk[p]) THEN Preserves(disk[p]) ELSE UNCHANGED kept
          /\ pass' = [pass EXCEPT !.phase = "old", !.doc = d, !.target = target, !.path = p,
                                  !.rev = rev, !.previous = Previous(d)]
          /\ UNCHANGED <<disk, op, placements, world, record>>
    BY DEF Looks
  <1>3. p \in Paths
    BY <1>1, <1>2, ResolvedTyped
  <1>4. kept' \subseteq 1..MaxEvents
    BY <1>2, <1>3, PreservesTyped DEF Typed, RecordTyped
  <1>5. rev \in 0..MaxRev /\ rev # 0
    BY Types
  <1>6. pass' \in Passes
    BY <1>1, <1>2, <1>3, <1>5 DEF Typed, PassTyped, Passes, Phases, Somewhere
  <1>7. PassTyped'
    <2>1. /\ pass'.todo = pass.todo /\ pass'.library = pass.library /\ pass'.moves = pass.moves
          /\ pass'.phase = "old" /\ pass'.doc = d /\ pass'.target = target /\ pass'.path = p
          /\ pass'.rev = rev
      BY <1>2 DEF Typed, PassTyped, Passes
    <2>2. ~pass.moves
      BY DEF Typed, PassTyped, Writing
    <2>3. QED BY <1>3, <1>5, <1>6, <2>1, <2>2 DEF Typed, PassTyped, Writing
  <1>8. JournalTyped'
    BY <1>2, <1>6 DEF Typed, JournalTyped, PassTyped, Passes, Writing
  <1>9. ServerTyped' /\ DiskTyped' /\ PlacementsTyped' /\ RecordTyped'
    BY <1>2, <1>4 DEF Typed, ServerTyped, DiskTyped, PlacementsTyped, RecordTyped,
                      placements, world, record
  <1>10. QED BY <1>7, <1>8, <1>9 DEF Typed

\* Every step of the sync, the user, the library and the process keeps the types.
THEOREM StepTyped == Typed /\ [LSNext]_vars => Typed'
  <1> SUFFICES ASSUME Typed, [LSNext]_vars PROVE Typed'
    OBVIOUS
  <1> USE DEF files, placements, world, record
  <1>1. CASE OnceBegins
    <2>1. pass' = [NoPass EXCEPT !.kind = "once", !.phase = "replay"]
      BY <1>1 DEF OnceBegins
    <2>2. /\ pass' \in Passes /\ pass'.phase = "replay" /\ pass'.todo = {} /\ ~pass'.moves
          /\ pass'.kind = "once"
      BY <2>1, NoPassTyped DEF Passes, Phases
    <2>3. QED BY <1>1, <2>2 DEF OnceBegins, Typed, ServerTyped, DiskTyped, PlacementsTyped,
                 JournalTyped, RecordTyped, PassTyped, Writing
  <1>2. ASSUME NEW d \in Docs, RefreshBegins(d) PROVE Typed'
    <2>1. pass' = [NoPass EXCEPT !.kind = "refresh", !.phase = "replay", !.doc = d]
      BY <1>2 DEF RefreshBegins
    <2>2. /\ pass' \in Passes /\ pass'.phase = "replay" /\ pass'.todo = {} /\ ~pass'.moves
          /\ pass'.doc = d
      BY <2>1, NoPassTyped DEF Passes, Phases
    <2>3. QED BY <1>2, <2>2 DEF RefreshBegins, Typed, ServerTyped, DiskTyped, PlacementsTyped,
                 JournalTyped, RecordTyped, PassTyped, Writing
  <1>3. CASE ReplayReads
    <2>1. op.path \in Paths
      BY <1>3 DEF ReplayReads, Typed, JournalTyped, NoOp
    <2>2. kept' \subseteq 1..MaxEvents
      BY <1>3, <2>1, PreservesTyped DEF ReplayReads
    <2>3. "replaying" \in Phases /\ pass.phase \notin Writing
      BY <1>3 DEF ReplayReads, At, Phases, Writing
    <2>4. PassTyped'
      BY <1>3, <2>3, GoesTyped DEF ReplayReads, PassTyped, Writing
    <2>5. JournalTyped'
      BY <1>3, <2>3, GoesTyped DEF ReplayReads, Typed, JournalTyped, Writing
    <2>6. QED BY <1>3, <2>2, <2>4, <2>5 DEF ReplayReads, Typed, ServerTyped, DiskTyped,
                 PlacementsTyped, RecordTyped
  <1>4. CASE ReplayRemoves
    <2>1. pass.phase \in {"replay", "replaying"}
      BY <1>4 DEF ReplayRemoves, At
    <2>2. "fetch" \in Phases /\ pass.phase \notin Writing
      BY <2>1 DEF Phases, Writing
    <2>3. PassTyped'
      BY <1>4, <2>2, GoesTyped DEF ReplayRemoves, PassTyped, Writing
    <2>4. JournalTyped'
      BY <1>4, <2>2, GoesTyped DEF ReplayRemoves, JournalTyped, Writing
    <2>5. DiskTyped'
      <3>1. CASE At("replaying")
        <4>1. op.path \in Paths
          BY <3>1 DEF At, Typed, JournalTyped, NoOp
        <4>2. QED BY <1>4, <3>1, <4>1, RemovedTyped DEF ReplayRemoves
      <3>2. CASE ~At("replaying")
        BY <1>4, <3>2 DEF ReplayRemoves, Typed, DiskTyped
      <3>3. QED BY <3>1, <3>2
    <2>6. QED BY <1>4, <2>3, <2>4, <2>5 DEF ReplayRemoves, Typed, ServerTyped, PlacementsTyped,
                 RecordTyped
  <1>5. CASE SnapshotFetched
    <2>1. server \in Libraries
      BY Types DEF Typed, ServerTyped, Libraries
    <2>2. /\ pass' \in Passes /\ pass'.phase = "documents" /\ pass'.library = server
          /\ pass'.todo = Present(server) /\ pass'.moves = pass.moves /\ pass'.kind = "once"
      BY <1>5, <2>1 DEF SnapshotFetched, Typed, PassTyped, Passes, Phases, Present
    <2>3. ~pass.moves
      BY <1>5 DEF SnapshotFetched, At, Typed, PassTyped, Writing
    <2>4. PassTyped'
      BY <2>2, <2>3 DEF PassTyped, Writing
    <2>5. JournalTyped'
      BY <1>5, <2>2 DEF SnapshotFetched, At, Typed, JournalTyped, Writing
    <2>6. QED BY <1>5, <2>4, <2>5 DEF SnapshotFetched, Typed, ServerTyped, DiskTyped,
                 PlacementsTyped, RecordTyped
  <1>6. CASE Aborts
    <2>1. op' \in {NoOp} \cup [doc : Docs, path : Paths]
      BY <1>6 DEF Aborts, Typed, JournalTyped
    <2>2. QED BY <1>6, <2>1, EndedTyped DEF Aborts, Typed, ServerTyped, DiskTyped,
                 PlacementsTyped, RecordTyped
  <1>7. ASSUME NEW d \in Docs, DocumentFetched(d) PROVE Typed'
    <2>1. pass.library \in Libraries /\ d \in Present(pass.library)
      BY <1>7 DEF DocumentFetched, Typed, PassTyped, Passes
    <2>2. Target(pass.library, d) \in Paths
      BY <2>1, TargetTyped
    <2>3. server[d].rev \in 1..MaxRev
      BY DEF Typed, ServerTyped
    <2>4. pass.phase \in {"fetch", "documents"} /\ op = NoOp
      BY <1>7 DEF DocumentFetched, At, Typed, JournalTyped
    <2>5. QED BY <1>7, <2>2, <2>3, <2>4, LooksTyped DEF DocumentFetched
  <1>8. CASE ProjectionFetched
    <2> DEFINE d == pass.doc
    <2>1. d \in Docs
      BY <1>8 DEF ProjectionFetched, Typed, PassTyped
    <2>2. db[d].canonical \in Paths
      BY <1>8, <2>1 DEF ProjectionFetched, Typed, PlacementsTyped, Placements
    <2>3. server[d].rev \in 1..MaxRev
      BY <2>1 DEF Typed, ServerTyped
    <2>4. pass.phase \in {"fetch", "documents"} /\ op = NoOp
      BY <1>8 DEF ProjectionFetched, At, Typed, JournalTyped
    <2>5. Looks(d, db[d].canonical, server[d].rev)
      BY <1>8 DEF ProjectionFetched
    <2>6. QED BY <2>1, <2>2, <2>3, <2>4, <2>5, LooksTyped
  <1>9. CASE LooksAtOld
    <2> DEFINE old == pass.previous.path
               moves == pass.previous # NoPlacement /\ old # pass.path /\ Taken(old)
    <2>1. /\ IF moves /\ Dirty(pass.doc, pass.previous, disk[old])
             THEN Preserves(disk[old]) ELSE UNCHANGED kept
          /\ op' = [doc |-> pass.doc, path |-> pass.path]
          /\ pass' = [pass EXCEPT !.phase = "begun", !.moves = moves]
      BY <1>9 DEF LooksAtOld
    <2>2. moves \in BOOLEAN /\ (moves => pass.previous # NoPlacement)
      OBVIOUS
    <2>3. moves => old \in Paths /\ Taken(old)
      BY DEF Typed, PassTyped, Passes, Placements
    <2>4. kept' \subseteq 1..MaxEvents
      BY <2>1, <2>3, PreservesTyped DEF Typed, RecordTyped
    <2>5. pass.phase = "old" /\ pass.doc \in Docs /\ pass.path \in Paths
      BY <1>9 DEF LooksAtOld, At, Typed, PassTyped
    <2> HIDE DEF moves
    <2>6. /\ pass' \in Passes /\ pass'.phase = "begun" /\ pass'.moves = moves
          /\ pass'.library = pass.library /\ pass'.todo = pass.todo /\ pass'.doc = pass.doc
          /\ pass'.target = pass.target /\ pass'.path = pass.path /\ pass'.rev = pass.rev
          /\ pass'.previous = pass.previous /\ pass'.kind = pass.kind
      BY <2>1, <2>2 DEF Typed, PassTyped, Passes, Phases
    <2>7. PassTyped'
      BY <2>2, <2>5, <2>6 DEF Typed, PassTyped, Writing
    <2>8. JournalTyped'
      BY <2>1, <2>5, <2>6 DEF JournalTyped, Writing
    <2>9. QED BY <1>9, <2>4, <2>7, <2>8 DEF LooksAtOld, Typed, ServerTyped, DiskTyped,
                 PlacementsTyped, RecordTyped
  <1>10. CASE WriteFile
    <2>1. pass.phase \in Writing /\ "written" \in Writing
      BY <1>10 DEF WriteFile, At, Writing
    <2>2. pass.doc \in Docs /\ pass.path \in Paths /\ pass.rev \in 1..MaxRev
      BY <2>1, Types DEF Typed, PassTyped, Passes
    <2>3. DiskTyped'
      BY <1>10, <2>2, FilesTyped, DiskSetTyped DEF WriteFile
    <2>4. PassTyped' /\ JournalTyped'
      BY <1>10, <2>1, WritingTyped DEF WriteFile
    <2>5. QED BY <1>10, <2>3, <2>4 DEF WriteFile, Typed, ServerTyped, PlacementsTyped, RecordTyped
  <1>11. CASE RemoveOld
    <2>1. pass.phase \in Writing /\ "removed" \in Writing
      BY <1>11 DEF RemoveOld, At, Writing
    <2>2. DiskTyped'
      <3>1. CASE pass.moves
        <4>1. pass.previous.path \in Paths
          BY <3>1 DEF Typed, PassTyped, Passes, Placements
        <4>2. QED BY <1>11, <3>1, <4>1, RemovedTyped DEF RemoveOld
      <3>2. CASE ~pass.moves
        BY <1>11, <3>2 DEF RemoveOld, Typed, DiskTyped
      <3>3. QED BY <3>1, <3>2
    <2>3. PassTyped' /\ JournalTyped'
      BY <1>11, <2>1, WritingTyped DEF RemoveOld
    <2>4. QED BY <1>11, <2>2, <2>3 DEF RemoveOld, Typed, ServerTyped, PlacementsTyped, RecordTyped
  <1>12. ASSUME pass.phase \in Writing
         PROVE  Placement \in Placements /\ Placement # NoPlacement
    <2>1. pass.target \in Paths /\ pass.path \in Paths /\ pass.rev \in 1..MaxRev
      BY <1>12, Types DEF Typed, PassTyped, Passes
    <2>2. QED BY <2>1, Types DEF Placement, Placements, NoPlacement
  <1>13. CASE WriteMetadata
    <2>1. pass.phase \in Writing /\ "recorded" \in Writing
      BY <1>13 DEF WriteMetadata, At, Writing
    <2>2. PassTyped' /\ JournalTyped'
      BY <1>13, <2>1, WritingTyped DEF WriteMetadata
    <2>3. PlacementsTyped'
      BY <1>12, <1>13, <2>1 DEF WriteMetadata, Typed, PlacementsTyped
    <2>4. QED BY <1>13, <2>2, <2>3 DEF WriteMetadata, Typed, ServerTyped, DiskTyped, RecordTyped
  <1>14. CASE UpsertPlacement
    <2>1. pass.phase \in Writing /\ "placed" \in Phases
      BY <1>14 DEF UpsertPlacement, At, Writing, Phases
    <2>2. PassTyped'
      BY <1>14, <2>1, GoesTyped DEF UpsertPlacement, Typed, PassTyped, Writing
    <2>3. JournalTyped'
      BY <1>14, <2>1, GoesTyped DEF UpsertPlacement, Typed, JournalTyped, Writing
    <2>4. PlacementsTyped'
      BY <1>12, <1>14, <2>1 DEF UpsertPlacement, Typed, PlacementsTyped
    <2>5. QED BY <1>14, <2>2, <2>3, <2>4 DEF UpsertPlacement, Typed, ServerTyped, DiskTyped,
                 RecordTyped
  <1>15. CASE FinishOp
    <2>1. /\ pass.todo \ {pass.doc} \subseteq Present(pass.library) /\ pass.library \in Libraries
          /\ pass.todo \ {pass.doc} \in SUBSET Docs /\ pass.clean \in BOOLEAN
      BY DEF Typed, PassTyped, Passes
    <2>2. CASE pass' = NoPass
      BY <1>15, <2>2, EndedTyped DEF FinishOp, Typed, ServerTyped, DiskTyped, PlacementsTyped,
         RecordTyped
    <2>3. CASE pass' = [NoPass EXCEPT !.kind = "once", !.phase = "documents", !.clean = pass.clean,
                                      !.library = pass.library, !.todo = pass.todo \ {pass.doc}]
      <3>1. /\ pass' \in Passes /\ pass'.kind = "once" /\ pass'.phase = "documents"
            /\ pass'.library = pass.library /\ pass'.todo = pass.todo \ {pass.doc}
            /\ pass'.moves = FALSE
        BY <2>1, <2>3, NoPassTyped DEF Passes, Phases
      <3>2. PassTyped'
        BY <2>1, <3>1 DEF PassTyped, Writing
      <3>3. JournalTyped'
        BY <1>15, <3>1 DEF FinishOp, JournalTyped, Writing
      <3>4. QED BY <1>15, <3>2, <3>3 DEF FinishOp, Typed, ServerTyped, DiskTyped, PlacementsTyped,
                   RecordTyped
    <2>4. QED BY <1>15, <2>2, <2>3 DEF FinishOp
  <1>16. CASE StepFails
    <2>1. pass.phase \in Writing /\ pass.doc \in Docs
      BY <1>16 DEF StepFails, Writing, Typed, PassTyped
    <2>2. op' \in {NoOp, op} /\ op' \in {NoOp} \cup [doc : Docs, path : Paths]
      BY <1>16 DEF StepFails, Typed, JournalTyped
    <2>3. PassTyped' /\ JournalTyped'
      <3>1. CASE At("written")
        <4>1. pass' = [pass EXCEPT !.phase = "removed", !.clean = FALSE] /\ op' = op /\ db' = db
          BY <1>16, <3>1 DEF StepFails, At
        <4>2. /\ pass' \in Passes /\ pass'.phase = "removed" /\ pass'.library = pass.library
              /\ pass'.todo = pass.todo /\ pass'.doc = pass.doc /\ pass'.target = pass.target
              /\ pass'.path = pass.path /\ pass'.rev = pass.rev /\ pass'.previous = pass.previous
              /\ pass'.moves = pass.moves /\ pass'.kind = pass.kind
          BY <4>1 DEF Typed, PassTyped, Passes, Phases
        <4>3. PassTyped'
          BY <2>1, <4>2 DEF Typed, PassTyped, Writing
        <4>4. JournalTyped'
          BY <2>1, <4>1, <4>2 DEF Typed, JournalTyped, Writing
        <4>5. QED BY <4>3, <4>4
      <3>2. CASE ~At("written")
        BY <1>16, <2>2, <3>2, EndedTyped DEF StepFails
      <3>3. QED BY <3>1, <3>2
    <2>4. DiskTyped' /\ RecordTyped'
      <3>1. events' \in 0..MaxEvents /\ made' \subseteq 1..events' /\ quiet' \in 0..2
        BY <1>16, HappensTyped DEF StepFails
      <3>2. excused' \subseteq Docs
        BY <1>16, <2>1 DEF StepFails, Typed, RecordTyped
      <3>3. RecordTyped'
        BY <1>16, <3>1, <3>2 DEF StepFails, Typed, RecordTyped
      <3>4. DiskTyped'
        BY <1>16, HappensTyped DEF StepFails, Typed, DiskTyped
      <3>5. QED BY <3>3, <3>4
    <2>5. QED BY <1>16, <2>3, <2>4 DEF StepFails, Typed, ServerTyped, PlacementsTyped
  <1>17. ASSUME NEW d \in Docs, RefusesRemoval(d) PROVE Typed'
    <2>1. PlacementsTyped'
      BY <1>17, DropsTyped DEF RefusesRemoval
    <2>2. PassTyped' /\ JournalTyped'
      BY <1>17 DEF RefusesRemoval, Sweeps, At, Typed, PassTyped, JournalTyped
    <2>3. excused' \subseteq Docs
      BY <1>17 DEF RefusesRemoval, Typed, RecordTyped
    <2>4. QED BY <1>17, <2>1, <2>2, <2>3 DEF RefusesRemoval, Typed, ServerTyped, DiskTyped,
                 RecordTyped
  <1>18. ASSUME NEW d \in Docs, ForgetsAbsent(d) PROVE Typed'
    <2>1. PlacementsTyped'
      BY <1>18, DropsTyped DEF ForgetsAbsent
    <2>2. PassTyped' /\ JournalTyped'
      BY <1>18 DEF ForgetsAbsent, Sweeps, At, Typed, PassTyped, JournalTyped
    <2>3. QED BY <1>18, <2>1, <2>2 DEF ForgetsAbsent, Typed, ServerTyped, DiskTyped, RecordTyped
  <1>19. ASSUME NEW d \in Docs, LooksAtAbsent(d) PROVE Typed'
    <2>1. db[d].path \in Paths /\ Taken(db[d].path) /\ db[d] # NoPlacement /\ pass.kind = "once"
      BY <1>19 DEF LooksAtAbsent, Sweeps, Absent, Typed, PlacementsTyped, Placements
    <2>2. kept' \subseteq 1..MaxEvents
      BY <1>19, <2>1, PreservesTyped DEF LooksAtAbsent, Typed, RecordTyped
    <2>3. pass.phase = "documents" /\ ~pass.moves
      BY <1>19 DEF LooksAtAbsent, Sweeps, At, Typed, PassTyped, Writing
    <2>4. /\ pass' \in Passes /\ pass'.phase = "removing" /\ pass'.library = pass.library
          /\ pass'.todo = pass.todo /\ pass'.doc = d /\ pass'.moves = pass.moves
          /\ pass'.kind = pass.kind
      BY <1>19 DEF LooksAtAbsent, Typed, PassTyped, Passes, Phases
    <2>5. PassTyped'
      BY <1>19, <2>1, <2>3, <2>4 DEF LooksAtAbsent, Typed, PassTyped, Writing
    <2>6. JournalTyped'
      BY <1>19, <2>3, <2>4 DEF LooksAtAbsent, Typed, JournalTyped, Writing
    <2>7. QED BY <1>19, <2>2, <2>5, <2>6 DEF LooksAtAbsent, Typed, ServerTyped, DiskTyped,
                 PlacementsTyped, RecordTyped
  <1>20. CASE RemovesAbsent
    <2>1. /\ pass.phase = "removing" /\ pass.kind = "once"
          /\ pass.doc \in Docs /\ db[pass.doc] # NoPlacement
      BY <1>20 DEF RemovesAbsent, At, Typed, PassTyped
    <2>2. db[pass.doc].path \in Paths
      BY <2>1 DEF Typed, PlacementsTyped, Placements
    <2>3. DiskTyped'
      BY <1>20, <2>2, RemovedTyped DEF RemovesAbsent
    <2>4. Goes("dropping") /\ "dropping" \in Phases /\ pass.phase \notin Writing
      BY <1>20, <2>1 DEF RemovesAbsent, Goes, Phases, Writing
    <2>5. PassTyped'
      BY <1>20, <2>1, <2>4, GoesTyped DEF RemovesAbsent, PassTyped, Writing
    <2>6. JournalTyped'
      BY <1>20, <2>1, <2>4, GoesTyped DEF RemovesAbsent, Typed, JournalTyped, Writing
    <2>7. QED BY <1>20, <2>3, <2>5, <2>6 DEF RemovesAbsent, Typed, ServerTyped, PlacementsTyped,
                 RecordTyped
  <1>21. CASE DropsAbsent
    <2>1. pass.phase = "dropping" /\ pass.doc \in Docs /\ ~pass.moves
      BY <1>21 DEF DropsAbsent, At, Typed, PassTyped, Writing
    <2>2. PlacementsTyped'
      BY <1>21, <2>1, DropsTyped DEF DropsAbsent
    <2>3. /\ pass' \in Passes /\ pass'.phase = "documents" /\ pass'.library = pass.library
          /\ pass'.todo = pass.todo /\ pass'.moves = pass.moves /\ pass'.kind = pass.kind
      BY <1>21 DEF DropsAbsent, Typed, PassTyped, Passes, Phases
    <2>4. pass.kind # "refresh"
      BY <2>1 DEF Typed, PassTyped
    <2>5. PassTyped'
      BY <2>1, <2>3, <2>4 DEF Typed, PassTyped, Writing
    <2>6. JournalTyped'
      BY <1>21, <2>1, <2>3 DEF DropsAbsent, Typed, JournalTyped, Writing
    <2>7. QED BY <1>21, <2>2, <2>5, <2>6 DEF DropsAbsent, Typed, ServerTyped, DiskTyped, RecordTyped
  <1>22. CASE PassEnds
    <2>1. quiet' \in 0..2
      BY <1>22 DEF PassEnds, Typed, RecordTyped
    <2>2. op' \in {NoOp} \cup [doc : Docs, path : Paths]
      BY <1>22 DEF PassEnds, Typed, JournalTyped
    <2>3. QED BY <1>22, <2>1, <2>2, EndedTyped DEF PassEnds, Typed, ServerTyped, DiskTyped,
                 PlacementsTyped, RecordTyped
  <1>23. ASSUME NEW p \in Paths, UserEdits(p) PROVE Typed'
    <2>1. /\ events' = events + 1 /\ events' \in 1..MaxEvents /\ made \subseteq 1..events'
          /\ events' \in 0..events' /\ events' \in 1..events'
      BY <1>23, HappensTyped DEF UserEdits
    <2>2. Edit(events') \in File /\ Edit(events').rev = events'
      BY <2>1, FilesTyped
    <2>3. DiskTyped'
      BY <1>23, <2>1, <2>2, DiskSetTyped DEF UserEdits
    <2>4. PassTyped' /\ JournalTyped' /\ quiet' \in 0..2
      BY <1>23, StirsTyped DEF UserEdits, Typed
    <2>5. RecordTyped'
      <3>1. made' \subseteq 1..events'
        <4>1. \A e \in made' : e \in made \/ e = events'
          BY <1>23 DEF UserEdits
        <4>2. QED BY <2>1, <4>1
      <3>2. QED BY <1>23, <2>1, <2>4, <3>1 DEF UserEdits, Typed, RecordTyped
    <2>6. QED BY <1>23, <2>3, <2>4, <2>5 DEF UserEdits, Typed, ServerTyped, PlacementsTyped
  <1>24. ASSUME NEW p \in Paths, UserDeletes(p) PROVE Typed'
    <2>1. /\ events' = events + 1 /\ events' \in 1..MaxEvents /\ made \subseteq 1..events'
          /\ 0 \in 0..events'
      BY <1>24, HappensTyped DEF UserDeletes
    <2>2. DiskTyped'
      BY <1>24, <2>1, FilesTyped, DiskSetTyped DEF UserDeletes
    <2>3. PassTyped' /\ JournalTyped' /\ quiet' \in 0..2
      BY <1>24, StirsTyped DEF UserDeletes, Typed
    <2>4. RecordTyped'
      <3>1. made' \subseteq made
        BY <1>24 DEF UserDeletes
      <3>2. made' \subseteq 1..events'
        BY <2>1, <3>1
      <3>3. QED BY <1>24, <2>1, <2>3, <3>2 DEF UserDeletes, Typed, RecordTyped
    <2>5. QED BY <1>24, <2>2, <2>3, <2>4 DEF UserDeletes, Typed, ServerTyped, PlacementsTyped
  <1>25. ASSUME NEW d \in Docs, LibraryChanges(d) PROVE Typed'
    <2>1. /\ events' = events + 1 /\ events' \in 1..MaxEvents /\ made \subseteq 1..events'
      BY <1>25, HappensTyped DEF LibraryChanges
    <2>2. ServerTyped'
      BY <1>25, Types DEF LibraryChanges, Typed, ServerTyped
    <2>3. PassTyped' /\ JournalTyped' /\ quiet' \in 0..2
      BY <1>25, StirsTyped DEF LibraryChanges, Typed
    <2>4. DiskTyped'
      BY <1>25, <2>1, Types DEF LibraryChanges, Typed, DiskTyped, RecordTyped
    <2>5. RecordTyped'
      BY <1>25, <2>1, <2>3 DEF LibraryChanges, Typed, RecordTyped
    <2>6. QED BY <1>25, <2>2, <2>3, <2>4, <2>5 DEF LibraryChanges, Typed, PlacementsTyped
  <1>26. CASE Crash
    <2>1. /\ events' = events + 1 /\ events' \in 1..MaxEvents /\ made \subseteq 1..events'
      BY <1>26, HappensTyped DEF Crash
    <2>2. op' \in {NoOp} \cup [doc : Docs, path : Paths]
      BY <1>26 DEF Crash, Typed, JournalTyped
    <2>3. PassTyped' /\ JournalTyped'
      BY <1>26, <2>2, EndedTyped DEF Crash
    <2>4. DiskTyped'
      BY <1>26, <2>1, Types DEF Crash, Typed, DiskTyped, RecordTyped
    <2>5. RecordTyped'
      BY <1>26, <2>1 DEF Crash, Typed, RecordTyped
    <2>6. QED BY <1>26, <2>3, <2>4, <2>5 DEF Crash, Typed, ServerTyped, PlacementsTyped
  <1>27. CASE UNCHANGED vars
    BY <1>27 DEF vars, Typed, ServerTyped, DiskTyped, PlacementsTyped, JournalTyped, RecordTyped,
                 PassTyped
  <1>28. ASSUME NEW d \in Docs, LeavesMetadata(d) PROVE Typed'
    <2>1. /\ events' = events + 1 /\ events' \in 1..MaxEvents /\ made \subseteq 1..events'
      BY <1>28, HappensTyped DEF LeavesMetadata
    <2>2. pass.phase \in {"documents", "dropping"} /\ pass.kind = "once" /\ op = NoOp /\ ~pass.moves
      BY <1>28 DEF LeavesMetadata, Sweeps, At, Typed, PassTyped, JournalTyped, Writing
    <2>3. PassTyped' /\ JournalTyped'
      <3>1. CASE pass' = NoPass
        BY <1>28, <2>2, <3>1, EndedTyped DEF LeavesMetadata
      <3>2. CASE pass' = [pass EXCEPT !.phase = "documents", !.doc = User, !.clean = FALSE]
        <4>1. /\ pass' \in Passes /\ pass'.phase = "documents" /\ pass'.library = pass.library
              /\ pass'.todo = pass.todo /\ pass'.moves = pass.moves /\ pass'.kind = pass.kind
          BY <3>2 DEF Typed, PassTyped, Passes, Phases
        <4>2. PassTyped'
          BY <2>2, <4>1 DEF Typed, PassTyped, Writing
        <4>3. JournalTyped'
          BY <1>28, <2>2, <4>1 DEF LeavesMetadata, JournalTyped, Writing
        <4>4. QED BY <4>2, <4>3
      <3>3. QED BY <1>28, <3>1, <3>2 DEF LeavesMetadata
    <2>4. PlacementsTyped'
      BY <1>28 DEF LeavesMetadata, Typed, PlacementsTyped, Placements
    <2>5. DiskTyped'
      BY <1>28, <2>1, Types DEF LeavesMetadata, Typed, DiskTyped, RecordTyped
    <2>6. RecordTyped'
      BY <1>28, <2>1 DEF LeavesMetadata, Typed, RecordTyped
    <2>7. QED BY <1>28, <2>3, <2>4, <2>5, <2>6 DEF LeavesMetadata, Typed, ServerTyped
  <1>29. QED BY <1>1, <1>2, <1>3, <1>4, <1>5, <1>6, <1>7, <1>8, <1>9, <1>10, <1>11, <1>13, <1>14,
                <1>15, <1>16, <1>17, <1>18, <1>19, <1>20, <1>21, <1>22, <1>23, <1>24, <1>25, <1>26,
                <1>27, <1>28 DEF LSNext

\* The variables have their types, and a write is in the journal from before its
\* file is touched until its placement is recorded (writeProjection, replayIncompleteOps).
THEOREM TypeCorrect == LSSpec => []LSTypeOK
  <1>1. Typed => LSTypeOK
    <2> SUFFICES ASSUME Typed PROVE LSTypeOK
      OBVIOUS
    <2>1. made \cup kept \subseteq 1..MaxEvents
      BY Types DEF Typed, RecordTyped
    <2>2. \A d \in Docs : \A m \in {db[d], meta[d]} :
            m = NoPlacement \/ m \in [path : Paths, canonical : Paths, rev : 1..MaxRev]
      BY DEF Typed, PlacementsTyped, Placements
    <2>3. QED BY <2>1, <2>2 DEF LSTypeOK, Typed, ServerTyped, DiskTyped, JournalTyped, RecordTyped,
                 File, Writing
  <1>2. QED BY InitTyped, StepTyped, <1>1, PTL DEF LSSpec

-----------------------------------------------------------------------------
(* No edit is lost. *)

\* After a look at a file, it holds no edit that is not kept: with no placement
\* there is no file, and what is not dirty is a projection.
LEMMA LooksKeeps ==
    ASSUME Typed, NEW d \in Docs, NEW target \in Paths, NEW rev, Looks(d, target, rev)
    PROVE  \E p \in Paths :
              /\ pass'.phase = "old" /\ pass'.path = p
              /\ disk[p].of = User /\ disk[p].rev \in made => disk[p].rev \in kept'
              /\ kept \subseteq kept' /\ UNCHANGED <<disk, op, placements, world, record>>
  <1>1. Previous(d) \in Placements
    BY PreviousTyped DEF Typed
  <1>2. PICK p \in Resolved(d, target, Previous(d)) :
          /\ IF Taken(p) /\ Dirty(d, Previous(d), disk[p]) THEN Preserves(disk[p]) ELSE UNCHANGED kept
          /\ pass' = [pass EXCEPT !.phase = "old", !.doc = d, !.target = target, !.path = p,
                                  !.rev = rev, !.previous = Previous(d)]
          /\ UNCHANGED <<disk, op, placements, world, record>>
    BY DEF Looks
  <1>3. p \in Paths /\ (Previous(d) = NoPlacement => ~Taken(p))
    BY <1>1, <1>2, ResolvedTyped
  <1>4. pass'.phase = "old" /\ pass'.path = p
    BY <1>2 DEF Typed, PassTyped, Passes
  <1>5. CASE Taken(p) /\ Dirty(d, Previous(d), disk[p])
    <2>1. Preserves(disk[p])
      BY <1>2, <1>5
    <2>2. QED BY <1>2, <1>3, <1>4, <1>5, <2>1, PreservesTyped
  <1>6. CASE ~Taken(p)
    <2>1. disk[p].rev \notin made
      BY <1>6, FilesTyped, Types DEF Taken, Typed, RecordTyped
    <2>2. QED BY <1>2, <1>3, <1>4, <1>6, <2>1
  <1>7. CASE Taken(p) /\ ~Dirty(d, Previous(d), disk[p])
    <2>1. disk[p] = Projection(d, Previous(d).rev)
      BY <1>3, <1>7 DEF Dirty
    <2>2. disk[p].of # User
      BY <2>1, Types DEF Projection
    <2>3. QED BY <1>2, <1>3, <1>4, <1>7, <2>2
  <1>8. QED BY <1>5, <1>6, <1>7

\* A file is replaced only when what it holds is kept, so the edits stay.
LEMMA ReplacedKept ==
    ASSUME IInv, NEW p \in Paths, NEW file \in File, BeingReplaced(p),
           disk' = [disk EXCEPT ![p] = file], UNCHANGED <<made, kept>>
    PROVE  EditsKept'
  <1> SUFFICES ASSUME NEW e \in made, e \notin kept
               PROVE  \E q \in Paths : disk'[q] = Edit(e)
    BY DEF EditsKept
  <1>1. PICK q \in Paths : disk[q] = Edit(e)
    BY DEF IInv, EditsKept
  <1>2. q # p
    BY <1>1 DEF IInv, KeptInTime, Edit
  <1>3. disk'[q] = disk[q]
    BY <1>2 DEF IInv, Typed, DiskTyped
  <1>4. QED BY <1>1, <1>3

\* Nothing is lost by a step that leaves the files, or that only keeps more.
LEMMA DiskUnchangedKept ==
    ASSUME EditsKept, kept \subseteq kept', UNCHANGED <<made, disk>>
    PROVE  EditsKept'
  BY DEF EditsKept

\* In every other phase no file is about to be replaced.
LEMMA NothingReplaced ==
    ASSUME pass'.phase \notin {"replaying", "old", "begun", "written", "removing"}
    PROVE  KeptInTime'
  BY DEF KeptInTime, BeingReplaced, At

\* The looks of writeProjection at its target lose no edit.
LEMMA DocumentLookedAt ==
    ASSUME IInv, NEW d \in Docs, NEW target \in Paths, NEW rev, Looks(d, target, rev)
    PROVE  EditsKept' /\ KeptInTime'
  <1>1. PICK p \in Paths :
              /\ pass'.phase = "old" /\ pass'.path = p
              /\ disk[p].of = User /\ disk[p].rev \in made => disk[p].rev \in kept'
              /\ kept \subseteq kept' /\ UNCHANGED <<disk, op, placements, world, record>>
    BY LooksKeeps DEF IInv
  <1>2. EditsKept'
    BY <1>1, DiskUnchangedKept DEF IInv, record
  <1>3. KeptInTime'
    BY <1>1 DEF KeptInTime, BeingReplaced, At, record
  <1>4. QED BY <1>2, <1>3

\* What the user or the library does leaves the pass where it is.
LEMMA StillReplaced ==
    ASSUME Typed, Stirs, UNCHANGED <<op, db>>, NEW p \in Paths, BeingReplaced(p)'
    PROVE  BeingReplaced(p)
  <1>1. /\ pass'.phase = pass.phase /\ pass'.path = pass.path /\ pass'.moves = pass.moves
        /\ pass'.previous = pass.previous /\ pass'.doc = pass.doc
    BY DEF Stirs, Typed, PassTyped, Passes
  <1>2. QED BY <1>1 DEF BeingReplaced, At

\* Every step keeps each edit owed to the user in its file or in a recovery, and
\* lets no file be replaced before its edit is kept.
THEOREM StepKept == IInv /\ [LSNext]_vars => EditsKept' /\ KeptInTime'
  <1> SUFFICES ASSUME IInv, [LSNext]_vars PROVE EditsKept' /\ KeptInTime'
    OBVIOUS
  <1> USE DEF files, placements, world, record
  <1>a. Typed /\ EditsKept /\ KeptInTime
    BY DEF IInv
  <1>1. CASE OnceBegins
    <2>1. pass'.phase = "replay"
      BY <1>1, NoPassTyped DEF OnceBegins, Passes
    <2>2. QED BY <1>1, <1>a, <2>1, NothingReplaced, DiskUnchangedKept DEF OnceBegins
  <1>2. ASSUME NEW d \in Docs, RefreshBegins(d) PROVE EditsKept' /\ KeptInTime'
    <2>1. pass'.phase = "replay"
      BY <1>2, NoPassTyped DEF RefreshBegins, Passes
    <2>2. QED BY <1>2, <1>a, <2>1, NothingReplaced, DiskUnchangedKept DEF RefreshBegins
  <1>3. CASE ReplayReads
    <2>1. op.path \in Paths
      BY <1>3, <1>a DEF ReplayReads, Typed, JournalTyped, NoOp
    <2>2. kept \subseteq kept' /\ (disk[op.path].of = User => disk[op.path].rev \in kept')
      BY <1>3, <1>a, <2>1, PreservesTyped DEF ReplayReads
    <2>3. pass'.phase = "replaying"
      BY <1>3, <1>a DEF ReplayReads, Goes, Typed, PassTyped, Passes
    <2>4. KeptInTime'
      BY <1>3, <2>2, <2>3 DEF ReplayReads, KeptInTime, BeingReplaced, At
    <2>5. QED BY <1>3, <1>a, <2>2, <2>4, DiskUnchangedKept DEF ReplayReads
  <1>4. CASE ReplayRemoves
    <2>1. KeptInTime'
      <3>1. pass'.phase = "fetch"
        BY <1>4, <1>a DEF ReplayRemoves, Goes, Typed, PassTyped, Passes
      <3>2. QED BY <3>1, NothingReplaced
    <2>2. CASE At("replaying")
      <3>1. op.path \in Paths /\ BeingReplaced(op.path)
        BY <1>a, <2>2 DEF At, Typed, JournalTyped, NoOp, BeingReplaced
      <3>2. QED BY <1>4, <2>1, <2>2, <3>1, FilesTyped, ReplacedKept DEF ReplayRemoves
    <2>3. CASE ~At("replaying")
      BY <1>4, <1>a, <2>1, <2>3, DiskUnchangedKept DEF ReplayRemoves
    <2>4. QED BY <2>2, <2>3
  <1>5. CASE SnapshotFetched
    <2>1. pass'.phase = "documents"
      BY <1>5, <1>a DEF SnapshotFetched, Typed, PassTyped, Passes
    <2>2. QED BY <1>5, <1>a, <2>1, NothingReplaced, DiskUnchangedKept DEF SnapshotFetched
  <1>6. CASE Aborts
    BY <1>6, <1>a, NoPassTyped, NothingReplaced, DiskUnchangedKept DEF Aborts
  <1>7. ASSUME NEW d \in Docs, DocumentFetched(d) PROVE EditsKept' /\ KeptInTime'
    <2>1. pass.library \in Libraries /\ d \in Present(pass.library)
      BY <1>7, <1>a DEF DocumentFetched, Typed, PassTyped, Passes
    <2>2. Target(pass.library, d) \in Paths
      BY <2>1, TargetTyped
    <2>3. QED BY <1>7, <2>2, DocumentLookedAt DEF DocumentFetched
  <1>8. CASE ProjectionFetched
    <2>1. pass.doc \in Docs
      BY <1>8, <1>a DEF ProjectionFetched, Typed, PassTyped
    <2>2. db[pass.doc].canonical \in Paths
      BY <1>8, <1>a, <2>1 DEF ProjectionFetched, Typed, PlacementsTyped, Placements
    <2>3. QED BY <1>8, <2>1, <2>2, DocumentLookedAt DEF ProjectionFetched
  <1>9. CASE LooksAtOld
    <2> DEFINE old == pass.previous.path
               moves == pass.previous # NoPlacement /\ old # pass.path /\ Taken(old)
    <2>1. /\ IF moves /\ Dirty(pass.doc, pass.previous, disk[old])
             THEN Preserves(disk[old]) ELSE UNCHANGED kept
          /\ pass' = [pass EXCEPT !.phase = "begun", !.moves = moves]
          /\ UNCHANGED <<disk, made>>
      BY <1>9 DEF LooksAtOld
    <2>2. moves => old \in Paths /\ Taken(old)
      BY <1>a DEF Typed, PassTyped, Passes, Placements
    <2>3. kept \subseteq kept'
      BY <1>a, <2>1, <2>2, PreservesTyped
    <2>4. ASSUME moves, disk[old].of = User PROVE disk[old].rev \in kept'
      <3>1. pass.doc \in Docs
        BY <1>9, <1>a DEF LooksAtOld, At, Typed, PassTyped
      <3>2. Dirty(pass.doc, pass.previous, disk[old])
        BY <2>4, <3>1, Types DEF Dirty, Projection
      <3>3. QED BY <1>a, <2>1, <2>2, <2>4, <3>2, PreservesTyped
    <2>5. pass.phase = "old"
      BY <1>9 DEF LooksAtOld, At
    <2> HIDE DEF moves
    <2>6. /\ pass'.phase = "begun" /\ pass'.moves = moves /\ pass'.path = pass.path
          /\ pass'.previous = pass.previous
      BY <1>a, <2>1 DEF Typed, PassTyped, Passes
    <2>7. KeptInTime'
      BY <1>a, <2>1, <2>3, <2>4, <2>5, <2>6 DEF KeptInTime, BeingReplaced, At
    <2>8. QED BY <1>a, <2>1, <2>3, <2>7, DiskUnchangedKept
  <1>10. CASE WriteFile
    <2>1. pass.phase = "begun"
      BY <1>10 DEF WriteFile, At
    <2>2. pass.doc \in Docs /\ pass.path \in Paths /\ pass.rev \in 1..MaxRev
      BY <1>a, <2>1, Types DEF Typed, PassTyped, Passes, Writing
    <2>3. BeingReplaced(pass.path)
      BY <2>1 DEF BeingReplaced
    <2>4. EditsKept'
      BY <1>10, <2>2, <2>3, FilesTyped, ReplacedKept DEF WriteFile
    <2>5. /\ pass'.phase = "written" /\ pass'.moves = pass.moves /\ pass'.path = pass.path
          /\ pass'.previous = pass.previous
      BY <1>10, <1>a DEF WriteFile, Goes, Typed, PassTyped, Passes
    <2>6. KeptInTime'
      <3> SUFFICES ASSUME NEW p \in Paths, BeingReplaced(p)', disk'[p].of = User,
                          disk'[p].rev \in made
                   PROVE  disk'[p].rev \in kept
        BY <1>10 DEF WriteFile, KeptInTime
      <3>1. pass.moves /\ p = pass.previous.path
        BY <2>5 DEF BeingReplaced, At
      <3>2. BeingReplaced(p)
        BY <2>1, <3>1 DEF BeingReplaced
      <3>3. p # pass.path
        BY <1>10, <1>a, <2>2, FilesTyped DEF WriteFile, Typed, DiskTyped
      <3>4. disk'[p] = disk[p]
        BY <1>10, <1>a, <3>3 DEF WriteFile, Typed, DiskTyped
      <3>5. QED BY <1>a, <3>2, <3>4 DEF KeptInTime
    <2>7. QED BY <2>4, <2>6
  <1>11. CASE RemoveOld
    <2>1. KeptInTime'
      <3>1. pass'.phase = "removed"
        BY <1>11, <1>a DEF RemoveOld, Goes, Typed, PassTyped, Passes
      <3>2. QED BY <3>1, NothingReplaced
    <2>2. CASE pass.moves
      <3>1. pass.previous.path \in Paths /\ BeingReplaced(pass.previous.path)
        BY <1>11, <1>a, <2>2 DEF RemoveOld, At, Typed, PassTyped, Passes, Placements, BeingReplaced
      <3>2. QED BY <1>11, <2>1, <2>2, <3>1, FilesTyped, ReplacedKept DEF RemoveOld
    <2>3. CASE ~pass.moves
      BY <1>11, <1>a, <2>1, <2>3, DiskUnchangedKept DEF RemoveOld
    <2>4. QED BY <2>2, <2>3
  <1>12. CASE WriteMetadata
    <2>1. pass'.phase = "recorded"
      BY <1>12, <1>a DEF WriteMetadata, Goes, Typed, PassTyped, Passes
    <2>2. QED BY <1>12, <1>a, <2>1, NothingReplaced, DiskUnchangedKept DEF WriteMetadata
  <1>13. CASE UpsertPlacement
    <2>1. pass'.phase = "placed"
      BY <1>13, <1>a DEF UpsertPlacement, Goes, Typed, PassTyped, Passes
    <2>2. QED BY <1>13, <1>a, <2>1, NothingReplaced, DiskUnchangedKept DEF UpsertPlacement
  <1>14. CASE FinishOp
    <2>1. pass'.phase \in {"idle", "documents"}
      BY <1>14, NoPassTyped DEF FinishOp, Passes
    <2>2. QED BY <1>14, <1>a, <2>1, NothingReplaced, DiskUnchangedKept DEF FinishOp
  <1>15. CASE StepFails
    <2>1. pass'.phase \in {"idle", "removed"}
      BY <1>15, <1>a, NoPassTyped DEF StepFails, Typed, PassTyped, Passes
    <2>2. QED BY <1>15, <1>a, <2>1, NothingReplaced, DiskUnchangedKept DEF StepFails
  <1>16. ASSUME NEW d \in Docs, RefusesRemoval(d) \/ ForgetsAbsent(d)
         PROVE  EditsKept' /\ KeptInTime'
    <2>1. pass'.phase = "documents" /\ UNCHANGED <<disk, kept, made>>
      BY <1>16 DEF RefusesRemoval, ForgetsAbsent, Sweeps, At
    <2>2. QED BY <1>a, <2>1, NothingReplaced, DiskUnchangedKept
  <1>17. ASSUME NEW d \in Docs, LooksAtAbsent(d) PROVE EditsKept' /\ KeptInTime'
    <2> DEFINE p == db[d].path
    <2>1. p \in Paths /\ Taken(p) /\ db[d] # NoPlacement
      BY <1>17, <1>a DEF LooksAtAbsent, Sweeps, Absent, Typed, PlacementsTyped, Placements
    <2>2. kept \subseteq kept' /\ (disk[p].of = User => disk[p].rev \in kept')
      <3>1. CASE Dirty(d, db[d], disk[p])
        BY <1>17, <1>a, <2>1, <3>1, PreservesTyped DEF LooksAtAbsent
      <3>2. CASE ~Dirty(d, db[d], disk[p])
        BY <1>17, <2>1, <3>2, Types DEF LooksAtAbsent, Dirty, Projection
      <3>3. QED BY <3>1, <3>2
    <2>3. pass'.phase = "removing" /\ pass'.doc = d
      BY <1>17, <1>a DEF LooksAtAbsent, Typed, PassTyped, Passes
    <2>4. KeptInTime'
      BY <1>17, <2>2, <2>3 DEF LooksAtAbsent, KeptInTime, BeingReplaced, At
    <2>5. QED BY <1>17, <1>a, <2>2, <2>4, DiskUnchangedKept DEF LooksAtAbsent
  <1>18. CASE RemovesAbsent
    <2>1. db[pass.doc].path \in Paths /\ BeingReplaced(db[pass.doc].path)
      BY <1>18, <1>a DEF RemovesAbsent, At, Typed, PassTyped, PlacementsTyped, Placements,
                         BeingReplaced
    <2>2. pass'.phase = "dropping"
      BY <1>18, <1>a DEF RemovesAbsent, Typed, PassTyped, Passes
    <2>3. QED BY <1>18, <2>1, <2>2, FilesTyped, NothingReplaced, ReplacedKept DEF RemovesAbsent
  <1>19. CASE DropsAbsent
    <2>1. pass'.phase = "documents"
      BY <1>19, <1>a DEF DropsAbsent, Typed, PassTyped, Passes
    <2>2. QED BY <1>19, <1>a, <2>1, NothingReplaced, DiskUnchangedKept DEF DropsAbsent
  <1>20. CASE PassEnds
    BY <1>20, <1>a, NoPassTyped, NothingReplaced, DiskUnchangedKept DEF PassEnds
  <1>21. ASSUME NEW p \in Paths, UserEdits(p) PROVE EditsKept' /\ KeptInTime'
    <2>1. /\ events' \in 1..MaxEvents /\ events' \notin made
          /\ \A q \in Paths : disk[q].of = User => disk[q].rev # events'
      BY <1>21, <1>a, HappensTyped DEF UserEdits, Typed, RecordTyped, DiskTyped
    <2>2. Edit(events').of = User /\ Edit(events').rev = events' /\ disk'[p] = Edit(events')
      BY <1>21, <1>a DEF UserEdits, Edit, Typed, DiskTyped
    <2>3. \A q \in Paths : q # p => disk'[q] = disk[q]
      BY <1>21, <1>a DEF UserEdits, Typed, DiskTyped
    <2>4. EditsKept'
      <3> SUFFICES ASSUME NEW e \in made', e \notin kept
                   PROVE  \E q \in Paths : disk'[q] = Edit(e)
        BY <1>21 DEF UserEdits, EditsKept
      <3>1. CASE e = events'
        BY <2>2, <3>1
      <3>2. CASE e # events'
        <4>1. e \in made /\ e \notin Discarded(p)
          BY <1>21, <3>2 DEF UserEdits
        <4>2. PICK q \in Paths : disk[q] = Edit(e)
          BY <1>a, <4>1 DEF EditsKept
        <4>3. q # p
          BY <4>1, <4>2 DEF Discarded, Edit
        <4>4. QED BY <2>3, <4>2, <4>3
      <3>3. QED BY <3>1, <3>2
    <2>5. KeptInTime'
      <3> SUFFICES ASSUME NEW q \in Paths, BeingReplaced(q)', disk'[q].of = User,
                          disk'[q].rev \in made'
                   PROVE  disk'[q].rev \in kept
        BY <1>21 DEF UserEdits, KeptInTime
      <3>1. BeingReplaced(q)
        BY <1>21, <1>a, StillReplaced DEF UserEdits
      <3>2. q # p
        BY <1>21, <2>1, <2>2, <3>1 DEF UserEdits
      <3>3. disk[q].rev \in made
        BY <1>21, <2>1, <2>3, <3>2 DEF UserEdits
      <3>4. QED BY <1>a, <2>3, <3>1, <3>2, <3>3 DEF KeptInTime
    <2>6. QED BY <2>4, <2>5
  <1>22. ASSUME NEW p \in Paths, UserDeletes(p) PROVE EditsKept' /\ KeptInTime'
    <2>1. disk'[p] = Nothing /\ \A q \in Paths : q # p => disk'[q] = disk[q]
      BY <1>22, <1>a DEF UserDeletes, Typed, DiskTyped
    <2>2. EditsKept'
      <3> SUFFICES ASSUME NEW e \in made', e \notin kept
                   PROVE  \E q \in Paths : disk'[q] = Edit(e)
        BY <1>22 DEF UserDeletes, EditsKept
      <3>1. e \in made /\ e \notin Discarded(p)
        BY <1>22 DEF UserDeletes
      <3>2. PICK q \in Paths : disk[q] = Edit(e)
        BY <1>a, <3>1 DEF EditsKept
      <3>3. q # p
        BY <3>1, <3>2 DEF Discarded, Edit
      <3>4. QED BY <2>1, <3>2, <3>3
    <2>3. KeptInTime'
      <3> SUFFICES ASSUME NEW q \in Paths, BeingReplaced(q)', disk'[q].of = User,
                          disk'[q].rev \in made'
                   PROVE  disk'[q].rev \in kept
        BY <1>22 DEF UserDeletes, KeptInTime
      <3>1. BeingReplaced(q)
        BY <1>22, <1>a, StillReplaced DEF UserDeletes
      <3>2. disk'[q].rev \in made
        BY <1>22 DEF UserDeletes
      <3>3. q # p
        BY <1>a, <2>1, <3>2, FilesTyped, Types DEF Typed, RecordTyped
      <3>4. QED BY <1>a, <2>1, <3>1, <3>2, <3>3 DEF KeptInTime
    <2>4. QED BY <2>2, <2>3
  <1>23. ASSUME NEW d \in Docs, LibraryChanges(d) PROVE EditsKept' /\ KeptInTime'
    <2>1. EditsKept'
      BY <1>23, <1>a, DiskUnchangedKept DEF LibraryChanges
    <2>2. KeptInTime'
      BY <1>23, <1>a, StillReplaced DEF LibraryChanges, KeptInTime
    <2>3. QED BY <2>1, <2>2
  <1>24. CASE Crash
    BY <1>24, <1>a, NoPassTyped, NothingReplaced, DiskUnchangedKept DEF Crash
  <1>25. CASE UNCHANGED vars
    BY <1>25, <1>a DEF vars, EditsKept, KeptInTime, BeingReplaced, At
  <1>26. ASSUME NEW d \in Docs, LeavesMetadata(d) PROVE EditsKept' /\ KeptInTime'
    <2>1. pass'.phase \in {"idle", "documents"}
      BY <1>26, <1>a, NoPassTyped DEF LeavesMetadata, Typed, PassTyped, Passes
    <2>2. QED BY <1>26, <1>a, <2>1, NothingReplaced, DiskUnchangedKept DEF LeavesMetadata
  <1>27. QED BY <1>1, <1>2, <1>3, <1>4, <1>5, <1>6, <1>7, <1>8, <1>9, <1>10, <1>11, <1>12, <1>13,
                <1>14, <1>15, <1>16, <1>17, <1>18, <1>19, <1>20, <1>21, <1>22, <1>23, <1>24, <1>25,
                <1>26 DEF LSNext

\* Whatever moves, removals, replays, failures and crashes come together, an edit
\* of the user is in its file or in a recovery (preserveRecovery, placementLocallyDirty).
THEOREM NoEditLost == LSSpec => []EditsKept
  <1>1. LSInit => IInv
    <2> SUFFICES ASSUME LSInit PROVE IInv
      OBVIOUS
    <2>1. Typed /\ EditsKept
      BY InitTyped DEF LSInit, EditsKept
    <2>2. KeptInTime
      BY NoPassTyped DEF LSInit, KeptInTime, BeingReplaced, At
    <2>3. QED BY <2>1, <2>2 DEF IInv
  <1>2. IInv /\ [LSNext]_vars => IInv'
    BY StepTyped, StepKept DEF IInv
  <1>3. IInv => EditsKept
    BY DEF IInv
  <1>4. QED BY <1>1, <1>2, <1>3, PTL DEF LSSpec

-----------------------------------------------------------------------------
(* What the steps do to the pass.                                            *)

SamePass == /\ pass'.kind = pass.kind /\ pass'.library = pass.library
            /\ pass'.todo = pass.todo /\ pass'.clean = pass.clean
SameWork == /\ pass'.doc = pass.doc /\ pass'.target = pass.target /\ pass'.path = pass.path
            /\ pass'.rev = pass.rev /\ pass'.previous = pass.previous
Old == pass.previous.path

\* Steps that go on with what the pass knows, or learn something.
LEMMA PassSteps ==
    ASSUME Typed
    PROVE  /\ \A phase \in Phases : Goes(phase) =>
                pass'.phase = phase /\ SamePass /\ SameWork /\ pass'.moves = pass.moves
           /\ SnapshotFetched =>
                /\ pass'.phase = "documents" /\ pass'.kind = "once" /\ pass'.clean = pass.clean
                /\ pass'.library = server /\ pass'.todo = Present(server)
           /\ LooksAtOld =>
                /\ pass'.phase = "begun" /\ SamePass /\ SameWork
                /\ pass'.moves = (pass.previous # NoPlacement /\ Old # pass.path /\ Taken(Old))
           /\ \A d \in Docs : LooksAtAbsent(d) =>
                pass'.phase = "removing" /\ pass'.doc = d /\ SamePass
           /\ DropsAbsent => pass'.phase = "documents" /\ pass'.doc = User /\ SamePass
  <1> USE DEF SamePass, SameWork, Typed, PassTyped, Passes, Phases
  <1>1. \A phase \in Phases : Goes(phase) =>
           pass'.phase = phase /\ SamePass /\ SameWork /\ pass'.moves = pass.moves
    BY DEF Goes
  <1>2. SnapshotFetched =>
           /\ pass'.phase = "documents" /\ pass'.kind = "once" /\ pass'.clean = pass.clean
           /\ pass'.library = server /\ pass'.todo = Present(server)
    BY DEF SnapshotFetched
  <1>3. LooksAtOld =>
           /\ pass'.phase = "begun" /\ SamePass /\ SameWork
           /\ pass'.moves = (pass.previous # NoPlacement /\ Old # pass.path /\ Taken(Old))
    <2> DEFINE moves == pass.previous # NoPlacement /\ Old # pass.path /\ Taken(Old)
    <2>1. moves \in BOOLEAN
      OBVIOUS
    <2>2. LooksAtOld => pass' = [pass EXCEPT !.phase = "begun", !.moves = moves]
      BY DEF LooksAtOld, Old
    <2> HIDE DEF moves
    <2>3. LooksAtOld => pass'.phase = "begun" /\ SamePass /\ SameWork /\ pass'.moves = moves
      BY <2>2
    <2>4. QED BY <2>3 DEF moves
  <1>4. \A d \in Docs : LooksAtAbsent(d) =>
           pass'.phase = "removing" /\ pass'.doc = d /\ SamePass
    BY DEF LooksAtAbsent
  <1>5. DropsAbsent => pass'.phase = "documents" /\ pass'.doc = User /\ SamePass
    BY DEF DropsAbsent
  <1>6. QED BY <1>1, <1>2, <1>3, <1>4, <1>5

\* A pass begins with nothing, and so does the next document of a pass.
LEMMA PassBegins ==
    ASSUME Typed
    PROVE  /\ OnceBegins => pass'.phase = "replay" /\ pass'.kind = "once"
                            /\ pass'.doc = User /\ pass'.clean
           /\ \A d \in Docs : RefreshBegins(d) =>
                pass'.phase = "replay" /\ pass'.kind = "refresh" /\ pass'.doc = d /\ pass'.clean
           /\ FinishOp /\ pass' # NoPass =>
                /\ pass'.phase = "documents" /\ pass'.kind = "once" /\ pass.kind # "refresh"
                /\ pass'.doc = User /\ pass'.clean = pass.clean
                /\ pass'.library = pass.library /\ pass'.todo = pass.todo \ {pass.doc}
  <1>1. NoPass.clean = TRUE
    BY DEF NoPass
  <1> USE NoPassTyped, <1>1 DEF Passes
  <1>2. OnceBegins => pass'.phase = "replay" /\ pass'.kind = "once"
                      /\ pass'.doc = User /\ pass'.clean
    BY DEF OnceBegins
  <1>3. \A d \in Docs : RefreshBegins(d) =>
           pass'.phase = "replay" /\ pass'.kind = "refresh" /\ pass'.doc = d /\ pass'.clean
    BY DEF RefreshBegins
  <1>4. FinishOp /\ pass' # NoPass =>
           /\ pass'.phase = "documents" /\ pass'.kind = "once" /\ pass.kind # "refresh"
           /\ pass'.doc = User /\ pass'.clean = pass.clean
           /\ pass'.library = pass.library /\ pass'.todo = pass.todo \ {pass.doc}
    BY DEF FinishOp
  <1>5. QED BY <1>2, <1>3, <1>4

\* The look at a document's target begins its write.
LEMMA PassLooks ==
    ASSUME Typed, NEW d, NEW target, NEW rev, Looks(d, target, rev)
    PROVE  /\ pass'.phase = "old" /\ SamePass /\ pass'.moves = pass.moves
           /\ pass'.doc = d /\ pass'.target = target /\ pass'.rev = rev
           /\ pass'.previous = Previous(d) /\ pass'.path \in Resolved(d, target, Previous(d))
  <1>1. PICK p \in Resolved(d, target, Previous(d)) :
          pass' = [pass EXCEPT !.phase = "old", !.doc = d, !.target = target, !.path = p,
                               !.rev = rev, !.previous = Previous(d)]
    BY DEF Looks
  <1>2. QED BY <1>1 DEF SamePass, Typed, PassTyped, Passes

\* What comes between leaves the pass what it knows, but that it was alone.
LEMMA PassStirs ==
    ASSUME Typed, Stirs
    PROVE  /\ pass'.phase = pass.phase /\ SameWork /\ pass'.moves = pass.moves
           /\ pass'.kind = pass.kind /\ pass'.library = pass.library /\ pass'.todo = pass.todo
           /\ pass.phase # "idle" => ~pass'.clean
           /\ quiet' = 0
  BY DEF Stirs, At, SameWork, Typed, PassTyped, Passes

\* A step that fails ends the pass, or, when it was to remove the old file, is passed over.
LEMMA PassFails ==
    ASSUME Typed, StepFails
    PROVE  /\ quiet' = 0 /\ UNCHANGED <<disk, db, meta, server>>
           /\ \/ pass' = NoPass
              \/ /\ pass'.phase = "removed" /\ SameWork /\ ~pass'.clean
                 /\ pass.phase = "written" /\ pass'.kind = pass.kind
                 /\ pass'.library = pass.library /\ pass'.todo = pass.todo
  BY DEF StepFails, At, SameWork, Typed, PassTyped, Passes, placements

\* Where a metadata file is left behind, the pass ends or goes on, no longer clean.
LEMMA PassLeaves ==
    ASSUME Typed, NEW d \in Docs, LeavesMetadata(d)
    PROVE  /\ quiet' = 0 /\ UNCHANGED <<disk, op, meta, server>>
           /\ op = NoOp /\ db' = [db EXCEPT ![d] = NoPlacement]
           /\ Sweeps(d) \/ (At("dropping") /\ d = pass.doc)
           /\ pass.phase \in {"documents", "dropping"} /\ pass.kind = "once"
           /\ pass'.phase \in {"idle", "documents"}
           /\ \/ pass' = NoPass
              \/ /\ pass'.phase = "documents" /\ pass'.kind = "once" /\ ~pass'.clean
                 /\ pass'.library = pass.library /\ pass'.todo = pass.todo
  <1>1. /\ op = NoOp /\ pass.phase \in {"documents", "dropping"} /\ pass.kind = "once"
        /\ Sweeps(d) \/ (At("dropping") /\ d = pass.doc)
    BY DEF LeavesMetadata, Sweeps, At, Typed, PassTyped, JournalTyped
  <1>2. quiet' = 0 /\ UNCHANGED <<disk, op, meta, server>> /\ db' = [db EXCEPT ![d] = NoPlacement]
    BY DEF LeavesMetadata, files
  <1>3. \/ pass' = NoPass
        \/ /\ pass'.phase = "documents" /\ pass'.kind = "once" /\ ~pass'.clean
           /\ pass'.library = pass.library /\ pass'.todo = pass.todo
    BY <1>1 DEF LeavesMetadata, Typed, PassTyped, Passes
  <1>4. QED BY <1>1, <1>2, <1>3, NoPassTyped

-----------------------------------------------------------------------------
(* No projection is stray.                                                   *)

\* Where a projection of d may lie: where its placement says, or where the journal
\* does.  A write on its way has its new file, and the old one until it is removed;
\* when the record of a removed document is dropped, its file is gone.
Accounted(d, p) ==
    /\ db[d].path = p \/ op = [doc |-> d, path |-> p]
    /\ d = pass.doc =>
         /\ pass.phase \in {"begun", "written"} =>
              p = pass.path \/ (pass.moves /\ p = Old)
         /\ pass.phase \in {"removed", "recorded", "placed"} => p = pass.path
         /\ pass.phase # "dropping"
AllAccounted == \A p \in Paths : disk[p].of \in Docs \ excused => Accounted(disk[p].of, p)

\* A write starts from the placement in the database, if there is one, and ends with one.
FromPlacement ==
    /\ pass.phase = "old" /\ db[pass.doc] # NoPlacement => pass.previous = db[pass.doc]
    /\ pass.phase = "placed" => db[pass.doc] = Placement

StrayInv == Typed /\ AllAccounted /\ FromPlacement

\* A projection is there, and has a path.
LEMMA ProjectionThere ==
    ASSUME Typed, NEW p \in Paths, disk[p].of \in Docs
    PROVE  /\ Taken(p)
           /\ \A d \in Docs : db[d].path = p => db[d] # NoPlacement
  BY Types, FilesTyped, PathsAreNamed DEF Taken, NoPlacement

LEMMA FromPlacementNext ==
    ASSUME Typed, FromPlacement, [LSNext]_vars
    PROVE  FromPlacement'
  <1> USE DEF files, placements, world, record
  <1>1. ASSUME NEW d \in Docs, NEW target, NEW rev, Looks(d, target, rev)
        PROVE  FromPlacement'
    <2>1. db' = db /\ pass'.phase = "old" /\ pass'.doc = d /\ pass'.previous = Previous(d)
      BY <1>1, PassLooks DEF Looks
    <2>2. QED BY <2>1 DEF FromPlacement, Previous
  <1>2. CASE UpsertPlacement
    <2>1. /\ Goes("placed") /\ "placed" \in Phases /\ db' = [db EXCEPT ![pass.doc] = Placement]
          /\ pass.phase = "recorded"
      BY <1>2 DEF UpsertPlacement, At, Phases
    <2>2. pass.doc \in Docs /\ db \in [Docs -> Placements]
      BY <2>1 DEF Typed, PassTyped, PlacementsTyped, Writing
    <2>3. /\ pass'.phase = "placed" /\ pass'.doc = pass.doc /\ pass'.path = pass.path
          /\ pass'.target = pass.target /\ pass'.rev = pass.rev
      BY <2>1, PassSteps DEF SameWork
    <2>4. Placement' = Placement
      BY <2>3 DEF Placement
    <2>5. QED BY <2>1, <2>2, <2>3, <2>4 DEF FromPlacement
  <1>3. ASSUME NEW d \in Docs, DocumentFetched(d) PROVE FromPlacement'
    BY <1>1, <1>3 DEF DocumentFetched
  <1>4. CASE ProjectionFetched
    <2>1. pass.doc \in Docs
      BY <1>4 DEF ProjectionFetched, Typed, PassTyped
    <2>2. QED BY <1>1, <1>4, <2>1 DEF ProjectionFetched
  <1>5. ASSUME NEW phase \in Phases \ {"old", "placed"}, pass'.phase = phase PROVE FromPlacement'
    BY <1>5 DEF FromPlacement
  <1>6. CASE OnceBegins \/ Aborts \/ PassEnds \/ Crash \/ FinishOp \/ StepFails
             \/ \E d \in Docs : RefreshBegins(d)
    <2>1. pass'.phase \in {"idle", "replay", "documents", "removed"}
      BY <1>6, NoPassTyped, PassBegins, PassFails DEF Aborts, PassEnds, Crash
    <2>2. QED BY <2>1 DEF FromPlacement
  <1>7. CASE ReplayReads \/ ReplayRemoves \/ WriteFile \/ RemoveOld \/ WriteMetadata \/ RemovesAbsent
    <2>1. \E phase \in Phases \ {"old", "placed"} : Goes(phase)
      BY <1>7 DEF ReplayReads, ReplayRemoves, WriteFile, RemoveOld, WriteMetadata, RemovesAbsent,
                  Goes, Phases
    <2>2. QED BY <1>5, <2>1, PassSteps
  <1>8. CASE SnapshotFetched \/ LooksAtOld \/ DropsAbsent \/ \E d \in Docs : LooksAtAbsent(d)
    <2>1. pass'.phase \in {"documents", "begun", "removing"}
      BY <1>8, PassSteps
    <2>2. QED BY <2>1 DEF FromPlacement
  <1>9. CASE \E d \in Docs : RefusesRemoval(d) \/ ForgetsAbsent(d)
    BY <1>9 DEF RefusesRemoval, ForgetsAbsent, Sweeps, At, FromPlacement
  <1>10. CASE (\E p \in Paths : UserEdits(p) \/ UserDeletes(p)) \/ \E d \in Docs : LibraryChanges(d)
    <2>1. Stirs /\ UNCHANGED db
      BY <1>10 DEF UserEdits, UserDeletes, LibraryChanges
    <2>2. pass'.phase = pass.phase /\ SameWork
      BY <2>1, PassStirs
    <2>3. Placement' = Placement
      BY <2>2 DEF Placement, SameWork
    <2>4. QED BY <2>1, <2>2, <2>3 DEF FromPlacement, SameWork
  <1>11. CASE UNCHANGED vars
    BY <1>11 DEF vars, FromPlacement, Placement
  <1>12. CASE \E d \in Docs : LeavesMetadata(d)
    BY <1>12, PassLeaves DEF FromPlacement
  <1>13. QED BY <1>2, <1>3, <1>4, <1>6, <1>7, <1>8, <1>9, <1>10, <1>11, <1>12 DEF LSNext

\* The sync is the only one to write projections.
LEMMA ProjectionsWritten ==
    ASSUME Typed, [LSNext]_vars, NEW p \in Paths, disk'[p].of \in Docs
    PROVE  \/ disk'[p] = disk[p]
           \/ WriteFile /\ p = pass.path /\ disk'[p].of = pass.doc
  <1> USE DEF files, placements, world, record
  <1>1. /\ disk \in [Paths -> File] /\ Nothing.of = User /\ User \notin Docs
        /\ \A e : Edit(e).of = User
    BY FilesTyped, Types DEF Typed, DiskTyped, Edit
  <1>2. ASSUME NEW q, NEW file, file.of = User, disk' = [disk EXCEPT ![q] = file]
        PROVE  disk'[p] = disk[p]
    BY <1>1, <1>2
  <1>3. CASE ReplayRemoves \/ RemoveOld \/ RemovesAbsent
    BY <1>1, <1>2, <1>3 DEF ReplayRemoves, RemoveOld, RemovesAbsent
  <1>4. CASE \E q \in Paths : UserEdits(q) \/ UserDeletes(q)
    BY <1>1, <1>2, <1>4 DEF UserEdits, UserDeletes
  <1>5. CASE WriteFile
    BY <1>1, <1>5 DEF WriteFile, Projection
  <1>6. CASE UNCHANGED disk
    BY <1>6
  <1>7. UNCHANGED disk \/ ReplayRemoves \/ RemoveOld \/ RemovesAbsent \/ WriteFile
          \/ \E q \in Paths : UserEdits(q) \/ UserDeletes(q)
    BY DEF LSNext, vars, OnceBegins, SnapshotFetched, PassEnds, Aborts, ReplayReads,
           ProjectionFetched, LooksAtOld, WriteMetadata, UpsertPlacement, FinishOp, StepFails,
           DropsAbsent, RefreshBegins, DocumentFetched, Looks, LibraryChanges, RefusesRemoval,
           ForgetsAbsent, LooksAtAbsent, LeavesMetadata, Crash
  <1>8. QED BY <1>3, <1>4, <1>5, <1>6, <1>7

\* A step of a pass that is not about a file leaves each file accounted for.
LEMMA StillAccounted ==
    ASSUME NEW d, NEW p, Accounted(d, p), UNCHANGED <<db, op>>,
           pass'.phase \notin {"begun", "written", "removed", "recorded", "placed", "dropping"}
    PROVE  Accounted(d, p)'
  BY DEF Accounted

LEMMA AccountedNext ==
    ASSUME StrayInv, [LSNext]_vars,
           NEW p \in Paths, NEW d \in Docs \ excused', disk'[p].of = d
    PROVE  Accounted(d, p)'
  <1> USE DEF files, placements, world, record
  <1>a. /\ Typed /\ AllAccounted /\ FromPlacement /\ d \in Docs /\ d # User
        /\ db \in [Docs -> Placements]
    BY Types DEF StrayInv, Typed, PlacementsTyped
  <1>1. CASE disk'[p] # disk[p]
    <2>1. WriteFile /\ p = pass.path /\ d = pass.doc
      BY <1>1, ProjectionsWritten, <1>a
    <2>2. Goes("written") /\ "written" \in Phases /\ op = [doc |-> pass.doc, path |-> pass.path]
      BY <2>1, <1>a DEF WriteFile, At, Phases, Typed, JournalTyped, Writing
    <2>3. pass'.phase = "written" /\ pass'.path = pass.path
      BY <2>2, <1>a, PassSteps DEF SameWork
    <2>4. QED BY <2>1, <2>2, <2>3 DEF Accounted, WriteFile
  <1>2. CASE disk'[p] = disk[p]
    <2>1. excused \subseteq excused'
      BY <1>a DEF LSNext, vars, OnceBegins, SnapshotFetched, PassEnds, Aborts, ReplayReads,
           ReplayRemoves, RemoveOld, RemovesAbsent, WriteFile, UserEdits, UserDeletes,
           ProjectionFetched, LooksAtOld, WriteMetadata, UpsertPlacement, FinishOp, StepFails,
           DropsAbsent, RefreshBegins, DocumentFetched, Looks, LibraryChanges, RefusesRemoval,
           ForgetsAbsent, LooksAtAbsent, LeavesMetadata, Crash
    <2>2. /\ disk[p].of = d /\ d \in Docs \ excused /\ Taken(p) /\ Accounted(d, p)
          /\ (db[d].path = p => db[d] # NoPlacement)
      BY <1>a, <1>2, <2>1, ProjectionThere DEF AllAccounted
    <2>a. op = NoOp => db[d].path = p
      BY <1>a, <2>2 DEF Accounted, NoOp
    <2>3. CASE OnceBegins \/ Aborts \/ PassEnds \/ Crash \/ \E c \in Docs : RefreshBegins(c)
      <3>1. UNCHANGED <<db, op>>
        BY <2>3 DEF OnceBegins, Aborts, PassEnds, Crash, RefreshBegins
      <3>2. pass'.phase \in {"idle", "replay"}
        BY <1>a, <2>3, NoPassTyped, PassBegins DEF Aborts, PassEnds, Crash
      <3>3. QED BY <2>2, <3>1, <3>2, StillAccounted
    <2>4. CASE ReplayReads
      <3>1. pass'.phase = "replaying"
        BY <1>a, <2>4, PassSteps DEF ReplayReads, Phases
      <3>2. QED BY <2>2, <2>4, <3>1, StillAccounted DEF ReplayReads
    <2>5. CASE ReplayRemoves
      <3>1. pass'.phase = "fetch" /\ db' = db
        BY <1>a, <2>5, PassSteps DEF ReplayRemoves, Phases
      <3>2. op = NoOp \/ op.path # p
        <4>1. CASE At("replaying")
          <5>1. disk' = [disk EXCEPT ![op.path] = Nothing]
            BY <2>5, <4>1 DEF ReplayRemoves
          <5>2. disk[p] # Nothing /\ disk \in [Paths -> File]
            BY <1>a, <2>2 DEF Taken, Typed, DiskTyped
          <5>3. QED BY <1>2, <5>1, <5>2
        <4>2. CASE ~At("replaying")
          BY <2>2, <2>5, <4>2 DEF ReplayRemoves
        <4>3. QED BY <4>1, <4>2
      <3>3. db[d].path = p
        BY <2>2, <2>a, <3>2 DEF Accounted
      <3>4. QED BY <3>1, <3>3 DEF Accounted
    <2>6. CASE SnapshotFetched \/ DropsAbsent
               \/ \E c \in Docs : LooksAtAbsent(c) \/ RefusesRemoval(c) \/ ForgetsAbsent(c)
      <3>1. pass'.phase \in {"documents", "removing"}
        BY <1>a, <2>6, PassSteps DEF RefusesRemoval, ForgetsAbsent, Sweeps, At
      <3>2. pass.phase \in {"fetch", "documents", "dropping"} /\ op = NoOp /\ op' = op
        BY <1>a, <2>6 DEF SnapshotFetched, DropsAbsent, LooksAtAbsent, RefusesRemoval, ForgetsAbsent,
                          Sweeps, At, Typed, JournalTyped
      <3>3. db'[d].path = p
        <4>1. CASE SnapshotFetched \/ \E c \in Docs : LooksAtAbsent(c)
          BY <2>a, <3>2, <4>1 DEF SnapshotFetched, LooksAtAbsent
        <4>2. CASE DropsAbsent
          <5>1. d # pass.doc /\ db' = [db EXCEPT ![pass.doc] = NoPlacement]
            BY <2>2, <4>2 DEF Accounted, DropsAbsent, Drops, At
          <5>2. QED BY <1>a, <2>a, <3>2, <5>1
        <4>3. ASSUME NEW c \in Docs, RefusesRemoval(c) \/ ForgetsAbsent(c)
              PROVE  db'[d].path = p
          <5>1. d # c
            BY <2>2, <2>a, <3>2, <4>3, <1>a DEF RefusesRemoval, ForgetsAbsent
          <5>2. db' = [db EXCEPT ![c] = NoPlacement]
            BY <4>3 DEF RefusesRemoval, ForgetsAbsent, Drops
          <5>3. QED BY <1>a, <2>a, <3>2, <5>1, <5>2
        <4>4. QED BY <2>6, <4>1, <4>2, <4>3
      <3>4. QED BY <3>1, <3>3 DEF Accounted
    <2>7. ASSUME NEW c, NEW target, NEW rev, Looks(c, target, rev) PROVE Accounted(d, p)'
      <3>1. pass'.phase = "old" /\ UNCHANGED <<db, op>>
        BY <1>a, <2>7, PassLooks DEF Looks
      <3>2. QED BY <2>2, <3>1, StillAccounted
    <2>8. CASE ProjectionFetched \/ \E c \in Docs : DocumentFetched(c)
      BY <2>7, <2>8 DEF ProjectionFetched, DocumentFetched
    <2>9. CASE LooksAtOld
      <3>1. /\ pass.phase = "old" /\ op = NoOp /\ pass'.phase = "begun" /\ SameWork
            /\ pass'.moves = (pass.previous # NoPlacement /\ Old # pass.path /\ Taken(Old))
            /\ db' = db
        BY <1>a, <2>9, PassSteps DEF LooksAtOld, At, Typed, JournalTyped
      <3>2. db[d].path = p
        BY <2>a, <3>1
      <3>3. d = pass.doc => pass.previous # NoPlacement /\ Old = p
        BY <1>a, <2>2, <3>1, <3>2 DEF FromPlacement, Old
      <3>4. QED BY <2>2, <3>1, <3>2, <3>3 DEF Accounted, SameWork, Old
    <2>10. CASE WriteFile \/ RemoveOld \/ WriteMetadata \/ UpsertPlacement
      <3>1. /\ op' = op /\ op = [doc |-> pass.doc, path |-> pass.path]
            /\ pass.phase \in {"begun", "written", "removed", "recorded"}
            /\ pass.doc \in Docs
        BY <1>a, <2>10 DEF WriteFile, RemoveOld, WriteMetadata, UpsertPlacement, At, Typed,
                           JournalTyped, PassTyped, Writing
      <3>2. PICK phase \in {"written", "removed", "recorded", "placed"} : Goes(phase)
        BY <2>10 DEF WriteFile, RemoveOld, WriteMetadata, UpsertPlacement
      <3>3. pass'.phase = phase /\ SameWork /\ pass'.moves = pass.moves
        BY <1>a, <3>2, PassSteps DEF Phases
      <3>4. CASE d # pass.doc
        <4>1. db'[d] = db[d]
          BY <1>a, <2>10, <3>1, <3>4 DEF WriteFile, RemoveOld, WriteMetadata, UpsertPlacement
        <4>2. QED BY <2>2, <3>1, <3>3, <3>4, <4>1 DEF Accounted, SameWork
      <3>5. CASE d = pass.doc
        <4>1. CASE WriteFile
          <5>1. pass'.phase = "written" /\ pass.phase = "begun" /\ db' = db
            BY <1>a, <4>1, PassSteps DEF WriteFile, At, Phases
          <5>2. QED BY <2>2, <3>1, <3>3, <5>1 DEF Accounted, SameWork, Old
        <4>2. CASE RemoveOld
          <5>1. pass'.phase = "removed" /\ pass.phase = "written" /\ db' = db
            BY <1>a, <4>2, PassSteps DEF RemoveOld, At, Phases
          <5>2. p = pass.path \/ (pass.moves /\ p = Old)
            BY <2>2, <3>5, <5>1 DEF Accounted
          <5>3. pass.moves => p # Old
            <6>1. pass.moves => disk' = [disk EXCEPT ![Old] = Nothing]
              BY <4>2 DEF RemoveOld, Old
            <6>2. disk[p] # Nothing /\ disk \in [Paths -> File]
              BY <1>a, <2>2 DEF Taken, Typed, DiskTyped
            <6>3. QED BY <1>2, <6>1, <6>2
          <5>4. QED BY <2>2, <3>1, <3>3, <5>1, <5>2, <5>3 DEF Accounted, SameWork
        <4>3. CASE WriteMetadata \/ UpsertPlacement
          <5>1. pass'.phase \in {"recorded", "placed"} /\ pass.phase \in {"removed", "recorded"}
            BY <1>a, <4>3, PassSteps DEF WriteMetadata, UpsertPlacement, At, Phases
          <5>2. p = pass.path
            BY <2>2, <3>5, <5>1 DEF Accounted
          <5>3. QED BY <3>1, <3>3, <3>5, <5>1, <5>2 DEF Accounted, SameWork
        <4>4. QED BY <2>10, <4>1, <4>2, <4>3
      <3>6. QED BY <3>4, <3>5
    <2>11. CASE FinishOp
      <3>1. /\ pass.phase = "placed" /\ op = [doc |-> pass.doc, path |-> pass.path] /\ db' = db
            /\ db[pass.doc].path = pass.path
        BY <1>a, <2>11 DEF FinishOp, At, Typed, JournalTyped, Writing, FromPlacement, Placement
      <3>2. db[d].path = p
        BY <2>2, <3>1 DEF Accounted
      <3>3. pass'.phase \in {"idle", "documents"}
        BY <1>a, <2>11, NoPassTyped, PassBegins
      <3>4. QED BY <3>1, <3>2, <3>3 DEF Accounted
    <2>12. CASE StepFails
      <3>1. /\ d # pass.doc /\ pass.phase \in Writing /\ db' = db
            /\ op = [doc |-> pass.doc, path |-> pass.path]
        BY <1>a, <2>12 DEF StepFails, Typed, JournalTyped, Writing
      <3>2. db[d].path = p
        BY <2>2, <3>1 DEF Accounted
      <3>3. pass'.doc # d
        BY <1>a, <2>12, <3>1, NoPassTyped, PassFails DEF SameWork
      <3>4. QED BY <3>1, <3>2, <3>3 DEF Accounted
    <2>13. CASE RemovesAbsent
      <3>1. /\ pass.phase = "removing" /\ pass'.phase = "dropping" /\ SameWork /\ UNCHANGED <<db, op>>
            /\ disk' = [disk EXCEPT ![db[pass.doc].path] = Nothing] /\ op = NoOp
        <4>1. Goes("dropping") /\ "dropping" \in Phases
          BY <2>13 DEF RemovesAbsent, Goes, Phases
        <4>2. QED BY <1>a, <2>13, <4>1, PassSteps DEF RemovesAbsent, At, Typed, JournalTyped
      <3>2. disk[p] # Nothing /\ disk \in [Paths -> File]
        BY <1>a, <2>2 DEF Taken, Typed, DiskTyped
      <3>3. db[pass.doc].path # p
        BY <1>2, <3>1, <3>2
      <3>4. QED BY <2>a, <3>1, <3>3 DEF Accounted, SameWork
    <2>14. CASE (\E q \in Paths : UserEdits(q) \/ UserDeletes(q)) \/ \E c \in Docs : LibraryChanges(c)
      <3>1. Stirs /\ UNCHANGED <<db, op>>
        BY <2>14 DEF UserEdits, UserDeletes, LibraryChanges
      <3>2. pass'.phase = pass.phase /\ SameWork /\ pass'.moves = pass.moves
        BY <1>a, <3>1, PassStirs
      <3>3. QED BY <2>2, <3>1, <3>2 DEF Accounted, SameWork, Old
    <2>15. CASE UNCHANGED vars
      BY <2>2, <2>15 DEF vars, Accounted, Old
    <2>16. ASSUME NEW c \in Docs, LeavesMetadata(c) PROVE Accounted(d, p)'
      <3>1. /\ op = NoOp /\ UNCHANGED op /\ db' = [db EXCEPT ![c] = NoPlacement]
            /\ pass'.phase \in {"idle", "documents"}
        BY <1>a, <2>16, PassLeaves
      <3>2. db[d].path = p
        BY <2>a, <3>1
      <3>3. d # c
        BY <2>2, <2>16, <3>2 DEF LeavesMetadata
      <3>4. db'[d].path = p
        BY <1>a, <3>1, <3>2, <3>3
      <3>5. QED BY <3>1, <3>4 DEF Accounted
    <2>17. QED BY <2>3, <2>4, <2>5, <2>6, <2>8, <2>9, <2>10, <2>11, <2>12, <2>13, <2>14, <2>15, <2>16
               DEF LSNext
  <1>3. QED BY <1>1, <1>2

\* A crash leaves no second projection of a document, and neither does anything
\* else a step did not fail at (replayIncompleteOps, writeProjection, removeAbsentPlacements).
THEOREM NothingStray == LSSpec => []NoStrayProjection
  <1>1. LSInit => StrayInv
    <2> SUFFICES ASSUME LSInit PROVE StrayInv
      OBVIOUS
    <2>1. AllAccounted
      BY FilesTyped, Types DEF LSInit, AllAccounted
    <2>2. FromPlacement
      BY NoPassTyped DEF LSInit, FromPlacement
    <2>3. QED BY <2>1, <2>2, InitTyped DEF StrayInv
  <1>2. StrayInv /\ [LSNext]_vars => StrayInv'
    <2> SUFFICES ASSUME StrayInv, [LSNext]_vars PROVE StrayInv'
      OBVIOUS
    <2>1. Typed' /\ FromPlacement'
      BY StepTyped, FromPlacementNext DEF StrayInv
    <2>2. AllAccounted'
      BY AccountedNext DEF AllAccounted
    <2>3. QED BY <2>1, <2>2 DEF StrayInv
  <1>3. StrayInv => NoStrayProjection
    <2> SUFFICES ASSUME StrayInv, op = NoOp, NEW p \in Paths, disk[p].of \in Docs \ excused
                 PROVE  db[disk[p].of].path = p
      BY DEF NoStrayProjection
    <2>1. Accounted(disk[p].of, p) /\ disk[p].of # User
      BY Types DEF StrayInv, AllAccounted
    <2>2. QED BY <2>1 DEF Accounted, NoOp
  <1>4. QED BY <1>1, <1>2, <1>3, PTL DEF LSSpec

-----------------------------------------------------------------------------
(* Two passes mirror the library.                                            *)

\* The paths a document may get: the target, and its own siblings of it.
Own(d, target) == {target} \cup {Sibling(target, d, k) : k \in 1..MaxSuffix}
OnItsWay == pass.phase \in {"old"} \cup Writing
OwnPaths ==
    /\ \A d \in Docs : \A m \in {db[d], meta[d]} :
         m # NoPlacement => m.path \in Own(d, m.canonical)
    /\ OnItsWay => pass.path \in Own(pass.doc, pass.target)

\* The placement is as the library asks for it, and the file is there.
Allocated(d) == db[d] # NoPlacement /\ db[d].canonical = Target(server, d)
UpToDate(d) == disk[db[d].path] = Projection(d, server[d].rev)

\* Once works on its snapshot; while nothing comes between, that is the library,
\* and the documents it is done with are allocated.
Late == {"documents", "old", "removing", "dropping"} \cup Writing
Snapshot == pass.kind = "once" /\ pass.phase \in Late
Done == Present(server) \ pass.todo
CleanPass ==
    /\ quiet # 0 => pass.clean
    /\ pass.phase # "idle" => pass.kind # "none"
    /\ pass.phase = "documents" => pass.kind = "once"
    /\ Snapshot /\ OnItsWay =>
         pass.doc \in pass.todo /\ pass.target = Target(pass.library, pass.doc)
    /\ pass.phase \in {"removing", "dropping"} => pass.doc \notin Present(pass.library)
    /\ Snapshot /\ pass.clean =>
         pass.library = server /\ \A d \in Done : Allocated(d)

\* After one pass that nothing came between, all is allocated and nothing moves.
Settled ==
    /\ pass.phase \notin Writing => op = NoOp
    /\ \A d \in Docs : IF d \in Present(server) THEN Allocated(d) ELSE db[d] = NoPlacement
    /\ pass.phase \notin {"removing", "dropping"}
    /\ OnItsWay => /\ pass.doc \in Present(server) /\ ~pass.moves
                   /\ pass.target = Target(server, pass.doc) /\ pass.rev = server[pass.doc].rev
    /\ pass.phase = "old" => pass.path = Old \/ ~Taken(Old)
    /\ pass.phase \in Writing \ {"begun"} => disk[pass.path] = Projection(pass.doc, pass.rev)
    /\ Snapshot => \A d \in Done : UpToDate(d)

\* After the second, a pass writes what is there.
Repeats == Mirrored /\ (OnItsWay => pass.path = db[pass.doc].path)

MirrorInv ==
    /\ Typed /\ FromPlacement /\ OwnPaths /\ CleanPass
    /\ quiet # 0 => Settled
    /\ quiet = 2 => Repeats

\* No path is one of two documents' own, as one library allocates them.
LEMMA OwnApart ==
    ASSUME NEW library \in Libraries, NEW c \in Present(library), NEW d \in Present(library), c # d,
           NEW p \in Own(c, Target(library, c))
    PROVE  p \notin Own(d, Target(library, d))
  <1> DEFINE Alone(e) == ~\E f \in Docs : f < e /\ library[f].name = library[e].name
  <1>1. ASSUME NEW e \in Present(library), NEW q \in Own(e, Target(library, e))
        PROVE  q.doc = e \/ (q.doc = User /\ q.name = library[e].name /\ Alone(e))
    BY <1>1 DEF Own, Target, Sibling, Suffixed, Plain
  <1>2. c \in Docs /\ d \in Docs
    BY DEF Present
  <1>3. c \in Nat /\ d \in Nat /\ c # User /\ d # User
    BY <1>2, Types
  <1>4. c < d \/ d < c
    BY <1>3
  <1> HIDE DEF Alone
  <1>5. Alone(c) /\ Alone(d) => library[c].name # library[d].name
    BY <1>2, <1>4 DEF Alone
  <1>6. QED BY <1>1, <1>3, <1>5

\* A document stays among its own paths.
LEMMA ResolvedOwn ==
    ASSUME NEW d \in Docs, NEW target \in Paths, NEW previous,
           previous # NoPlacement => previous.path \in Own(d, previous.canonical),
           NEW p \in Resolved(d, target, previous)
    PROVE  p \in Own(d, target)
  BY DEF Resolved, FirstAvailable, Own

LEMMA ServerLibrary == Typed => server \in Libraries
  BY Types DEF Typed, ServerTyped, Libraries

\* A document is looked at for a path the library, or its placement, asks for.
LEMMA LookedAt ==
    ASSUME Typed
    PROVE  /\ \A d \in Docs : DocumentFetched(d) =>
                /\ Target(pass.library, d) \in Paths /\ d \in pass.todo /\ d \in Present(pass.library)
                /\ d \in Present(server) /\ pass.phase = "documents"
                /\ Looks(d, Target(pass.library, d), server[d].rev)
           /\ ProjectionFetched =>
                /\ pass.doc \in Docs /\ db[pass.doc].canonical \in Paths
                /\ pass.doc \in Present(server) /\ db[pass.doc] # NoPlacement
                /\ pass.phase = "fetch" /\ pass.kind = "refresh"
                /\ Looks(pass.doc, db[pass.doc].canonical, server[pass.doc].rev)
  <1>1. ASSUME NEW d \in Docs, DocumentFetched(d)
        PROVE  /\ Target(pass.library, d) \in Paths /\ d \in pass.todo /\ d \in Present(pass.library)
               /\ d \in Present(server) /\ pass.phase = "documents"
               /\ Looks(d, Target(pass.library, d), server[d].rev)
    <2>1. pass.library \in Libraries /\ d \in Present(pass.library)
      BY <1>1 DEF DocumentFetched, Typed, PassTyped, Passes
    <2>2. Target(pass.library, d) \in Paths
      BY <2>1, TargetTyped
    <2>3. QED BY <1>1, <2>1, <2>2 DEF DocumentFetched, At, Present
  <1>2. ASSUME ProjectionFetched
        PROVE  /\ pass.doc \in Docs /\ db[pass.doc].canonical \in Paths
               /\ pass.doc \in Present(server) /\ db[pass.doc] # NoPlacement
               /\ pass.phase = "fetch" /\ pass.kind = "refresh"
               /\ Looks(pass.doc, db[pass.doc].canonical, server[pass.doc].rev)
    <2>1. pass.doc \in Docs
      BY <1>2 DEF ProjectionFetched, Typed, PassTyped
    <2>2. QED BY <1>2, <2>1 DEF ProjectionFetched, At, Typed, PlacementsTyped, Placements, Present
  <1>3. QED BY <1>1, <1>2

\* A write that is on its way began with a look, or goes on with what it knows.
LEMMA WriteGoesOn ==
    ASSUME Typed, [LSNext]_vars, OnItsWay'
    PROVE  \/ ProjectionFetched \/ \E d \in Docs : DocumentFetched(d)
           \/ /\ OnItsWay /\ SameWork /\ pass'.kind = pass.kind
              /\ pass'.library = pass.library /\ pass'.todo = pass.todo
              /\ \/ UNCHANGED pass \/ Stirs \/ StepFails
                 \/ LooksAtOld \/ WriteFile \/ RemoveOld \/ WriteMetadata \/ UpsertPlacement
  <1> USE DEF OnItsWay, Writing
  <1>1. CASE OnceBegins \/ Aborts \/ PassEnds \/ Crash \/ FinishOp
             \/ \E d \in Docs : RefreshBegins(d)
    BY <1>1, NoPassTyped, PassBegins DEF Aborts, PassEnds, Crash
  <1>2. CASE ReplayReads \/ ReplayRemoves \/ RemovesAbsent
    <2>1. \E phase \in {"replaying", "fetch", "dropping"} : Goes(phase)
      BY <1>2 DEF ReplayReads, ReplayRemoves, RemovesAbsent, Goes
    <2>2. QED BY <2>1, PassSteps DEF Phases
  <1>3. CASE SnapshotFetched \/ DropsAbsent
             \/ \E d \in Docs : LooksAtAbsent(d) \/ RefusesRemoval(d) \/ ForgetsAbsent(d)
    BY <1>3, PassSteps DEF RefusesRemoval, ForgetsAbsent, Sweeps, At
  <1>4. CASE WriteFile \/ RemoveOld \/ WriteMetadata \/ UpsertPlacement
    <2>1. \E phase \in Writing : Goes(phase) /\ OnItsWay
      BY <1>4 DEF WriteFile, RemoveOld, WriteMetadata, UpsertPlacement, At
    <2>2. SameWork /\ SamePass /\ OnItsWay
      BY <2>1, PassSteps DEF Phases
    <2>3. QED BY <1>4, <2>2 DEF SamePass
  <1>5. CASE LooksAtOld
    BY <1>5, PassSteps DEF LooksAtOld, At, SamePass
  <1>6. CASE StepFails
    BY <1>6, PassFails, NoPassTyped
  <1>7. CASE (\E q \in Paths : UserEdits(q) \/ UserDeletes(q)) \/ \E c \in Docs : LibraryChanges(c)
    <2>1. Stirs
      BY <1>7 DEF UserEdits, UserDeletes, LibraryChanges
    <2>2. QED BY <2>1, PassStirs
  <1>8. CASE UNCHANGED vars
    BY <1>8 DEF vars, SameWork
  <1>9. ~\E d \in Docs : LeavesMetadata(d)
    BY PassLeaves
  <1>10. QED BY <1>1, <1>2, <1>3, <1>4, <1>5, <1>6, <1>7, <1>8, <1>9 DEF LSNext

\* How Once gets on with its snapshot.
LEMMA SnapshotGoesOn ==
    ASSUME Typed, CleanPass, [LSNext]_vars, Snapshot'
    PROVE  \/ SnapshotFetched
           \/ /\ Snapshot /\ pass'.library = pass.library
              /\ pass'.clean => pass.clean /\ UNCHANGED server
              /\ \/ pass'.todo = pass.todo
                 \/ FinishOp /\ pass'.todo = pass.todo \ {pass.doc}
  <1> USE DEF Snapshot, Late, Writing, placements, world, record, files
  <1>1. CASE OnceBegins \/ Aborts \/ PassEnds \/ Crash \/ \E d \in Docs : RefreshBegins(d)
    BY <1>1, NoPassTyped, PassBegins DEF Aborts, PassEnds, Crash
  <1>2. CASE ReplayReads \/ ReplayRemoves
    <2>1. \E phase \in {"replaying", "fetch"} : Goes(phase)
      BY <1>2 DEF ReplayReads, ReplayRemoves, Goes
    <2>2. QED BY <2>1, PassSteps DEF Phases
  <1>3. CASE FinishOp
    <2>1. pass' # NoPass
      BY NoPassTyped
    <2>2. /\ pass.kind # "refresh" /\ pass.phase = "placed"
          /\ pass'.clean = pass.clean /\ pass'.library = pass.library
          /\ pass'.todo = pass.todo \ {pass.doc} /\ UNCHANGED server
      BY <1>3, <2>1, PassBegins DEF FinishOp, At
    <2>3. pass.kind = "once"
      BY <2>2 DEF CleanPass, Typed, PassTyped, Passes
    <2>4. QED BY <1>3, <2>2, <2>3
  <1>4. CASE \E d \in Docs : RefusesRemoval(d) \/ ForgetsAbsent(d)
    BY <1>4 DEF RefusesRemoval, ForgetsAbsent
  <1>5. CASE DropsAbsent \/ \E d \in Docs : LooksAtAbsent(d)
    BY <1>5, PassSteps DEF SamePass, DropsAbsent, LooksAtAbsent, Sweeps, At
  <1>6. CASE WriteFile \/ RemoveOld \/ WriteMetadata \/ UpsertPlacement \/ RemovesAbsent
    <2>1. /\ \E phase \in Phases : Goes(phase)
          /\ pass.phase \in Late /\ UNCHANGED server
      BY <1>6 DEF WriteFile, RemoveOld, WriteMetadata, UpsertPlacement, RemovesAbsent, At, Goes,
                  Phases
    <2>2. SamePass
      BY <2>1, PassSteps
    <2>3. QED BY <2>1, <2>2 DEF SamePass
  <1>7. CASE LooksAtOld
    BY <1>7, PassSteps DEF LooksAtOld, At, SamePass
  <1>8. ASSUME NEW d \in Docs, DocumentFetched(d)
        PROVE  /\ Snapshot /\ pass'.library = pass.library
               /\ pass'.clean => pass.clean /\ UNCHANGED server
               /\ pass'.todo = pass.todo
    <2>1. pass.phase = "documents" /\ SamePass /\ UNCHANGED server
      BY <1>8, LookedAt, PassLooks DEF Looks
    <2>2. QED BY <2>1 DEF SamePass, CleanPass
  <1>9. ~ProjectionFetched
    BY LookedAt, PassLooks DEF SamePass
  <1>10. CASE StepFails
    BY <1>10, PassFails, NoPassTyped
  <1>11. CASE (\E q \in Paths : UserEdits(q) \/ UserDeletes(q)) \/ \E c \in Docs : LibraryChanges(c)
    <2>1. Stirs
      BY <1>11 DEF UserEdits, UserDeletes, LibraryChanges
    <2>2. QED BY <2>1, PassStirs
  <1>12. CASE UNCHANGED vars
    BY <1>12 DEF vars
  <1>13. CASE \E d \in Docs : LeavesMetadata(d)
    BY <1>13, PassLeaves, NoPassTyped
  <1>14. QED BY <1>1, <1>2, <1>3, <1>4, <1>5, <1>6, <1>7, <1>8, <1>9, <1>10, <1>11, <1>12, <1>13
             DEF LSNext

\* The placement of a document is recorded at the end of its write, and dropped
\* when the document is gone.
LEMMA PlacementsChange ==
    ASSUME Typed, [LSNext]_vars, NEW d \in Docs
    PROVE  /\ \/ db'[d] = db[d]
              \/ UpsertPlacement /\ d = pass.doc /\ db'[d] = Placement
              \/ /\ db'[d] = NoPlacement
                 /\ \/ Sweeps(d)
                    \/ At("dropping") /\ d = pass.doc
           /\ \/ meta'[d] \in {meta[d], NoPlacement}
              \/ WriteMetadata /\ d = pass.doc /\ meta'[d] = Placement
  <1> USE DEF files, placements, world, record, Typed, PlacementsTyped
  <1>1. CASE UpsertPlacement
    BY <1>1 DEF UpsertPlacement
  <1>2. CASE WriteMetadata
    BY <1>2 DEF WriteMetadata
  <1>3. ASSUME NEW c \in Docs, RefusesRemoval(c) \/ ForgetsAbsent(c)
        PROVE  /\ db'[d] = db[d] \/ (db'[d] = NoPlacement /\ Sweeps(d))
               /\ meta'[d] \in {meta[d], NoPlacement}
    BY <1>3 DEF RefusesRemoval, ForgetsAbsent, Drops
  <1>4. CASE DropsAbsent
    BY <1>4 DEF DropsAbsent, Drops
  <1>5. CASE UNCHANGED <<db, meta>>
    BY <1>5
  <1>6. \/ UNCHANGED <<db, meta>> \/ UpsertPlacement \/ WriteMetadata \/ DropsAbsent
        \/ \E c \in Docs : RefusesRemoval(c) \/ ForgetsAbsent(c) \/ LeavesMetadata(c)
    BY DEF LSNext, vars, OnceBegins, SnapshotFetched, PassEnds, Aborts, ReplayReads, ReplayRemoves,
           RemoveOld, RemovesAbsent, WriteFile, UserEdits, UserDeletes, ProjectionFetched,
           LooksAtOld, FinishOp, StepFails, RefreshBegins, DocumentFetched, Looks, LibraryChanges,
           LooksAtAbsent, Crash
  <1>7. ASSUME NEW c \in Docs, LeavesMetadata(c)
        PROVE  /\ \/ db'[d] = db[d]
                  \/ db'[d] = NoPlacement /\ (Sweeps(d) \/ (At("dropping") /\ d = pass.doc))
               /\ meta'[d] = meta[d]
    BY <1>7, PassLeaves
  <1>8. QED BY <1>1, <1>2, <1>3, <1>4, <1>5, <1>6, <1>7

LEMMA OwnPathsNext ==
    ASSUME Typed, OwnPaths, [LSNext]_vars
    PROVE  OwnPaths'
  <1>1. ASSUME NEW d \in Docs, NEW m \in {db'[d], meta'[d]}, m # NoPlacement
        PROVE  m.path \in Own(d, m.canonical)
    <2>1. CASE m \in {db[d], meta[d]}
      BY <1>1, <2>1 DEF OwnPaths
    <2>2. CASE m \notin {db[d], meta[d]}
      <3>1. /\ UpsertPlacement \/ WriteMetadata
            /\ d = pass.doc /\ m = Placement
        BY <1>1, <2>2, PlacementsChange
      <3>2. OnItsWay
        BY <3>1 DEF UpsertPlacement, WriteMetadata, At, OnItsWay, Writing
      <3>3. QED BY <3>1, <3>2 DEF OwnPaths, Placement
    <2>3. QED BY <2>1, <2>2
  <1>2. ASSUME OnItsWay' PROVE pass'.path \in Own(pass'.doc, pass'.target)
    <2>1. ASSUME NEW d \in Docs, NEW target \in Paths, NEW rev, Looks(d, target, rev)
          PROVE  pass'.path \in Own(pass'.doc, pass'.target)
      <3>1. Previous(d) # NoPlacement => Previous(d).path \in Own(d, Previous(d).canonical)
        BY DEF OwnPaths, Previous
      <3>2. /\ pass'.doc = d /\ pass'.target = target
            /\ pass'.path \in Resolved(d, target, Previous(d))
        BY <2>1, PassLooks
      <3>3. QED BY <3>1, <3>2, ResolvedOwn
    <2>2. CASE ProjectionFetched
      BY <2>1, <2>2, LookedAt
    <2>3. CASE \E d \in Docs : DocumentFetched(d)
      BY <2>1, <2>3, LookedAt
    <2>4. CASE OnItsWay /\ SameWork
      BY <2>4 DEF SameWork, OwnPaths
    <2>5. QED BY <1>2, <2>2, <2>3, <2>4, WriteGoesOn
  <1>3. QED BY <1>1, <1>2 DEF OwnPaths

LEMMA CleanPassNext ==
    ASSUME Typed, FromPlacement, CleanPass, [LSNext]_vars
    PROVE  CleanPass'
  <1> USE DEF files, placements, world, record
  <1>a. /\ "replaying" \in Phases /\ "fetch" \in Phases /\ "written" \in Phases
        /\ "removed" \in Phases /\ "recorded" \in Phases /\ "placed" \in Phases
        /\ "dropping" \in Phases
    BY DEF Phases
  \* Being alone, the kind of a pass, and what Once does not find in its snapshot.
  <1> DEFINE Kept == /\ quiet' # 0 => pass'.clean
                     /\ pass'.phase # "idle" => pass'.kind # "none"
                     /\ pass'.phase = "documents" => pass'.kind = "once"
                     /\ pass'.phase \in {"removing", "dropping"} =>
                          pass'.doc \notin Present(pass'.library)
  <1>1. Kept
    <2>1. CASE OnceBegins \/ \E d \in Docs : RefreshBegins(d)
      BY <2>1, PassBegins
    <2>2. CASE pass' = NoPass
      <3>1. NoPass.clean = TRUE
        BY DEF NoPass
      <3>2. QED BY <2>2, <3>1, NoPassTyped
    <2>3. CASE FinishOp /\ pass' # NoPass
      BY <2>3, PassBegins DEF FinishOp, CleanPass
    <2>4. CASE ReplayReads \/ ReplayRemoves \/ WriteFile \/ RemoveOld \/ WriteMetadata
               \/ UpsertPlacement
      <3>1. PICK phase \in Phases \ {"idle", "documents", "removing", "dropping"} : Goes(phase)
        BY <1>a, <2>4 DEF ReplayReads, ReplayRemoves, WriteFile, RemoveOld, WriteMetadata,
                          UpsertPlacement
      <3>2. pass'.phase = phase /\ SamePass
        BY <3>1, PassSteps
      <3>3. quiet' = quiet /\ pass.phase # "idle"
        BY <2>4 DEF ReplayReads, ReplayRemoves, WriteFile, RemoveOld, WriteMetadata,
                    UpsertPlacement, At
      <3>4. QED BY <3>1, <3>2, <3>3 DEF SamePass, CleanPass
    <2>5. CASE SnapshotFetched \/ LooksAtOld
      BY <2>5, PassSteps DEF SnapshotFetched, LooksAtOld, At, SamePass, CleanPass
    <2>6. ASSUME NEW d \in Docs, LooksAtAbsent(d) PROVE Kept
      <3>1. pass'.phase = "removing" /\ pass'.doc = d /\ SamePass /\ quiet' = quiet
        BY <2>6, PassSteps DEF LooksAtAbsent
      <3>2. pass.phase = "documents" /\ d \notin Present(pass.library)
        BY <2>6 DEF LooksAtAbsent, Sweeps, Absent, At, Present
      <3>3. QED BY <3>1, <3>2 DEF SamePass, CleanPass
    <2>7. CASE RemovesAbsent
      <3>1. Goes("dropping") /\ pass.phase = "removing" /\ quiet' = quiet
        BY <2>7 DEF RemovesAbsent, Goes, At
      <3>2. pass'.phase = "dropping" /\ SamePass /\ SameWork
        BY <1>a, <3>1, PassSteps
      <3>3. QED BY <3>1, <3>2 DEF SamePass, SameWork, CleanPass
    <2>8. CASE DropsAbsent
      <3>1. pass'.phase = "documents" /\ SamePass /\ quiet' = quiet /\ pass.kind = "once"
        BY <2>8, PassSteps DEF DropsAbsent, At, Typed, PassTyped
      <3>2. QED BY <3>1 DEF SamePass, CleanPass
    <2>9. ASSUME NEW d, NEW target, NEW rev, Looks(d, target, rev),
                 pass.phase \in {"documents", "fetch"}
          PROVE  Kept
      BY <2>9, PassLooks DEF Looks, SamePass, CleanPass
    <2>10. CASE ProjectionFetched \/ \E d \in Docs : DocumentFetched(d)
      BY <2>9, <2>10, LookedAt
    <2>11. CASE \E d \in Docs : RefusesRemoval(d) \/ ForgetsAbsent(d)
      BY <2>11 DEF RefusesRemoval, ForgetsAbsent, CleanPass
    <2>12. CASE StepFails /\ pass' # NoPass
      BY <2>12, PassFails DEF CleanPass
    <2>13. CASE (\E q \in Paths : UserEdits(q) \/ UserDeletes(q))
                \/ \E c \in Docs : LibraryChanges(c)
      <3>1. Stirs
        BY <2>13 DEF UserEdits, UserDeletes, LibraryChanges
      <3>2. QED BY <3>1, PassStirs DEF SameWork, CleanPass
    <2>14. CASE UNCHANGED vars
      BY <2>14 DEF vars, CleanPass
    <2>15. CASE Aborts \/ PassEnds \/ Crash
      BY <2>2, <2>15 DEF Aborts, PassEnds, Crash
    <2>16. CASE \E d \in Docs : LeavesMetadata(d)
      BY <2>2, <2>16, PassLeaves
    <2>17. QED BY <2>1, <2>2, <2>3, <2>4, <2>5, <2>6, <2>7, <2>8, <2>10, <2>11, <2>12, <2>13, <2>14,
                  <2>15, <2>16 DEF LSNext
  \* A write of Once is of a document it has yet to do.
  <1>2. ASSUME Snapshot', OnItsWay'
        PROVE  pass'.doc \in pass'.todo /\ pass'.target = Target(pass'.library, pass'.doc)
    <2>1. CASE ProjectionFetched
      BY <1>2, <2>1, LookedAt, PassLooks DEF SamePass, Snapshot
    <2>2. ASSUME NEW d \in Docs, DocumentFetched(d)
          PROVE  pass'.doc \in pass'.todo /\ pass'.target = Target(pass'.library, pass'.doc)
      BY <2>2, LookedAt, PassLooks DEF SamePass
    <2>3. CASE /\ OnItsWay /\ SameWork /\ pass'.kind = pass.kind
               /\ pass'.library = pass.library /\ pass'.todo = pass.todo
      BY <1>2, <2>3 DEF SameWork, CleanPass, Snapshot, OnItsWay, Late
    <2>4. QED BY <1>2, <2>1, <2>2, <2>3, WriteGoesOn
  \* What is done stays allocated.
  <1>3. ASSUME Snapshot', pass'.clean
        PROVE  pass'.library = server' /\ \A d \in Done' : Allocated(d)'
    <2>1. CASE SnapshotFetched
      <3>1. pass'.library = server /\ pass'.todo = Present(server) /\ server' = server
        BY <2>1, PassSteps DEF SnapshotFetched
      <3>2. QED BY <3>1 DEF Done
    <2>2. CASE ~SnapshotFetched
      <3>1. /\ Snapshot /\ pass'.library = pass.library /\ pass.clean /\ UNCHANGED server
            /\ \/ pass'.todo = pass.todo
               \/ FinishOp /\ pass'.todo = pass.todo \ {pass.doc}
        BY <1>3, <2>2, SnapshotGoesOn
      <3>2. pass.library = server /\ \A d \in Done : Allocated(d)
        BY <3>1 DEF CleanPass
      <3>3. ASSUME NEW d \in Done, d \in Docs PROVE Allocated(d)'
        <4>1. db'[d] = db[d] \/ (UpsertPlacement /\ d = pass.doc)
          <5>1. d \in Present(pass.library)
            BY <3>2, <3>3 DEF Done
          <5>2. ~Sweeps(d)
            BY <5>1 DEF Sweeps, Absent, Present
          <5>3. ~(At("dropping") /\ d = pass.doc)
            BY <5>1 DEF At, CleanPass
          <5>4. QED BY <3>3, <5>2, <5>3, PlacementsChange
        <4>2. ~(UpsertPlacement /\ d = pass.doc)
          BY <3>1, <3>3 DEF UpsertPlacement, At, CleanPass, OnItsWay, Writing, Done
        <4>3. QED BY <3>1, <3>2, <3>3, <4>1, <4>2 DEF Allocated, Target
      <3>4. ASSUME FinishOp, NEW d, d = pass.doc PROVE Allocated(d)'
        <4>1. pass.phase = "placed" /\ db' = db /\ OnItsWay
          BY <3>4 DEF FinishOp, At, OnItsWay, Writing
        <4>2. /\ db[pass.doc] = Placement /\ pass.target = Target(server, pass.doc)
              /\ pass.path \in Paths
          BY <3>1, <3>2, <4>1 DEF FromPlacement, CleanPass, Typed, PassTyped, Writing
        <4>3. Placement # NoPlacement /\ Placement.canonical = pass.target
          BY <4>2, PathsAreNamed DEF Placement, NoPlacement
        <4>4. QED BY <3>1, <3>4, <4>1, <4>2, <4>3 DEF Allocated, Target
      <3>5. ASSUME NEW d \in Done' PROVE Allocated(d)'
        <4>1. d \in Docs /\ d \in Present(server)
          BY <3>1, <3>5 DEF Done, Present
        <4>2. d \in Done \/ (FinishOp /\ d = pass.doc)
          BY <3>1, <3>5, <4>1 DEF Done, Present
        <4>3. QED BY <3>3, <3>4, <4>1, <4>2
      <3>6. QED BY <3>1, <3>2, <3>5
    <2>3. QED BY <2>1, <2>2
  <1>4. QED BY <1>1, <1>2, <1>3 DEF CleanPass


\* Passes that nothing comes between are counted when they end, and only then.
LEMMA QuietPasses ==
    ASSUME Typed, CleanPass, [LSNext]_vars, quiet' # 0
    PROVE  /\ ~Stirs /\ ~StepFails /\ ~Crash /\ ~(\E d \in Docs : LeavesMetadata(d))
           /\ UNCHANGED server
           /\ \/ quiet' = quiet
              \/ PassEnds /\ pass.clean /\ quiet < 2 /\ quiet' = quiet + 1
  <1>1. ~Stirs /\ ~StepFails /\ ~Crash /\ ~(\E d \in Docs : LeavesMetadata(d))
    BY DEF Stirs, StepFails, Crash, LeavesMetadata
  <1>2. ~(\E d \in Docs : LibraryChanges(d)) /\ ~(\E p \in Paths : UserEdits(p) \/ UserDeletes(p))
    BY <1>1 DEF LibraryChanges, UserEdits, UserDeletes
  <1>3. UNCHANGED server
    BY <1>1, <1>2 DEF LSNext, vars, world, OnceBegins, SnapshotFetched, PassEnds, Aborts, ReplayReads,
           ReplayRemoves, RemoveOld, RemovesAbsent, WriteFile, ProjectionFetched, LooksAtOld,
           WriteMetadata, UpsertPlacement, FinishOp, DropsAbsent, RefreshBegins, DocumentFetched,
           Looks, RefusesRemoval, ForgetsAbsent, LooksAtAbsent
  <1>4. CASE PassEnds
    BY <1>1, <1>3, <1>4 DEF PassEnds
  <1>5. CASE ~PassEnds
    <2>1. quiet' = quiet
      BY <1>1, <1>2, <1>5 DEF LSNext, vars, record, OnceBegins, SnapshotFetched, Aborts, ReplayReads,
           ReplayRemoves, RemoveOld, RemovesAbsent, WriteFile, ProjectionFetched, LooksAtOld,
           WriteMetadata, UpsertPlacement, FinishOp, DropsAbsent, RefreshBegins, DocumentFetched,
           Looks, RefusesRemoval, ForgetsAbsent, LooksAtAbsent
    <2>2. QED BY <1>1, <1>3, <2>1
  <1>6. QED BY <1>4, <1>5

\* A pass that ends has done all documents of its snapshot, and nothing else has a placement.
LEMMA PassDone ==
    ASSUME Typed, CleanPass, PassEnds, pass.clean
    PROVE  /\ Snapshot /\ Done = Present(server) /\ op = NoOp
           /\ \A d \in Docs : IF d \in Present(server) THEN Allocated(d) ELSE db[d] = NoPlacement
  <1>1. pass.phase = "documents" /\ pass.todo = {} /\ Absent = {}
    BY DEF PassEnds, At
  <1>2. Snapshot /\ op = NoOp /\ Done = Present(server)
    BY <1>1 DEF Snapshot, Late, CleanPass, Typed, JournalTyped, Done
  <1>3. pass.library = server /\ \A d \in Done : Allocated(d)
    BY <1>2 DEF CleanPass
  <1>4. QED BY <1>1, <1>2, <1>3 DEF Absent, Present

\* Once all is allocated, a quiet step writes nothing but the file of its document,
\* and records nothing but the placement of its document.
LEMMA SettledSteps ==
    ASSUME MirrorInv, [LSNext]_vars, quiet # 0, quiet' # 0
    PROVE  /\ \/ UNCHANGED disk
              \/ WriteFile
           /\ \A d \in Docs : \/ db'[d] = db[d]
                              \/ UpsertPlacement /\ d = pass.doc /\ db'[d] = Placement
           /\ pass'.phase \notin {"removing", "dropping"}
           /\ pass'.phase \notin Writing => op' = NoOp
  <1> USE DEF files, placements, world, record
  <1>a. Typed /\ CleanPass /\ Settled
    BY DEF MirrorInv
  <1>b. ~Stirs /\ ~StepFails /\ ~Crash /\ ~(\E d \in Docs : LeavesMetadata(d)) /\ UNCHANGED server
    BY <1>a, QuietPasses
  <1>1. ~(\E d \in Docs : LibraryChanges(d)) /\ ~(\E p \in Paths : UserEdits(p) \/ UserDeletes(p))
    BY <1>b DEF LibraryChanges, UserEdits, UserDeletes
  <1>2. ~RemovesAbsent /\ ~DropsAbsent /\ ~At("dropping")
    BY <1>a DEF Settled, RemovesAbsent, DropsAbsent, At
  <1>3. ASSUME NEW d \in Docs PROVE ~Sweeps(d)
    <2>1. Sweeps(d) => Snapshot /\ pass.clean
      BY <1>a DEF Sweeps, At, Snapshot, Late, CleanPass
    <2>2. Sweeps(d) => db[d] # NoPlacement /\ d \notin Present(server)
      BY <1>a, <2>1 DEF Sweeps, Absent, CleanPass, Present
    <2>3. QED BY <1>a, <2>2 DEF Settled
  <1>4. ~\E d \in Docs : LooksAtAbsent(d) \/ RefusesRemoval(d) \/ ForgetsAbsent(d)
    BY <1>3 DEF LooksAtAbsent, RefusesRemoval, ForgetsAbsent
  <1>5. ~ReplayReads /\ (ReplayRemoves => ~At("replaying"))
    BY <1>a DEF ReplayReads, ReplayRemoves, At, Settled, Typed, JournalTyped, Writing
  <1>6. UNCHANGED disk \/ WriteFile
    <2>1. RemoveOld => UNCHANGED disk
      BY <1>a DEF RemoveOld, At, Settled, OnItsWay, Writing
    <2>2. ReplayRemoves => UNCHANGED disk
      BY <1>5 DEF ReplayRemoves
    <2>3. QED BY <1>b, <1>1, <1>2, <1>4, <1>5, <2>1, <2>2 DEF LSNext, vars, OnceBegins, SnapshotFetched,
           PassEnds, Aborts, ProjectionFetched, LooksAtOld, WriteMetadata, UpsertPlacement, FinishOp,
           RefreshBegins, DocumentFetched, Looks
  <1>7. ASSUME NEW d \in Docs
        PROVE  db'[d] = db[d] \/ (UpsertPlacement /\ d = pass.doc /\ db'[d] = Placement)
    BY <1>a, <1>2, <1>3, PlacementsChange
  <1>8. pass'.phase \notin {"removing", "dropping"} /\ (pass'.phase \notin Writing => op' = NoOp)
    <2>1. CASE OnceBegins \/ \E d \in Docs : RefreshBegins(d)
      <3>1. pass.phase = "idle" /\ op' = op
        BY <2>1 DEF OnceBegins, RefreshBegins, At
      <3>2. pass'.phase = "replay"
        BY <1>a, <2>1, PassBegins
      <3>3. QED BY <1>a, <3>1, <3>2 DEF Settled, Writing
    <2>2. CASE PassEnds \/ Aborts
      <3>1. pass.phase \notin Writing /\ op' = op /\ pass' = NoPass
        BY <2>2 DEF PassEnds, Aborts, At, Writing
      <3>2. QED BY <1>a, <3>1, NoPassTyped DEF Settled
    <2>3. CASE ReplayRemoves
      BY <1>a, <2>3, PassSteps DEF ReplayRemoves, Phases
    <2>4. CASE SnapshotFetched
      BY <1>a, <2>4, PassSteps DEF SnapshotFetched, At, Settled, Writing
    <2>5. CASE WriteFile \/ RemoveOld \/ WriteMetadata \/ UpsertPlacement
      <3>1. PICK phase \in Writing : Goes(phase)
        BY <2>5 DEF WriteFile, RemoveOld, WriteMetadata, UpsertPlacement, Writing
      <3>2. pass'.phase = phase
        BY <1>a, <3>1, PassSteps DEF Writing, Phases
      <3>3. QED BY <3>1, <3>2 DEF Writing
    <2>6. CASE LooksAtOld
      BY <1>a, <2>6, PassSteps DEF Writing
    <2>7. CASE FinishOp
      BY <1>a, <2>7, PassBegins, NoPassTyped DEF FinishOp
    <2>8. ASSUME NEW d, NEW target, NEW rev, Looks(d, target, rev),
                 pass.phase \in {"documents", "fetch"}
          PROVE  pass'.phase = "old" /\ op' = NoOp
      BY <1>a, <2>8, PassLooks DEF Looks, Settled, Writing
    <2>9. CASE ProjectionFetched \/ \E d \in Docs : DocumentFetched(d)
      BY <1>a, <2>8, <2>9, LookedAt
    <2>10. CASE UNCHANGED vars
      BY <1>a, <2>10 DEF vars, Settled
    <2>11. QED BY <1>b, <1>1, <1>2, <1>4, <1>5, <2>1, <2>2, <2>3, <2>4, <2>5, <2>6, <2>7, <2>9, <2>10
               DEF LSNext
  <1>9. QED BY <1>6, <1>7, <1>8

\* The file that is being written is not the file of another document.
LEMMA WriteApart ==
    ASSUME MirrorInv, quiet # 0, OnItsWay, NEW d \in Present(server), d # pass.doc
    PROVE  pass.path # db[d].path
  <1>1. /\ Typed /\ OwnPaths /\ Settled /\ d \in Docs
    BY DEF MirrorInv, Present
  <1>2. server \in Libraries /\ pass.doc \in Present(server)
    BY <1>1, ServerLibrary DEF Settled
  <1>3. pass.path \in Own(pass.doc, Target(server, pass.doc))
    BY <1>1 DEF OwnPaths, Settled
  <1>4. db[d].path \in Own(d, Target(server, d))
    BY <1>1 DEF OwnPaths, Settled, Allocated
  <1>5. QED BY <1>2, <1>3, <1>4, OwnApart

\* Once all is allocated, a look finds the document where its placement says,
\* or nothing there.
LEMMA SettledLooks ==
    ASSUME MirrorInv, quiet # 0, quiet' # 0, [LSNext]_vars,
           ProjectionFetched \/ \E d \in Docs : DocumentFetched(d)
    PROVE  /\ pass'.phase = "old" /\ UNCHANGED <<disk, db>> /\ ~pass'.moves
           /\ pass'.doc \in Present(server) /\ pass'.previous = db[pass'.doc]
           /\ pass'.target = Target(server, pass'.doc) /\ pass'.rev = server[pass'.doc].rev
           /\ pass'.path = db[pass'.doc].path \/ ~Taken(db[pass'.doc].path)
  <1>1. Typed /\ CleanPass /\ Settled
    BY DEF MirrorInv
  <1>2. PICK d \in Present(server) :
          /\ Looks(d, Target(server, d), server[d].rev)
          /\ pass.phase \in {"documents", "fetch"}
    <2>1. CASE ProjectionFetched
      BY <1>1, <2>1, LookedAt DEF Settled, Allocated
    <2>2. ASSUME NEW d \in Docs, DocumentFetched(d)
          PROVE  /\ d \in Present(server) /\ Looks(d, Target(server, d), server[d].rev)
                 /\ pass.phase \in {"documents", "fetch"}
      <3>1. /\ d \in Present(server) /\ pass.phase = "documents"
            /\ Looks(d, Target(pass.library, d), server[d].rev)
        BY <1>1, <2>2, LookedAt
      <3>2. pass.library = server
        BY <1>1, <3>1 DEF CleanPass, Snapshot, Late
      <3>3. QED BY <3>1, <3>2
    <2>3. QED BY <2>1, <2>2
  <1>3. d \in Docs /\ db[d] # NoPlacement /\ db[d].canonical = Target(server, d)
    BY <1>1 DEF Present, Settled, Allocated
  <1>4. Previous(d) = db[d]
    BY <1>3 DEF Previous
  <1>5. /\ pass'.phase = "old" /\ pass'.moves = pass.moves /\ pass'.doc = d
        /\ pass'.target = Target(server, d) /\ pass'.rev = server[d].rev
        /\ pass'.previous = db[d] /\ pass'.path \in Resolved(d, Target(server, d), db[d])
    BY <1>1, <1>2, <1>4, PassLooks
  <1>6. ~pass.moves
    BY <1>1, <1>2 DEF Typed, PassTyped, Writing
  <1>7. pass'.path = db[d].path \/ ~Taken(db[d].path)
    BY <1>3, <1>5 DEF Resolved
  <1>8. UNCHANGED <<disk, db>>
    BY <1>2 DEF Looks, placements
  <1>9. QED BY <1>5, <1>6, <1>7, <1>8

LEMMA SettledNext ==
    ASSUME MirrorInv, [LSNext]_vars, quiet' # 0
    PROVE  Settled'
  <1>a. Typed /\ CleanPass /\ UNCHANGED server
    BY QuietPasses DEF MirrorInv
  <1>1. CASE quiet = 0
    <2>1. PassEnds /\ pass.clean
      BY <1>a, <1>1, QuietPasses
    <2>2. /\ op = NoOp
          /\ \A d \in Docs : IF d \in Present(server) THEN Allocated(d) ELSE db[d] = NoPlacement
      BY <1>a, <2>1, PassDone
    <2>3. pass'.phase = "idle" /\ UNCHANGED <<op, db>>
      BY <2>1, NoPassTyped DEF PassEnds, files, placements
    <2>4. \A d \in Docs : IF d \in Present(server)' THEN Allocated(d)' ELSE db'[d] = NoPlacement
      BY <1>a, <2>2, <2>3 DEF Allocated, Present, Target
    <2>5. ~Snapshot' /\ ~OnItsWay'
      BY <2>3 DEF Snapshot, Late, OnItsWay, Writing
    <2>6. QED BY <2>2, <2>3, <2>4, <2>5 DEF Settled, Writing
  <1>2. CASE quiet # 0
    <2>a. Settled /\ OwnPaths /\ FromPlacement
      BY <1>2 DEF MirrorInv
    <2>b. /\ UNCHANGED disk \/ WriteFile
          /\ \A d \in Docs : \/ db'[d] = db[d]
                             \/ UpsertPlacement /\ d = pass.doc /\ db'[d] = Placement
          /\ pass'.phase \notin {"removing", "dropping"}
          /\ pass'.phase \notin Writing => op' = NoOp
      BY <1>2, SettledSteps
    \* Allocated stays allocated.
    <2>1. ASSUME NEW d \in Docs
          PROVE  IF d \in Present(server)' THEN Allocated(d)' ELSE db'[d] = NoPlacement
      <3>1. CASE db'[d] = db[d]
        BY <1>a, <2>a, <3>1 DEF Settled, Allocated, Present, Target
      <3>2. CASE UpsertPlacement /\ d = pass.doc /\ db'[d] = Placement
        <4>1. OnItsWay
          BY <3>2 DEF UpsertPlacement, At, OnItsWay, Writing
        <4>2. d \in Present(server) /\ pass.target = Target(server, d) /\ pass.path \in Paths
          BY <1>a, <2>a, <3>2, <4>1 DEF Settled, Typed, PassTyped, OnItsWay
        <4>3. Placement # NoPlacement /\ Placement.canonical = pass.target
          BY <4>2, PathsAreNamed DEF Placement, NoPlacement
        <4>4. QED BY <1>a, <3>2, <4>2, <4>3 DEF Allocated, Present, Target
      <3>3. QED BY <2>b, <3>1, <3>2
    \* A write that goes on knows what it knew, and nothing moves.
    <2>2. ASSUME OnItsWay'
          PROVE  /\ pass'.doc \in Present(server') /\ ~pass'.moves
                 /\ pass'.target = Target(server', pass'.doc) /\ pass'.rev = server'[pass'.doc].rev
                 /\ pass'.phase = "old" => pass'.path = pass'.previous.path \/ ~Taken(Old)'
                 /\ pass'.phase \in Writing \ {"begun"} =>
                      disk'[pass'.path] = Projection(pass'.doc, pass'.rev)
      <3>1. CASE ProjectionFetched \/ \E d \in Docs : DocumentFetched(d)
        <4>1. /\ pass'.phase = "old" /\ UNCHANGED <<disk, db>> /\ ~pass'.moves
              /\ pass'.doc \in Present(server) /\ pass'.previous = db[pass'.doc]
              /\ pass'.target = Target(server, pass'.doc) /\ pass'.rev = server[pass'.doc].rev
              /\ pass'.path = db[pass'.doc].path \/ ~Taken(db[pass'.doc].path)
          BY <1>2, <3>1, SettledLooks
        <4>2. pass'.path = pass'.previous.path \/ ~Taken(Old)'
          BY <4>1 DEF Taken, Old
        <4>3. QED BY <1>a, <4>1, <4>2 DEF Writing
      <3>2. CASE /\ OnItsWay /\ SameWork
                 /\ \/ UNCHANGED pass
                    \/ LooksAtOld \/ WriteFile \/ RemoveOld \/ WriteMetadata \/ UpsertPlacement
        <4>1. /\ pass.doc \in Present(server) /\ ~pass.moves
              /\ pass.target = Target(server, pass.doc) /\ pass.rev = server[pass.doc].rev
              /\ pass.doc \in Docs /\ pass.path \in Paths /\ disk \in [Paths -> File]
          BY <1>a, <2>a, <3>2 DEF Settled, Typed, PassTyped, OnItsWay, DiskTyped
        <4>2. CASE UNCHANGED pass
          <5>1. pass.phase # "begun" => UNCHANGED disk
            BY <2>b DEF WriteFile, At
          <5>2. pass.phase = "old" => pass'.path = pass'.previous.path \/ ~Taken(Old)'
            BY <2>a, <4>2, <5>1 DEF Settled, Taken, Old
          <5>3. QED BY <1>a, <2>a, <4>1, <4>2, <5>1, <5>2 DEF Settled
        <4>3. CASE LooksAtOld
          <5>1. pass.phase = "old" /\ pass'.phase = "begun"
                /\ pass'.moves = (pass.previous # NoPlacement /\ Old # pass.path /\ Taken(Old))
            BY <1>a, <4>3, PassSteps DEF LooksAtOld, At
          <5>2. ~pass'.moves
            BY <2>a, <5>1 DEF Settled
          <5>3. QED BY <1>a, <3>2, <4>1, <5>1, <5>2 DEF SameWork, Writing
        <4>4. CASE WriteFile
          <5>1. pass'.phase = "written" /\ pass'.moves = pass.moves
            BY <1>a, <4>4, PassSteps DEF WriteFile, Phases
          <5>2. disk'[pass.path] = Projection(pass.doc, pass.rev)
            BY <4>1, <4>4 DEF WriteFile
          <5>3. QED BY <1>a, <3>2, <4>1, <5>1, <5>2 DEF SameWork, Writing
        <4>5. CASE RemoveOld \/ WriteMetadata \/ UpsertPlacement
          <5>1. PICK phase \in {"removed", "recorded", "placed"} : Goes(phase)
            BY <4>5 DEF RemoveOld, WriteMetadata, UpsertPlacement
          <5>2. pass'.phase = phase /\ pass'.moves = pass.moves
            BY <1>a, <5>1, PassSteps DEF Phases
          <5>3. pass.phase \in Writing \ {"begun"} /\ UNCHANGED disk
            BY <2>b, <4>5 DEF RemoveOld, WriteMetadata, UpsertPlacement, WriteFile, At, Writing
          <5>4. disk'[pass.path] = Projection(pass.doc, pass.rev)
            BY <2>a, <5>3 DEF Settled
          <5>5. QED BY <1>a, <3>2, <4>1, <5>1, <5>2, <5>4 DEF SameWork
        <4>6. QED BY <3>2, <4>2, <4>3, <4>4, <4>5
      <3>3. ~Stirs /\ ~StepFails
        BY <1>a, QuietPasses
      <3>4. QED BY <1>a, <2>2, <3>1, <3>2, <3>3, WriteGoesOn
    \* What is done stays up to date.
    <2>3. ASSUME Snapshot', NEW d \in Done' PROVE UpToDate(d)'
      <3>1. CASE SnapshotFetched
        BY <1>a, <2>3, <3>1, PassSteps DEF Done, Present
      <3>2. CASE /\ Snapshot
                 /\ \/ pass'.todo = pass.todo
                    \/ FinishOp /\ pass'.todo = pass.todo \ {pass.doc}
        <4>1. d \in Docs /\ d \in Present(server)
          BY <1>a, <2>3 DEF Done, Present
        <4>2. CASE d \in Done
          <5>1. OnItsWay => d # pass.doc
            BY <1>a, <3>2, <4>2 DEF CleanPass, Done
          <5>2. db'[d] = db[d]
            BY <2>b, <4>1, <5>1 DEF UpsertPlacement, At, OnItsWay, Writing
          <5>3. disk[db[d].path] = Projection(d, server[d].rev)
            BY <2>a, <3>2, <4>2 DEF Settled, UpToDate
          <5>4. CASE WriteFile
            <6>1. OnItsWay
              BY <5>4 DEF WriteFile, At, OnItsWay, Writing
            <6>2. pass.path # db[d].path
              BY <1>2, <4>1, <5>1, <6>1, WriteApart
            <6>3. db[d].path \in Paths
              BY <1>a, <2>a, <4>1 DEF Settled, Allocated, Typed, PlacementsTyped, Placements
            <6>4. disk'[db[d].path] = disk[db[d].path]
              BY <1>a, <5>4, <6>2, <6>3 DEF WriteFile, Typed, DiskTyped
            <6>5. QED BY <1>a, <5>2, <5>3, <6>4 DEF UpToDate
          <5>5. QED BY <1>a, <2>b, <5>2, <5>3, <5>4 DEF UpToDate
        <4>3. CASE FinishOp /\ d = pass.doc
          <5>1. pass.phase = "placed" /\ OnItsWay /\ UNCHANGED <<disk, db>>
            BY <4>3 DEF FinishOp, At, OnItsWay, Writing, placements
          <5>2. /\ disk[pass.path] = Projection(d, pass.rev) /\ pass.rev = server[d].rev
                /\ db[d].path = pass.path
            BY <2>a, <4>3, <5>1 DEF Settled, FromPlacement, Placement, Writing
          <5>3. QED BY <1>a, <5>1, <5>2 DEF UpToDate
        <4>4. QED BY <2>3, <3>2, <4>1, <4>2, <4>3 DEF Done
      <3>3. QED BY <1>a, <2>3, <3>1, <3>2, SnapshotGoesOn
    <2>4. \A d \in Docs : IF d \in Present(server)' THEN Allocated(d)' ELSE db'[d] = NoPlacement
      BY <2>1
    <2>5. Snapshot' => \A d \in Done' : UpToDate(d)'
      BY <2>3
    <2>6. pass'.phase = "old" => pass'.path = Old' \/ ~Taken(Old)'
      BY <2>2 DEF Old, OnItsWay
    <2>7. Present(server)' = Present(server')
      BY DEF Present
    <2>8. OnItsWay' => /\ pass'.doc \in Present(server)' /\ ~pass'.moves
                       /\ pass'.target = Target(server', pass'.doc)
                       /\ pass'.rev = server'[pass'.doc].rev
      BY <2>2, <2>7
    <2>9. pass'.phase \in Writing \ {"begun"} => disk'[pass'.path] = Projection(pass'.doc, pass'.rev)
      BY <2>2 DEF OnItsWay
    <2>10. QED BY <2>b, <2>4, <2>5, <2>6, <2>8, <2>9 DEF Settled
  <1>3. QED BY <1>1, <1>2

LEMMA RepeatsNext ==
    ASSUME MirrorInv, [LSNext]_vars, quiet' = 2
    PROVE  Repeats'
  <1>a. Typed /\ CleanPass /\ UNCHANGED server /\ quiet # 0
    BY QuietPasses DEF MirrorInv, Typed, RecordTyped
  <1>b. Settled /\ OwnPaths
    BY <1>a DEF MirrorInv
  <1>1. CASE quiet # 2
    <2>1. PassEnds /\ pass.clean
      BY <1>a, <1>1, QuietPasses
    <2>2. Snapshot /\ Done = Present(server) /\ UNCHANGED <<disk, db>> /\ pass'.phase = "idle"
      BY <1>a, <2>1, PassDone, NoPassTyped DEF PassEnds, files, placements
    <2>3. \A d \in Present(server) : Allocated(d) /\ UpToDate(d)
      BY <1>b, <2>2 DEF Settled, Present
    <2>4. Mirrored
      BY <2>3 DEF Mirrored, Allocated, UpToDate
    <2>5. Mirrored'
      BY <1>a, <2>2, <2>4 DEF Mirrored, Present, Target
    <2>6. QED BY <2>2, <2>5 DEF Repeats, OnItsWay, Writing
  <1>2. CASE quiet = 2
    <2>a. Mirrored /\ (OnItsWay => pass.path = db[pass.doc].path)
      BY <1>2 DEF MirrorInv, Repeats
    <2>b. /\ UNCHANGED disk \/ WriteFile
          /\ \A d \in Docs : \/ db'[d] = db[d]
                             \/ UpsertPlacement /\ d = pass.doc /\ db'[d] = Placement
      BY <1>a, SettledSteps
    \* A placement that is recorded is the one that is there.
    <2>1. ASSUME NEW d \in Docs PROVE db'[d].path = db[d].path
      <3>1. CASE UpsertPlacement /\ d = pass.doc /\ db'[d] = Placement
        BY <2>a, <3>1 DEF UpsertPlacement, At, OnItsWay, Writing, Placement
      <3>2. QED BY <2>b, <3>1
    <2>2. ASSUME NEW d \in Present(server)
          PROVE  /\ db'[d] # NoPlacement /\ db'[d].canonical = Target(server', d)
                 /\ disk'[db'[d].path] = Projection(d, server'[d].rev)
      <3>1. /\ d \in Docs /\ disk[db[d].path] = Projection(d, server[d].rev)
            /\ db[d] \in Placements /\ db[d] # NoPlacement /\ db[d].path \in Paths
        BY <1>a, <2>a DEF Present, Mirrored, Typed, PlacementsTyped, Placements
      <3>2. Settled'
        BY <1>a, SettledNext
      <3>3. db'[d] # NoPlacement /\ db'[d].canonical = Target(server', d)
        BY <1>a, <3>1, <3>2 DEF Settled, Present, Allocated
      <3>4. CASE WriteFile
        <4>1. OnItsWay /\ pass.path \in Paths /\ pass.rev = server[pass.doc].rev
          BY <1>a, <1>b, <3>4 DEF WriteFile, At, OnItsWay, Writing, Typed, PassTyped, Settled
        <4>2. disk' = [disk EXCEPT ![pass.path] = Projection(pass.doc, pass.rev)]
              /\ disk \in [Paths -> File]
          BY <1>a, <3>4 DEF WriteFile, Typed, DiskTyped
        <4>3. CASE d = pass.doc
          BY <1>a, <2>a, <2>1, <3>1, <3>3, <4>1, <4>2, <4>3
        <4>4. CASE d # pass.doc
          <5>1. pass.path # db[d].path
            BY <1>a, <4>1, <4>4, WriteApart
          <5>2. QED BY <1>a, <2>1, <3>1, <3>3, <4>2, <5>1
        <4>5. QED BY <4>3, <4>4
      <3>5. CASE UNCHANGED disk
        BY <1>a, <2>1, <3>1, <3>3, <3>5
      <3>6. QED BY <2>b, <3>4, <3>5
    <2>3. ASSUME OnItsWay' PROVE pass'.path = db'[pass'.doc].path
      <3>1. CASE ProjectionFetched \/ \E d \in Docs : DocumentFetched(d)
        <4>1. /\ UNCHANGED <<disk, db>> /\ pass'.doc \in Present(server)
              /\ pass'.path = db[pass'.doc].path \/ ~Taken(db[pass'.doc].path)
          BY <1>a, <3>1, SettledLooks
        <4>2. \A d \in Present(server) : Taken(db[d].path)
          <5>1. ASSUME NEW d \in Present(server) PROVE Taken(db[d].path)
            <6>1. d \in Docs /\ disk[db[d].path] = Projection(d, server[d].rev)
              BY <2>a DEF Present, Mirrored
            <6>2. Projection(d, server[d].rev).of = d /\ d # User
              BY <6>1, Types DEF Projection
            <6>3. QED BY <6>1, <6>2, FilesTyped DEF Taken
          <5>2. QED BY <5>1
        <4>3. Taken(db[pass'.doc].path)
          BY <4>1, <4>2
        <4>4. QED BY <4>1, <4>3
      <3>2. CASE OnItsWay /\ SameWork
        <4>1. pass.doc \in Docs
          BY <1>b, <3>2 DEF Settled, Present
        <4>2. QED BY <2>a, <2>1, <3>2, <4>1 DEF SameWork
      <3>3. QED BY <1>a, <2>3, <3>1, <3>2, WriteGoesOn
    <2>4. Mirrored'
      BY <1>a, <2>2 DEF Mirrored
    <2>5. QED BY <2>3, <2>4 DEF Repeats
  <1>3. QED BY <1>1, <1>2

\* "The next sync recreates clean projections" (rootReadmeContent), but for the
\* next: after two whole passes with nothing in between each document of the
\* library has its file, up to date, where its placement says.
THEOREM MirroredByTwo == LSSpec => []MirroredAfterTwo
  <1>1. LSInit => MirrorInv
    <2> SUFFICES ASSUME LSInit PROVE MirrorInv
      OBVIOUS
    <2>1. FromPlacement /\ ~OnItsWay /\ ~Snapshot
      BY NoPassTyped DEF LSInit, FromPlacement, OnItsWay, Writing, Snapshot, Late
    <2>2. OwnPaths /\ CleanPass
      BY <2>1, NoPassTyped DEF LSInit, OwnPaths, CleanPass
    <2>3. QED BY <2>1, <2>2, InitTyped DEF LSInit, MirrorInv
  <1>2. MirrorInv /\ [LSNext]_vars => MirrorInv'
    <2> SUFFICES ASSUME MirrorInv, [LSNext]_vars PROVE MirrorInv'
      OBVIOUS
    <2>1. Typed' /\ FromPlacement' /\ OwnPaths' /\ CleanPass'
      BY StepTyped, FromPlacementNext, OwnPathsNext, CleanPassNext DEF MirrorInv
    <2>2. quiet' # 0 => Settled'
      BY SettledNext
    <2>3. quiet' = 2 => Repeats'
      BY RepeatsNext
    <2>4. QED BY <2>1, <2>2, <2>3 DEF MirrorInv
  <1>3. MirrorInv => MirroredAfterTwo
    BY DEF MirrorInv, Repeats, MirroredAfterTwo
  <1>4. QED BY <1>1, <1>2, <1>3, PTL DEF LSSpec

=============================================================================
