----------------------------- MODULE LibrarySync -----------------------------
(***************************************************************************)
(* The library sync (internal/commentsync) mirrors the documents of the    *)
(* server as files. A pass, under the sync lock, either mirrors a whole    *)
(* snapshot (Once) or refreshes one document (RefreshProjection); both     *)
(* write a file through writeProjection, step by step: look at what is     *)
(* there, keep the user's edits as recoveries, journal the write, write,   *)
(* remove the file the document had before, and record the placement.      *)
(* The user edits, creates and deletes files at any moment, the server's   *)
(* library changes, the process dies and single steps fail.                *)
(*                                                                         *)
(* A file is the projection of a document at a revision, or an edit of the *)
(* user. Two revisions differ in their bodies, and an edit is one of the   *)
(* body: what is in the generated header is not looked at. One section,    *)
(* which snapshots cover, holds all documents, in one folder.              *)
(***************************************************************************)
EXTENDS Integers, FiniteSets

CONSTANTS Docs,        \* visible instance ids: numbers, in the order of the ids
          Names, NoName,
          MaxSuffix,   \* bound: siblings tried for a target
          MaxRev, MaxEvents  \* bounds

User == 0

ASSUME LibrarySyncAssumption ==
    /\ Docs \subseteq Nat \ {User} /\ IsFiniteSet(Docs)
    /\ NoName \notin Names
    /\ {MaxSuffix, MaxRev} \subseteq Nat \ {0} /\ MaxEvents \in Nat

VARIABLES server,   \* the library: name and revision of each document
          disk,     \* the files under the sync root
          db, meta, \* placements, in the database and in the metadata files
          op,       \* the write_projection operation that is started, if one is
          kept,     \* edits of which a recovery artifact exists
          pass,     \* the pass that holds the sync lock
          events,   \* edits, changes of the library, crashes and failed steps so far
          made,     \* edits that are owed to the user: see Edits
          excused,  \* documents a step has failed for, or whose removal was refused
          quiet     \* whole passes completed since anything else happened, up to 2

files == <<disk, op, kept>>
placements == <<db, meta>>
world == <<server, events>>
record == <<made, excused, quiet>>
vars == <<files, placements, pass, world, record>>

-----------------------------------------------------------------------------
(* Files and paths. *)

Projection(d, r) == [of |-> d, rev |-> r]
Edit(e) == [of |-> User, rev |-> e]
Nothing == Edit(0)

\* The file a document's name asks for, and the names with the document's
\* suffix: the allocation's own (1), and the siblings tried when a target is taken.
Plain(n) == [name |-> n, doc |-> User, suffix |-> 0]
Suffixed(n, d, k) == [name |-> n, doc |-> d, suffix |-> k]
Paths == {Plain(n) : n \in Names}
            \cup {Suffixed(n, d, k) : n \in Names, d \in Docs, k \in 1..2 * MaxSuffix}

\* allocatePaths and uniquePath: of documents of one name the first has it.
Target(library, d) ==
    LET n == library[d].name
    IN  IF \E c \in Docs : c < d /\ library[c].name = n THEN Suffixed(n, d, 1) ELSE Plain(n)

Sibling(target, d, k) ==
    Suffixed(target.name, d, IF target.doc = User THEN k ELSE MaxSuffix + k)
Taken(p) == disk[p] # Nothing
FirstAvailable(target, d) ==
    {Sibling(target, d, k) : k \in {i \in 1..MaxSuffix :
        /\ ~Taken(Sibling(target, d, i))
        /\ \A j \in 1..(i - 1) : Taken(Sibling(target, d, j))}}

NoPlacement == [path |-> Plain(NoName), canonical |-> Plain(NoName), rev |-> 0]
NoOp == [doc |-> User, path |-> Plain(NoName)]
Previous(d) == IF db[d] # NoPlacement THEN db[d] ELSE meta[d]

\* resolveProjectionTarget: its file, the sibling it had to move to before, the
\* target if it is free, or else a sibling.
Resolved(d, target, previous) ==
    IF previous.path = target THEN {target}
    ELSE IF previous # NoPlacement /\ previous.canonical = target /\ Taken(previous.path)
         THEN {previous.path}
    ELSE IF ~Taken(target) THEN {target}
    ELSE FirstAvailable(target, d)

\* placementLocallyDirty; without a placement nothing is dirty.
Dirty(d, previous, file) == previous # NoPlacement /\ file # Projection(d, previous.rev)

\* preserveRecovery; artifacts of what is no edit are not followed.
Preserves(file) == kept' = IF file.of = User THEN kept \cup {file.rev} ELSE kept

-----------------------------------------------------------------------------
(* Passes. *)

NoPass == [kind |-> "none", phase |-> "idle", library |-> [d \in Docs |-> [name |-> NoName, rev |-> 0]],
           todo |-> {}, doc |-> User, target |-> Plain(NoName), path |-> Plain(NoName),
           rev |-> 0, previous |-> NoPlacement, moves |-> FALSE, clean |-> TRUE]
At(phase) == pass.phase = phase
Goes(phase) == pass' = [pass EXCEPT !.phase = phase]
Present(library) == {d \in Docs : library[d].name # NoName}

\* Something comes between: the passes so far are no longer followed by nothing.
Stirs == /\ quiet' = 0
         /\ pass' = IF At("idle") THEN pass ELSE [pass EXCEPT !.clean = FALSE]

Happens == events < MaxEvents /\ events' = events + 1

LSInit ==
    /\ server \in [Docs -> [name : Names \cup {NoName}, rev : {1}]]
    /\ disk = [p \in Paths |-> Nothing]
    /\ db = [d \in Docs |-> NoPlacement] /\ meta = db
    /\ op = NoOp /\ kept = {} /\ pass = NoPass
    /\ events = 0
    /\ made = {} /\ excused = {} /\ quiet = 0

\* Once, by the worker's timer, the live connection or the user.
OnceBegins ==
    /\ At("idle")
    /\ pass' = [NoPass EXCEPT !.kind = "once", !.phase = "replay"]
    /\ UNCHANGED <<files, placements, world, record>>

\* RefreshProjection, for a live event or a file found changed; a document
\* without a placement calls for Once instead.
RefreshBegins(d) ==
    /\ At("idle") /\ db[d] # NoPlacement
    /\ pass' = [NoPass EXCEPT !.kind = "refresh", !.phase = "replay", !.doc = d]
    /\ UNCHANGED <<files, placements, world, record>>

\* replayIncompleteOps: what an unfinished write has left is kept, ...
ReplayReads ==
    /\ At("replay") /\ op # NoOp /\ Taken(op.path)
    /\ Preserves(disk[op.path])
    /\ Goes("replaying")
    /\ UNCHANGED <<disk, op, placements, world, record>>

\* Mutant of ReplayRemoves: the journal is closed and nothing is removed.
ReplayOnlyCloses ==
    /\ pass.phase \in {"replay", "replaying"}
    /\ op' = NoOp
    /\ Goes("fetch")
    /\ UNCHANGED <<disk, kept, placements, world, record>>

\* ... and removed; then the journal is closed.
ReplayRemoves ==
    /\ IF At("replay") THEN op # NoOp => ~Taken(op.path) ELSE At("replaying")
    /\ disk' = IF At("replaying") THEN [disk EXCEPT ![op.path] = Nothing] ELSE disk
    /\ op' = NoOp
    /\ Goes("fetch")
    /\ UNCHANGED <<kept, placements, world, record>>

\* Once takes a complete snapshot and allocates the paths.
SnapshotFetched ==
    /\ At("fetch") /\ pass.kind = "once"
    /\ pass' = [pass EXCEPT !.phase = "documents", !.library = server, !.todo = Present(server)]
    /\ UNCHANGED <<files, placements, world, record>>

\* The documents of a snapshot whose revision is no longer the server's, like
\* any request that fails, end the pass before the next file is touched.
Aborts ==
    /\ pass.phase \in {"replay", "replaying", "fetch", "documents", "old", "removing", "dropping"}
    /\ pass' = NoPass
    /\ UNCHANGED <<files, placements, world, record>>

\* writeProjection resolves the target and keeps the edits found there.
Looks(d, target, rev) ==
    LET previous == Previous(d)
    IN  \E p \in Resolved(d, target, previous) :
            /\ IF Taken(p) /\ Dirty(d, previous, disk[p]) THEN Preserves(disk[p]) ELSE UNCHANGED kept
            /\ pass' = [pass EXCEPT !.phase = "old", !.doc = d, !.target = target, !.path = p,
                                    !.rev = rev, !.previous = previous]
            /\ UNCHANGED <<disk, op, placements, world, record>>

\* Mutant of DocumentFetched: a document whose revision has not changed since
\* it was written is passed over.
DocumentFetchedIfChanged(d) ==
    /\ At("documents") /\ d \in pass.todo
    /\ server[d].name # NoName /\ server[d].rev = pass.library[d].rev
    /\ IF Previous(d).rev = server[d].rev
       THEN /\ pass' = [pass EXCEPT !.todo = @ \ {d}]
            /\ UNCHANGED <<files, placements, world, record>>
       ELSE Looks(d, Target(pass.library, d), server[d].rev)

DocumentFetched(d) ==
    /\ At("documents") /\ d \in pass.todo
    /\ server[d].name # NoName /\ server[d].rev = pass.library[d].rev
    /\ Looks(d, Target(pass.library, d), server[d].rev)

\* placementNeedsLocalRepair: the file is not as it was written.
NeedsLocalRepair(d) == disk[db[d].path] # Projection(d, db[d].rev)

\* RefreshProjection writes what has changed on the server, and repairs a file.
ProjectionFetched ==
    LET d == pass.doc
    IN  /\ At("fetch") /\ pass.kind = "refresh"
        /\ db[d] # NoPlacement /\ server[d].name # NoName
        /\ \/ server[d].rev # db[d].rev
           \/ NeedsLocalRepair(d)
        /\ Looks(d, db[d].canonical, server[d].rev)

\* Mutant of LooksAtOld: the old file is moved without a look.
LooksNotAtOld ==
    LET old == pass.previous.path
        moves == pass.previous # NoPlacement /\ old # pass.path /\ Taken(old)
    IN  /\ At("old")
        /\ op' = [doc |-> pass.doc, path |-> pass.path]
        /\ pass' = [pass EXCEPT !.phase = "begun", !.moves = moves]
        /\ UNCHANGED <<disk, kept, placements, world, record>>

\* The file it has so far, when it has to move, is looked at in the same way;
\* then the write is journaled (beginOp).
LooksAtOld ==
    LET old == pass.previous.path
        moves == pass.previous # NoPlacement /\ old # pass.path /\ Taken(old)
    IN  /\ At("old")
        /\ IF moves /\ Dirty(pass.doc, pass.previous, disk[old])
           THEN Preserves(disk[old]) ELSE UNCHANGED kept
        /\ op' = [doc |-> pass.doc, path |-> pass.path]
        /\ pass' = [pass EXCEPT !.phase = "begun", !.moves = moves]
        /\ UNCHANGED <<disk, placements, world, record>>

\* atomicWriteFile renames the new file into place, over whatever is there.
WriteFile ==
    /\ At("begun")
    /\ disk' = [disk EXCEPT ![pass.path] = Projection(pass.doc, pass.rev)]
    /\ Goes("written")
    /\ UNCHANGED <<op, kept, placements, world, record>>

RemoveOld ==
    /\ At("written")
    /\ disk' = IF pass.moves THEN [disk EXCEPT ![pass.previous.path] = Nothing] ELSE disk
    /\ Goes("removed")
    /\ UNCHANGED <<op, kept, placements, world, record>>

Placement == [path |-> pass.path, canonical |-> pass.target, rev |-> pass.rev]

WriteMetadata ==
    /\ At("removed")
    /\ meta' = [meta EXCEPT ![pass.doc] = Placement]
    /\ Goes("recorded")
    /\ UNCHANGED <<files, db, world, record>>

UpsertPlacement ==
    /\ At("recorded")
    /\ db' = [db EXCEPT ![pass.doc] = Placement]
    /\ Goes("placed")
    /\ UNCHANGED <<files, meta, world, record>>

\* The document is done: Once goes on, a refresh ends.
FinishOp ==
    /\ At("placed")
    /\ op' = NoOp
    /\ pass' = IF pass.kind = "refresh" THEN NoPass
               ELSE [NoPass EXCEPT !.kind = "once", !.phase = "documents", !.clean = pass.clean,
                                   !.library = pass.library, !.todo = pass.todo \ {pass.doc}]
    /\ UNCHANGED <<disk, kept, placements, world, record>>

\* A step of the write fails: the operation is closed as failed and the pass
\* ends, unless closing it is what fails; the old file not being removed is
\* passed over.
StepFails ==
    /\ Happens
    /\ pass.phase \in {"begun", "written", "removed", "recorded", "placed"}
    /\ IF At("written") THEN pass.moves /\ pass' = [pass EXCEPT !.phase = "removed", !.clean = FALSE]
                        ELSE pass' = NoPass
    /\ op' = IF pass.phase \in {"written", "placed"} THEN op ELSE NoOp
    /\ excused' = excused \cup {pass.doc} /\ quiet' = 0
    /\ UNCHANGED <<disk, kept, placements, server, made>>

-----------------------------------------------------------------------------
(* removeAbsentPlacements. *)

Absent == {d \in Docs : db[d] # NoPlacement /\ pass.library[d].name = NoName}
Sweeps(d) == At("documents") /\ pass.kind = "once" /\ pass.todo = {} /\ d \in Absent

\* absentPlacementCollidesWithSeen: a document of the snapshot has the path, or
\* asks for it.
Collides(d) == \E s \in Present(pass.library) :
    {db[d].path, db[d].canonical} \cap {db[s].path, db[s].canonical, Target(pass.library, s)} # {}

Drops(d) == /\ db' = [db EXCEPT ![d] = NoPlacement]
            /\ meta' = [meta EXCEPT ![d] = NoPlacement]

\* The collision guard drops the record and leaves the file.
RefusesRemoval(d) ==
    /\ Sweeps(d) /\ Collides(d)
    /\ Drops(d)
    /\ excused' = IF Taken(db[d].path) /\ disk[db[d].path].of = d THEN excused \cup {d} ELSE excused
    /\ UNCHANGED <<files, pass, world, made, quiet>>

ForgetsAbsent(d) ==
    /\ Sweeps(d) /\ ~Collides(d) /\ ~Taken(db[d].path)
    /\ Drops(d)
    /\ UNCHANGED <<files, pass, world, record>>

LooksAtAbsent(d) ==
    /\ Sweeps(d) /\ ~Collides(d) /\ Taken(db[d].path)
    /\ IF Dirty(d, db[d], disk[db[d].path]) THEN Preserves(disk[db[d].path]) ELSE UNCHANGED kept
    /\ pass' = [pass EXCEPT !.phase = "removing", !.doc = d]
    /\ UNCHANGED <<disk, op, placements, world, record>>

\* The file is removed, and then its record.
RemovesAbsent ==
    /\ At("removing")
    /\ disk' = [disk EXCEPT ![db[pass.doc].path] = Nothing]
    /\ pass' = [pass EXCEPT !.phase = "dropping"]
    /\ UNCHANGED <<op, kept, placements, world, record>>

DropsAbsent ==
    /\ At("dropping")
    /\ Drops(pass.doc)
    /\ pass' = [pass EXCEPT !.phase = "documents", !.doc = User]
    /\ UNCHANGED <<files, world, record>>

\* The metadata file stays behind its record, when the process dies in between or
\* its removal fails, which is passed over.
LeavesMetadata(d) ==
    /\ Happens
    /\ \/ Sweeps(d) /\ (Collides(d) \/ ~Taken(db[d].path))
       \/ At("dropping") /\ d = pass.doc
    /\ db' = [db EXCEPT ![d] = NoPlacement]
    /\ pass' \in {NoPass, [pass EXCEPT !.phase = "documents", !.doc = User, !.clean = FALSE]}
    /\ excused' = IF disk[db[d].path].of = d THEN excused \cup {d} ELSE excused
    /\ quiet' = 0
    /\ UNCHANGED <<files, meta, server, made>>

PassEnds ==
    /\ At("documents") /\ pass.todo = {} /\ Absent = {}
    /\ quiet' = IF pass.clean /\ quiet < 2 THEN quiet + 1 ELSE quiet
    /\ pass' = NoPass
    /\ UNCHANGED <<files, placements, world, made, excused>>

-----------------------------------------------------------------------------
(* The user, the server and the process. *)

\* The sync has looked at the file, and has yet to overwrite or remove it.
BeingReplaced(p) ==
    \/ pass.phase \in {"old", "begun"} /\ p = pass.path
    \/ pass.phase \in {"begun", "written"} /\ pass.moves /\ p = pass.previous.path
    \/ At("replaying") /\ p = op.path
    \/ At("removing") /\ p = db[pass.doc].path

\* Not owed to the user: an edit the user throws away, and one made in the
\* moment the sync replaces the file.
Discarded(p) == IF disk[p].of = User THEN {disk[p].rev} ELSE {}

UserEdits(p) ==
    /\ Happens
    /\ p.doc = User \/ Taken(p)
    /\ disk' = [disk EXCEPT ![p] = Edit(events')]
    /\ made' = (made \ Discarded(p)) \cup (IF BeingReplaced(p) THEN {} ELSE {events'})
    /\ Stirs
    /\ UNCHANGED <<op, kept, placements, server, excused>>

UserDeletes(p) ==
    /\ Happens
    /\ Taken(p)
    /\ disk' = [disk EXCEPT ![p] = Nothing]
    /\ made' = made \ Discarded(p)
    /\ Stirs
    /\ UNCHANGED <<op, kept, placements, server, excused>>

\* External: a document is edited, created, renamed or deleted on the server.
LibraryChanges(d) ==
    /\ Happens
    /\ \/ /\ server[d].name # NoName /\ server[d].rev < MaxRev
          /\ server' = [server EXCEPT ![d].rev = @ + 1]
       \/ \E n \in (Names \cup {NoName}) \ {server[d].name} :
              server' = [server EXCEPT ![d].name = n]
    /\ Stirs
    /\ UNCHANGED <<files, placements, made, excused>>

\* The process dies, and the lock with it.
Crash ==
    /\ ~At("idle")
    /\ Happens
    /\ pass' = NoPass /\ quiet' = 0
    /\ UNCHANGED <<files, placements, server, made, excused>>

LSNext ==
    \/ OnceBegins \/ SnapshotFetched \/ PassEnds \/ Aborts
    \/ ReplayReads \/ ReplayRemoves
    \/ ProjectionFetched \/ LooksAtOld \/ WriteFile \/ RemoveOld
    \/ WriteMetadata \/ UpsertPlacement \/ FinishOp \/ StepFails
    \/ RemovesAbsent \/ DropsAbsent
    \/ \E d \in Docs : \/ RefreshBegins(d) \/ DocumentFetched(d) \/ LibraryChanges(d)
                       \/ RefusesRemoval(d) \/ ForgetsAbsent(d) \/ LooksAtAbsent(d)
                       \/ LeavesMetadata(d)
    \/ \E p \in Paths : UserEdits(p) \/ UserDeletes(p)
    \/ Crash

LSSpec == LSInit /\ [][LSNext]_vars

-----------------------------------------------------------------------------
(* Properties. *)

\* The variables have their types, and a write is in the journal from before
\* its file is touched until its placement is recorded.
LSTypeOK ==
    /\ server \in [Docs -> [name : Names \cup {NoName}, rev : 1..MaxRev]]
    /\ disk \in [Paths -> [of : Docs, rev : 1..MaxRev] \cup [of : {User}, rev : 0..MaxEvents]]
    /\ \A d \in Docs : \A m \in {db[d], meta[d]} :
          m = NoPlacement \/ m \in [path : Paths, canonical : Paths, rev : 1..MaxRev]
    /\ op = NoOp \/ op \in [doc : Docs, path : Paths]
    /\ made \cup kept \subseteq 1..MaxEvents /\ excused \subseteq Docs /\ quiet \in 0..2
    /\ pass.phase \in {"begun", "written", "removed", "recorded", "placed"} =>
          op = [doc |-> pass.doc, path |-> pass.path]
    /\ pass.phase \in {"documents", "old", "removing", "dropping"} => op = NoOp

\* The README the sync writes into its root promises that local edits are
\* preserved and then replaced (rootReadmeContent): whatever moves, removals,
\* replays and crashes come together, an edit is in its file or in a recovery,
\* unless the user wrote it in the moment between look and rename.
EditsKept == \A e \in made : e \in kept \/ \E p \in Paths : disk[p] = Edit(e)

\* "The next sync recreates clean projections" (rootReadmeContent), but for the
\* next: after two passes with nothing in between every document of the library
\* has its file, up to date, where its placement says. One is not enough: a
\* document that moves away from a path takes with it the file that another
\* document was given there earlier in the same pass.
Mirrored == \A d \in Present(server) :
    /\ db[d] # NoPlacement
    /\ db[d].canonical = Target(server, d)
    /\ disk[db[d].path] = Projection(d, server[d].rev)
MirroredAfterTwo == quiet = 2 => Mirrored

\* A crash leaves no second projection of a document: when no write is under
\* way, a projection lies where the placement of its document says, but for
\* documents a step has failed for or whose removal was refused.
NoStrayProjection ==
    At("idle") /\ op = NoOp =>
        \A p \in Paths : disk[p].of \in Docs \ excused => db[disk[p].of].path = p

\* The collision guard of removeAbsentPlacements is for an "absent placement's
\* path [that] is now owned by a live document"; the file of a document that is
\* gone from the library, and whose path nobody has, goes with the next pass.
RemovedDocumentsLeave ==
    quiet >= 1 => \A p \in Paths : disk[p].of \in Docs => disk[p].of \in Present(server)
=============================================================================
