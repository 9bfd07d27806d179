---------------------------- MODULE RickLibrary ----------------------------
(***************************************************************************)
(* rick-library-mcp: the tools through which the rick agent retags,        *)
(* relocates and restores albums of the music library.                     *)
(*                                                                         *)
(* A tool is a synchronous function of one process, so calls do not        *)
(* overlap; but a call is a long row of file operations, each of which may *)
(* raise or be the last one before the pod is killed, the agent calls the  *)
(* tools in any order, and importers add albums of their own.              *)
(*                                                                         *)
(* A place is a folder of the library (an artist's name) and an album      *)
(* directory in it; directories hold files with the same few names.  Of a  *)
(* file the model keeps which recording it is and its album_artist; the    *)
(* other tags belong to the recording, since nothing here writes them.     *)
(***************************************************************************)
EXTENDS Integers, FiniteSets, Sequences

CONSTANTS
    Names,         \* artist names, which are also names of folders
    Recordings,    \* the audio itself
    NumBases,      \* album directories are named 1..NumBases, in sort order
    NumFiles,      \* files are named 1..NumFiles, in sort order
    Absent,        \* there is no such file
    Torn,          \* a file whose writing was cut short
    NoName, NoMbid,
    Similar,       \* the pairs of names that _related() accepts
    Compilations,  \* the names that _is_va() accepts
    SafeArtist,    \* the folder of a name: "/" and outer dots are replaced
    ArtistTag, ArtistId, AlbumArtistId,  \* the tags of a recording
    MbidOfName, NameOfMbid,              \* what MusicBrainz finds
    Shipped,       \* the album_artist a recording came with
    ReadOnly,      \* recordings whose file the server may not write
    FolderScanCap, \* _FOLDER_SCAN_CAP
    Requested,     \* the names the agent passes on request, NoName for none
    MayFail,       \* names and ids of which the first lookup may fail
    Stocked,       \* the places of the albums at the start
    Incoming,      \* the albums still to be imported, each with a place
    ReusesPlaces,  \* may an importer use a place an album was moved from?
    MaxManual,     \* bound: changes before the agent is left alone
    MaxChanges     \* bound: changes in all

Bases == 1..NumBases
Files == 1..NumFiles
Folders == {SafeArtist[n] : n \in Names}
Places == Folders \X Bases
File(r) == [recording |-> r, albumArtist |-> Shipped[r]]
Versions == [recording : Recordings, albumArtist : Names \cup {NoName}]
Contents == Versions \cup {Torn, Absent}
Empty == [f \in Files |-> Absent]
Changes == 1..MaxChanges

(* The directory of an album as its importer leaves it.                    *)
Delivered(album) ==
    [f \in Files |-> IF album[f] = Absent THEN Absent ELSE File(album[f])]

(* The files of a library, each with its place and name.                   *)
Listing(l) ==
    {[place |-> pf[1], file |-> pf[2], content |-> l[pf[1]][pf[2]]] :
        pf \in {x \in Places \X Files : l[x[1]][x[2]] # Absent}}

ASSUME ConstantsAssumption ==
    /\ NumBases \in Nat /\ NumFiles \in Nat /\ FolderScanCap \in Nat \ {0}
    /\ MaxManual \in Nat /\ MaxChanges \in Nat /\ MaxManual <= MaxChanges
    /\ Absent \notin Versions /\ Torn \notin Versions /\ Absent # Torn
    /\ NoName \notin Names
    /\ SafeArtist \in [Names -> Names]
    /\ Shipped \in [Recordings -> Names \cup {NoName}]
    /\ ArtistTag \in [Recordings -> Names \cup {NoName}]
    /\ Requested \subseteq Names \cup {NoName}
    /\ \A m \in DOMAIN NameOfMbid : NameOfMbid[m] \in Names
    /\ \A p \in DOMAIN Stocked :
          p \in Places /\ Stocked[p] \in [Files -> Recordings \cup {Absent}]
    /\ Incoming \subseteq [place : Places, album : [Files -> Recordings \cup {Absent}]]
    /\ ReusesPlaces \in BOOLEAN

VARIABLES
    lib,       \* what is at a place, per file name
    backups,   \* BACKUP_ROOT/<change_id>, per file name
    ledger,    \* ledger.jsonl: the entries (revert finds them by change_id)
    next,      \* the next change_id
    call,      \* the tool call that is running
    failed,    \* names and ids whose first lookup failed (cached for good)
    alone,     \* from now on only the unattended sweep calls the tools
    \* History, for the properties only:
    owned,     \* what importers put where
    orderly    \* no change was cut short, reverts went from last to first

vars == <<lib, backups, ledger, next, call, failed, alone, owned, orderly>>

Idle == [op |-> "idle"]
Ops == {"set_album_artist", "relocate", "revert"}

----------------------------------------------------------------------------
(* The library as the tools read it                                        *)

IsDir(d) == d # Empty
AudioFiles(d) == {f \in Files : d[f] # Absent}
Readable(d) == {f \in Files : d[f] \notin {Absent, Torn}}

(* The most common id; of equally common ones the one that comes first.    *)
Dominant(ids) ==
    LET known == {i \in DOMAIN ids : ids[i] # NoMbid}
        Votes(i) == Cardinality({j \in known : ids[j] = ids[i]})
        Wins(i) == \A j \in known :
                      \/ Votes(i) > Votes(j)
                      \/ Votes(i) = Votes(j) /\ i <= j
    IN  IF known = {} THEN NoMbid ELSE ids[CHOOSE i \in known : Wins(i)]

(* The dominant value of an id tag over the tracks of an album.            *)
TagOf(d, tag) ==
    Dominant([f \in Files |-> IF f \in Readable(d) THEN tag[d[f].recording] ELSE NoMbid])

AlbumIdentity(d) ==
    IF TagOf(d, ArtistId) # NoMbid THEN TagOf(d, ArtistId) ELSE TagOf(d, AlbumArtistId)

(* The dominant one of the first FolderScanCap ids that are known.         *)
DominantOfFirst(ids) ==
    LET known == SelectSeq(ids, LAMBDA m : m # NoMbid)
    IN  Dominant(SubSeq(known, 1, IF Len(known) < FolderScanCap
                                  THEN Len(known) ELSE FolderScanCap))

(* _folder_mbid: the identity of the album's siblings.                     *)
FolderIdentity(p) ==
    DominantOfFirst([b \in Bases |->
        IF b = p[2] THEN NoMbid ELSE AlbumIdentity(lib[<<p[1], b>>])])

LookupName(n) == IF n \in DOMAIN MbidOfName \ failed THEN MbidOfName[n] ELSE NoMbid
LookupMbid(m) == IF m \in DOMAIN NameOfMbid \ failed THEN NameOfMbid[m] ELSE NoName

(* Mutant: names are compared as they are spelt.                           *)
SpeltAlike(a, b) == a # NoName /\ a = b

Related(a, b) == a # NoName /\ (a = b \/ <<a, b>> \in Similar)
Only(S) == IF Cardinality(S) = 1 THEN CHOOSE n \in S : TRUE ELSE NoName

(* The distinct values of the two text tags.                               *)
ArtistTags(d) == {ArtistTag[d[f].recording] : f \in Readable(d)} \ {NoName}
AlbumArtistTags(d) == {d[f].albumArtist : f \in Readable(d)} \ {NoName}

(* The name of the artist of an album: by id, else by the ARTIST tag.      *)
ArtistName(m, d) ==
    IF LookupMbid(m) # NoName THEN LookupMbid(m) ELSE Only(ArtistTags(d))

Leave == [action |-> "leave", target |-> NoName]
Retag(n) == [action |-> "retag", target |-> n]
MoveTo(n) == [action |-> "relocate", target |-> n]

(* _assess: retag and relocate are the verdicts of HIGH confidence.        *)
Assess(p) ==
    LET folder == p[1]
        d == lib[p]
        aa == Only(AlbumArtistTags(d))
        content == AlbumIdentity(d)
        siblings == FolderIdentity(p)
        owner == IF siblings # NoMbid THEN siblings ELSE LookupName(folder)
        target == ArtistName(content, d)
        byText == /\ ArtistTags(d) # {}
                  /\ \A a \in ArtistTags(d) : Related(a, folder)
                  /\ aa # NoName
                  /\ ~Related(aa, folder)
    IN  CASE folder \in Compilations \/ aa \in Compilations -> Leave
          [] owner # NoMbid /\ content = owner ->
                IF Related(aa, folder) THEN Leave ELSE Retag(folder)
          [] owner # NoMbid /\ content \notin {owner, NoMbid} ->
                IF target # NoName /\ ~Related(target, folder)
                THEN MoveTo(target) ELSE Leave
          [] OTHER -> IF byText THEN Retag(folder) ELSE Leave

Writable(d) == \A f \in Readable(d) : d[f].recording \notin ReadOnly

Recommended(given, a) == IF given # NoName THEN given ELSE a

----------------------------------------------------------------------------
(* apply: per file a backup and a new tag, then the ledger                 *)

(* What apply() writes for an assessment, and when it takes none of its    *)
(* early returns.                                                          *)
ApplyTarget(assessed, given) ==
    Recommended(given, IF assessed.action = "retag" THEN assessed.target ELSE NoName)

MayApply(p, assessed, given, confirmed) ==
    LET target == ApplyTarget(assessed, given)
    IN  /\ target # NoName
        /\ p[1] \in Compilations \/ AlbumArtistTags(lib[p]) # {target}
        /\ assessed.action # "leave" \/ confirmed
        /\ Writable(lib[p])

ApplyStart(p, assessed, given, confirmed) ==
    /\ MayApply(p, assessed, given, confirmed)
    /\ call' = [op |-> "set_album_artist", path |-> p, new |-> p,
                target |-> ApplyTarget(assessed, given), change |-> next,
                files |-> AudioFiles(lib[p]), stage |-> "copy"]

(* relocate: backups of all files, the move, new tags as far as possible,  *)
(* then the ledger.  A directory already under the target artist is a      *)
(* target that exists.                                                     *)
NewPlace(p, artist) == <<SafeArtist[artist], p[2]>>

MayRelocate(p, assessed, given, confirmed) ==
    LET target == Recommended(given, assessed.target)
    IN  /\ target # NoName
        /\ assessed.action = "relocate" \/ confirmed
        /\ ~IsDir(lib[NewPlace(p, target)])
        /\ Writable(lib[p])

RelocateStart(p, assessed, given, confirmed) ==
    /\ MayRelocate(p, assessed, given, confirmed)
    /\ LET target == Recommended(given, assessed.target)
       IN  call' = [op |-> "relocate", path |-> p, new |-> NewPlace(p, target),
                    target |-> target, change |-> next,
                    files |-> AudioFiles(lib[p]), stage |-> "copy"]

(* A call of one of the two on an album; both begin with an assessment.    *)
Begin(p, given, confirmed) ==
    /\ call = Idle
    /\ IsDir(lib[p])
    /\ \E assessed \in {Assess(p)}, g \in given, c \in confirmed :
          ApplyStart(p, assessed, g, c) \/ RelocateStart(p, assessed, g, c)
    /\ next' = next + 1
    /\ UNCHANGED <<lib, backups, ledger, failed, alone, owned, orderly>>

(* The loops go through the files in sort order.                           *)
First == CHOOSE f \in call.files : \A g \in call.files : f <= g
Rest == call.files \ {First}

SetFile(p, f, c) == lib' = [lib EXCEPT ![p][f] = c]
(* Mutant: one backup directory for all changes.                           *)
SetBackupShared(c) == backups' = [backups EXCEPT ![1][First] = c]

SetBackup(c) == backups' = [backups EXCEPT ![call.change][First] = c]

Copy ==
    /\ call # Idle /\ call.stage = "copy" /\ call.files # {}
    /\ SetBackup(lib[call.path][First])
    /\ call' = IF call.op = "set_album_artist"
               THEN [call EXCEPT !.stage = "write"]
               ELSE [call EXCEPT !.files = Rest]
    /\ UNCHANGED <<lib, ledger, next, failed, alone, owned, orderly>>

Move ==
    /\ call # Idle /\ call.op = "relocate" /\ call.stage = "copy" /\ call.files = {}
    /\ lib' = [lib EXCEPT ![call.new] = lib[call.path], ![call.path] = Empty]
    /\ call' = [call EXCEPT !.stage = "write", !.files = AudioFiles(lib[call.path])]
    /\ UNCHANGED <<backups, ledger, next, failed, alone, owned, orderly>>

(* Mutant: only files without the tag get it.                              *)
TaggedIfMissing(c, n) == IF c.albumArtist = NoName THEN [c EXCEPT !.albumArtist = n] ELSE c

Tagged(c, n) == [c EXCEPT !.albumArtist = n]
AfterWrite ==
    IF call.op = "relocate" THEN [call EXCEPT !.files = Rest]
    ELSE [call EXCEPT !.files = Rest, !.stage = "copy"]

(* _write_album_artist: for apply the file is at path = new.               *)
Write ==
    /\ call # Idle /\ call.stage = "write" /\ call.files # {}
    /\ lib[call.new][First] # Torn
    /\ SetFile(call.new, First, Tagged(lib[call.new][First], call.target))
    /\ call' = AfterWrite
    /\ UNCHANGED <<backups, ledger, next, failed, alone, owned, orderly>>

Entry == [change |-> call.change, op |-> call.op, path |-> call.path, new |-> call.new]

(* The file operations of the call are done.                               *)
Ending ==
    /\ call # Idle /\ call.files = {}
    /\ \/ call.op = "set_album_artist" /\ call.stage = "copy"
       \/ call.op = "relocate" /\ call.stage = "write"
       \/ call.op = "revert" /\ call.stage = "restore"

(* The last step of every tool: one more line of the ledger.               *)
Record ==
    /\ Ending
    /\ ledger' = ledger \cup {Entry}
    /\ call' = Idle
    /\ UNCHANGED <<lib, backups, next, failed, alone, owned, orderly>>

----------------------------------------------------------------------------
(* revert: the move back, the backups, then the ledger                     *)

Live(c) == /\ \E e \in ledger : e.change = c /\ e.op # "revert"
           /\ ~\E e \in ledger : e.change = c /\ e.op = "revert"

(* Is it the turn of change c when changes are reverted from the last to   *)
(* the first?  The one reverted last may be reverted again.                *)
FromTheLast(c) ==
    /\ \A d \in Changes : d > c => ~Live(d)
    /\ Live(c) \/ \A e \in ledger : e.change < c => Live(e.change)

(* Mutant: a relocated album is moved back, its files are not restored.    *)
RevertStartMoveOnly(e) ==
    /\ call = Idle
    /\ e.op # "revert"
    /\ call' = [op |-> "revert", path |-> e.path, new |-> e.new,
                target |-> NoName, change |-> e.change,
                files |-> IF e.op = "relocate" THEN {}
                          ELSE {f \in Files : backups[e.change][f] # Absent},
                stage |-> IF e.op = "relocate" THEN "moveBack" ELSE "restore"]
    /\ orderly' = (orderly /\ FromTheLast(e.change))
    /\ UNCHANGED <<lib, backups, ledger, next, failed, alone, owned>>

RevertStart(e) ==
    /\ call = Idle
    /\ e.op # "revert"
    /\ call' = [op |-> "revert", path |-> e.path, new |-> e.new,
                target |-> NoName, change |-> e.change,
                files |-> {f \in Files : backups[e.change][f] # Absent},
                stage |-> IF e.op = "relocate" THEN "moveBack" ELSE "restore"]
    /\ orderly' = (orderly /\ FromTheLast(e.change))
    /\ UNCHANGED <<lib, backups, ledger, next, failed, alone, owned>>

MoveBack ==
    /\ call # Idle /\ call.stage = "moveBack"
    /\ lib' = IF IsDir(lib[call.new]) /\ ~IsDir(lib[call.path])
              THEN [lib EXCEPT ![call.path] = lib[call.new], ![call.new] = Empty]
              ELSE lib
    /\ call' = [call EXCEPT !.stage = "restore"]
    /\ UNCHANGED <<backups, ledger, next, failed, alone, owned, orderly>>

(* After a move back only files that are there are overwritten; the revert *)
(* of a retag copies all, and raises when the directory is gone.           *)
OfRelocation == call.new # call.path
Restorable == IF OfRelocation THEN lib[call.path][First] # Absent ELSE IsDir(lib[call.path])

Restore ==
    /\ call # Idle /\ call.stage = "restore" /\ call.files # {}
    /\ OfRelocation \/ Restorable
    /\ IF Restorable THEN SetFile(call.path, First, backups[call.change][First])
                     ELSE lib' = lib
    /\ call' = [call EXCEPT !.files = Rest]
    /\ UNCHANGED <<backups, ledger, next, failed, alone, owned, orderly>>

----------------------------------------------------------------------------
(* What goes wrong                                                         *)

(* Has the running call changed nothing that only its ledger entry would   *)
(* tell how to undo?                                                       *)
Untouched ==
    \/ call.op = "revert"
    \/ call.op = "relocate" /\ call.stage = "copy"
    \/ call.op = "set_album_artist" /\ call.files = AudioFiles(lib[call.path])

CutShort(harmless) ==
    /\ call' = Idle
    /\ orderly' = (orderly /\ harmless)
    /\ UNCHANGED <<ledger, next, failed, alone, owned>>

(* An operation raises: a backup on a full volume, a file mutagen cannot   *)
(* read or save, a copy into a directory that is gone, the ledger itself.  *)
Raises ==
    /\ call # Idle /\ ~alone
    /\ CutShort(Untouched)
    /\ UNCHANGED <<lib, backups>>

(* The tag of a relocated file could not be written: relocate goes on.     *)
WriteSwallowed ==
    /\ call # Idle /\ call.op = "relocate" /\ call.stage = "write" /\ call.files # {}
    /\ ~alone \/ lib[call.new][First] = Torn
    /\ call' = AfterWrite
    /\ UNCHANGED <<lib, backups, ledger, next, failed, alone, owned, orderly>>

(* apply raises on a file that mutagen cannot read, revert of a retag on a *)
(* directory that is gone.                                                 *)
MustRaise ==
    /\ call # Idle /\ call.files # {}
    /\ \/ call.op = "set_album_artist" /\ call.stage = "write" /\ lib[call.path][First] = Torn
       \/ call.stage = "restore" /\ ~OfRelocation /\ ~Restorable
    /\ CutShort(Untouched)
    /\ UNCHANGED <<lib, backups>>

(* The pod is killed in the middle of writing a file.                      *)
KilledInWrite ==
    /\ call # Idle /\ ~alone /\ call.files # {}
    /\ \/ /\ call.stage = "copy"
          /\ SetBackup(Torn) /\ UNCHANGED lib
          /\ CutShort(Untouched)
       \/ /\ call.stage = "write"
          /\ SetFile(call.new, First, Torn) /\ UNCHANGED backups
          /\ CutShort(FALSE)
       \/ /\ call.stage = "restore" /\ Restorable
          /\ SetFile(call.path, First, Torn) /\ UNCHANGED backups
          /\ CutShort(Live(call.change))

----------------------------------------------------------------------------
(* The library's other users, and the agent                                *)

(* Places that the ledger names.                                           *)
Handled == {e.path : e \in ledger} \cup {e.new : e \in ledger}

Import(p, album) ==
    /\ ~alone
    /\ \A t \in owned, f \in Files : t.content.recording # album[f]
    /\ ~IsDir(lib[p])
    /\ call # Idle => p \notin {call.path, call.new}
    /\ ReusesPlaces \/ p \notin Handled
    /\ lib' = [lib EXCEPT ![p] = Delivered(album)]
    /\ owned' = owned \cup {t \in Listing(lib') : t.place = p}
    /\ UNCHANGED <<backups, ledger, next, call, failed, alone, orderly>>

LeaveAlone ==
    /\ ~alone /\ call = Idle
    /\ alone' = TRUE
    /\ UNCHANGED <<lib, backups, ledger, next, call, failed, owned, orderly>>

(* Calls on request, with whatever name the agent passes, until it is left *)
(* alone; the sweep passes none and confirms nothing.                      *)
OnRequest ==
    /\ ~alone
    /\ \/ /\ next <= MaxManual
          /\ \E p \in Places : Begin(p, Requested, BOOLEAN)
       \/ \E e \in ledger : RevertStart(e)

Sweep ==
    /\ next <= MaxChanges
    /\ \E p \in Places : Begin(p, {NoName}, {FALSE})

Steps == Copy \/ Move \/ Write \/ Record \/ MoveBack \/ Restore \/ WriteSwallowed \/ MustRaise

Init ==
    /\ lib = [p \in Places |-> IF p \in DOMAIN Stocked THEN Delivered(Stocked[p]) ELSE Empty]
    /\ backups = [c \in Changes |-> Empty]
    /\ ledger = {} /\ next = 1 /\ call = Idle
    /\ failed \in SUBSET MayFail
    /\ alone = FALSE
    /\ owned = Listing(lib)
    /\ orderly = TRUE

Next ==
    \/ OnRequest \/ (alone /\ Sweep) \/ Steps
    \/ Raises \/ KilledInWrite
    \/ \E i \in Incoming : Import(i.place, i.album)
    \/ LeaveAlone

(* A call that is running goes on; the weekly sweep comes back to every    *)
(* album, so while the agent is alone it cannot for ever find something to *)
(* do and not do it.  The second conjunct is WF_vars(alone /\ Sweep) with  *)
(* the ENABLED predicate written out.                                      *)
Settled ==
    \A p \in Places : IsDir(lib[p]) =>
        LET assessed == Assess(p)
        IN  ~MayApply(p, assessed, NoName, FALSE) /\ ~MayRelocate(p, assessed, NoName, FALSE)
SweepIdle == ~alone \/ next > MaxChanges \/ call # Idle \/ Settled
Fairness == WF_vars(Steps) /\ ([]<>SweepIdle \/ []<><<alone /\ Sweep>>_vars)

Spec == Init /\ [][Next]_vars /\ Fairness

----------------------------------------------------------------------------
(* Properties                                                              *)

Calls == [op : Ops, path : Places, new : Places,
          target : Names \cup {NoName}, change : Changes, files : SUBSET Files,
          stage : {"copy", "write", "moveBack", "restore"}]

(* Every variable has its type; in particular no change_id is handed out   *)
(* twice and a running call names a change that has one.                   *)
TypeOK ==
    /\ lib \in [Places -> [Files -> Contents]]
    /\ backups \in [Changes -> [Files -> Contents]]
    /\ ledger \subseteq [change : Changes, op : Ops, path : Places, new : Places]
    /\ next \in 1..(MaxChanges + 1)
    /\ call \in Calls \cup {Idle}
    /\ call # Idle => call.change < next
    /\ \A e \in ledger : e.change < next
    /\ failed \subseteq MayFail
    /\ alone \in BOOLEAN /\ orderly \in BOOLEAN
    /\ owned \subseteq [place : Places, file : Files, content : Versions]

Kept == {lib[p][f] : p \in Places, f \in Files}
            \cup {backups[c][f] : c \in Changes, f \in Files}

(* "Backed up first" and "never a delete": what an importer delivered is,  *)
(* byte for byte, in the library or in a backup, at every moment, whatever *)
(* call is running, was killed or raised, and in whatever order changes    *)
(* are reverted.                                                           *)
NothingLost == \A t \in owned : t.content \in Kept

(* "Fully revertible": when every recorded change has been reverted, from  *)
(* the last to the first, the library is what its importers made it, also  *)
(* if reverts raised or were killed half-way and were called again.        *)
FullyRevertible ==
    call = Idle /\ orderly /\ (\A c \in Changes : ~Live(c)) => Listing(lib) = owned

(* A change of the unattended sweep settles its album: when it is about to *)
(* be recorded, the next assessment of the album, in the folder and among  *)
(* the siblings it then has, leaves it alone.  So it also is when the      *)
(* lookup of the artist failed and the ARTIST tag gave the target, when    *)
(* the folder is not spelt like the artist it is named for, and when the   *)
(* albums already in the target folder say that it is somebody else's.     *)
ChangeSettles ==
    alone /\ Ending /\ call.op # "revert" => Assess(call.new) = Leave

(* The unattended sweep comes to rest: once nothing else happens and no    *)
(* file is torn, there comes a time after which no album is retagged or    *)
(* moved any more; it does not move albums back and forth.                 *)
SweepSettles ==
    alone /\ (\A p \in Places : Torn \notin {lib[p][f] : f \in Files})
        ~> [](call = Idle /\ Settled)
=============================================================================
