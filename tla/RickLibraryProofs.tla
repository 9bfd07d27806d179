------------------------- MODULE RickLibraryProofs -------------------------
(***************************************************************************)
(* NothingLost for every library: whatever is retagged, relocated and      *)
(* reverted, in whatever order and cut short wherever, the files that      *)
(* importers delivered survive, provided no importer puts an album where   *)
(* a changed one was.  Under the same condition FullyRevertible: an        *)
(* orderly series of reverts, repeated and cut short though they may be,   *)
(* ends where the importers began; and ChangeSettles: what the unattended  *)
(* sweep has changed it does not find to be changed again right away.      *)
(***************************************************************************)
EXTENDS RickLibrary, TLAPS, WellFoundedInduction, FiniteSetTheorems

(* The recordings of which a backup holds the file as it was delivered.    *)
InBackup(r) == \E c \in Changes, f \in Files : backups[c][f] = File(r)

(* The named files of a place are covered by backups (or there is nothing  *)
(* left in them to lose).                                                  *)
SafeAt(p, S) == \A f \in S : lib[p][f] \in Versions => InBackup(lib[p][f].recording)

(* A file that differs from what was delivered has been backed up.         *)
ChangedIsSafe ==
    \A p \in Places, f \in Files :
        lib[p][f] \in Versions =>
            InBackup(lib[p][f].recording) \/ lib[p][f] = File(lib[p][f].recording)

(* What was delivered is in a backup or still where the library has it.   *)
OwnedIsSafe ==
    \A t \in owned :
        /\ t.content = File(t.content.recording)
        /\ \/ InBackup(t.content.recording)
           \/ \E p \in Places, f \in Files : lib[p][f] = t.content

(* What the ledger names may be overwritten.                               *)
HandledIsSafe == \A p \in Handled : SafeAt(p, Files)

(* A backup may hold a file that had been changed before, but then another *)
(* one holds the file as it was delivered.                                 *)
BackupsAreSafe ==
    \A c \in Changes, f \in Files :
        backups[c][f] \in Versions => InBackup(backups[c][f].recording)

(* A backup is written once.                                               *)
FreshBackups ==
    /\ \A c \in Changes : c >= next => backups[c] = Empty
    /\ call # Idle /\ call.op # "revert" =>
          \A f \in call.files : (call.stage = "copy" \/ (call.op = "set_album_artist" /\ f # First))
                                => backups[call.change][f] = Absent

(* A call works on files that are there.                                   *)
FilesAreThere ==
    call # Idle /\ call.op # "revert" =>
        \A f \in call.files :
            lib[IF call.stage = "copy" THEN call.path ELSE call.new][f] # Absent

(* How far a running call has got with its backups.                        *)
CallIsSafe ==
    call # Idle =>
        /\ call.op = "set_album_artist" =>
              /\ call.new = call.path /\ call.stage \in {"copy", "write"}
              /\ SafeAt(call.path, Files \ call.files)
              /\ call.stage = "write" /\ call.files # {} => SafeAt(call.path, {First})
        /\ call.op = "relocate" =>
              /\ call.stage \in {"copy", "write"} /\ call.new # call.path
              /\ call.stage = "copy" =>
                    lib[call.new] = Empty /\ SafeAt(call.path, Files \ call.files)
              /\ call.stage = "write" => SafeAt(call.new, Files) /\ lib[call.path] = Empty
        /\ call.op = "revert" =>
              call.stage \in {"moveBack", "restore"} /\ {call.path, call.new} \subseteq Handled

(* The inductive invariant.                                                *)
Inv == /\ TypeOK
       /\ ChangedIsSafe
       /\ OwnedIsSafe
       /\ HandledIsSafe
       /\ BackupsAreSafe
       /\ FreshBackups
       /\ FilesAreThere
       /\ CallIsSafe

----------------------------------------------------------------------------
(* A set of numbers has a least one.                                       *)
LEMMA LeastNumber ==
    ASSUME NEW S \in SUBSET Nat, S # {}
    PROVE  \E m \in S : \A k \in S : m <= k
<1>1. ASSUME NEW R, IsWellFoundedOn(R, Nat),
             \A k, m \in Nat : k < m => <<k, m>> \in R
      PROVE  \E m \in S : \A k \in S : m <= k
  <2>1. S \subseteq Nat /\ S # {} /\ IsWellFoundedOn(R, Nat)
    BY <1>1
  <2>2. PICK m \in S : \A k \in S : ~(<<k, m>> \in R)
    BY <2>1, WFMin, Zenon
  <2>3. ASSUME NEW k \in S PROVE m <= k
    <3>1. k \in Nat /\ m \in Nat /\ ~(k < m)
      BY <1>1, <2>1, <2>2, Zenon
    <3>. QED
      BY <3>1
  <2>. QED
    BY <2>3
<1>2. \A k, m \in Nat : k < m => <<k, m>> \in OpToRel(<, Nat)
  BY DEF OpToRel
<1>. QED
  BY <1>1, <1>2, NatLessThanWellFounded, Zenon

(* The files of a loop have a first one.                                   *)
LEMMA FirstIsOne ==
    ASSUME call # Idle, TypeOK, call.files # {}
    PROVE  First \in call.files /\ First \in Files
<1>1. call.files \subseteq Files /\ call.files \subseteq Nat
  BY DEF TypeOK, Calls, Files
<1>2. PICK m \in call.files : \A k \in call.files : m <= k
  BY <1>1, LeastNumber
<1>. QED
  BY <1>1, <1>2 DEF First

(* A delivered file is a version, different from the two marks.            *)
LEMMA Delivery ==
    ASSUME NEW r \in Recordings
    PROVE  File(r) \in Versions /\ File(r) # Absent /\ File(r) # Torn /\ File(r).recording = r
  BY ConstantsAssumption DEF File, Versions

(* As long as no backup is overwritten, what was backed up remains so.     *)
LEMMA BackupsStay ==
    ASSUME \A c \in Changes, f \in Files :
              backups[c][f] # Absent => backups'[c][f] = backups[c][f],
           NEW r \in Recordings, InBackup(r)
    PROVE  InBackup(r)'
  BY Delivery DEF InBackup

(* What the tools are asked to write is an artist's name.                  *)
LEMMA TargetIsName ==
    ASSUME NEW p \in Places, TypeOK
    PROVE  Assess(p).target \in Names \cup {NoName}
<1>1. p[1] \in Names
  BY ConstantsAssumption DEF Places, Folders
<1>2. \A m : LookupMbid(m) \in Names \cup {NoName}
  BY ConstantsAssumption DEF LookupMbid
<1>3. ArtistTags(lib[p]) \subseteq Names
  <2>1. \A f \in Readable(lib[p]) : lib[p][f] \in Versions
    BY DEF TypeOK, Readable, Contents
  <2>. QED
    BY <2>1, ConstantsAssumption DEF ArtistTags, Versions
<1>4. ASSUME NEW S \in SUBSET Names PROVE Only(S) \in Names \cup {NoName}
  <2>1. CASE S = {}
    BY <2>1, FS_EmptySet DEF Only
  <2>2. CASE S # {}
    BY <2>2 DEF Only
  <2>. QED
    BY <2>1, <2>2
<1>5. \A m : ArtistName(m, lib[p]) \in Names \cup {NoName}
  BY <1>2, <1>3, <1>4 DEF ArtistName
<1>6. Leave.target = NoName /\ Retag(p[1]).target \in Names
  BY <1>1 DEF Leave, Retag
<1>7. \A n \in Names \cup {NoName} : MoveTo(n).target \in Names \cup {NoName}
  BY DEF MoveTo
<1>. QED
  BY <1>5, <1>6, <1>7 DEF Assess

----------------------------------------------------------------------------
(* A step that changes neither files, backups nor the ledger keeps what    *)
(* Inv says of them.                                                       *)
LEMMA FilesKept ==
    ASSUME Inv, UNCHANGED <<lib, backups, ledger, owned>>
    PROVE  ChangedIsSafe' /\ OwnedIsSafe' /\ HandledIsSafe' /\ BackupsAreSafe'
<1>1. ChangedIsSafe' /\ BackupsAreSafe'
  BY DEF Inv, ChangedIsSafe, BackupsAreSafe, InBackup
<1>2. OwnedIsSafe'
  BY DEF Inv, OwnedIsSafe, InBackup
<1>3. HandledIsSafe'
  BY DEF Inv, HandledIsSafe, Handled, SafeAt, InBackup
<1>. QED
  BY <1>1, <1>2, <1>3

(* A call of apply or relocate has only read so far; its backups are to    *)
(* be written under an id of their own.                                    *)
LEMMA BeginKeeps ==
    ASSUME Inv, NEW p \in Places, NEW given \in SUBSET (Names \cup {NoName}),
           NEW confirmed, next \in Changes, Begin(p, given, confirmed)
    PROVE  Inv'
<1>1. PICK g \in given, c \in confirmed :
         ApplyStart(p, Assess(p), g, c) \/ RelocateStart(p, Assess(p), g, c)
  BY DEF Begin
<1>. DEFINE a == Assess(p)
<1>2. a.target \in Names \cup {NoName}
  BY TargetIsName DEF Inv
<1>. HIDE DEF a
<1>3. next' = next + 1 /\ UNCHANGED <<lib, backups, ledger, failed, alone, owned, orderly>>
  BY DEF Begin
<1>4. AudioFiles(lib[p]) \in SUBSET Files /\ SafeAt(p, Files \ AudioFiles(lib[p]))
      /\ \A f \in AudioFiles(lib[p]) : lib[p][f] # Absent
  BY ConstantsAssumption DEF AudioFiles, SafeAt
<1>5. \A f \in Files : backups[next][f] = Absent
  BY DEF Inv, FreshBackups, Empty, TypeOK, Changes
<1>6. CASE ApplyStart(p, a, g, c)
  <2>. DEFINE n == ApplyTarget(a, g)
  <2>1. n \in Names \cup {NoName}
    BY <1>2 DEF ApplyTarget, Recommended
  <2>. HIDE DEF n
  <2>2. call' = [op |-> "set_album_artist", path |-> p, new |-> p, target |-> n,
                 change |-> next, files |-> AudioFiles(lib[p]), stage |-> "copy"]
    BY <1>6 DEF ApplyStart, n
  <2>3. TypeOK'
    BY <1>3, <1>4, <2>1, <2>2, ConstantsAssumption DEF Inv, TypeOK, Calls, Ops, Changes
  <2>4. FreshBackups'
    BY <1>3, <1>5, <1>4, <2>2 DEF Inv, FreshBackups, TypeOK, Changes
  <2>5. FilesAreThere'
    BY <1>3, <1>4, <2>2 DEF FilesAreThere
  <2>6. CallIsSafe'
    BY <1>3, <1>4, <2>2 DEF CallIsSafe, SafeAt, InBackup
  <2>. QED
    BY <1>3, <2>3, <2>4, <2>5, <2>6, FilesKept DEF Inv
<1>7. CASE RelocateStart(p, a, g, c)
  <2>. DEFINE n == Recommended(g, a.target)
              to == NewPlace(p, n)
  <2>1. n \in Names /\ ~IsDir(lib[to]) /\ IsDir(lib[p])
    BY <1>2, <1>7 DEF RelocateStart, MayRelocate, Recommended, Begin
  <2>2. to \in Places
    BY <2>1, ConstantsAssumption DEF NewPlace, Places, Folders
  <2>3. call' = [op |-> "relocate", path |-> p, new |-> to, target |-> n,
                 change |-> next, files |-> AudioFiles(lib[p]), stage |-> "copy"]
    BY <1>7 DEF RelocateStart
  <2>. HIDE DEF n, to
  <2>4. TypeOK'
    BY <1>3, <1>4, <2>1, <2>2, <2>3, ConstantsAssumption DEF Inv, TypeOK, Calls, Ops, Changes
  <2>5. FreshBackups'
    BY <1>3, <1>5, <1>4, <2>3 DEF Inv, FreshBackups, TypeOK, Changes
  <2>6. FilesAreThere'
    BY <1>3, <1>4, <2>3 DEF FilesAreThere
  <2>7. CallIsSafe'
    BY <1>3, <1>4, <2>1, <2>3 DEF CallIsSafe, SafeAt, InBackup, IsDir
  <2>. QED
    BY <1>3, <2>4, <2>5, <2>6, <2>7, FilesKept DEF Inv
<1>. QED
  BY <1>1, <1>6, <1>7 DEF a

(* A revert works on places that the ledger names, which are covered.      *)
LEMMA RevertStartKeeps ==
    ASSUME Inv, NEW e \in ledger, RevertStart(e)
    PROVE  Inv'
<1>. DEFINE fs == {f \in Files : backups[e.change][f] # Absent}
            st == IF e.op = "relocate" THEN "moveBack" ELSE "restore"
<1>1. UNCHANGED <<lib, backups, ledger, next, failed, alone, owned>> /\ orderly' \in BOOLEAN
  BY DEF RevertStart, Inv, TypeOK
<1>2. call' = [op |-> "revert", path |-> e.path, new |-> e.new, target |-> NoName,
               change |-> e.change, files |-> fs, stage |-> st]
  BY DEF RevertStart
<1>3. fs \in SUBSET Files /\ st \in {"moveBack", "restore"}
  OBVIOUS
<1>4. {e.path, e.new} \subseteq Handled
  BY DEF Handled
<1>. HIDE DEF fs, st
<1>5. TypeOK'
  BY <1>1, <1>2, <1>3 DEF Inv, TypeOK, Calls, Ops
<1>6. FreshBackups' /\ FilesAreThere'
  BY <1>1, <1>2 DEF Inv, FreshBackups, FilesAreThere
<1>7. CallIsSafe'
  BY <1>1, <1>2, <1>3, <1>4 DEF CallIsSafe, Handled
<1>. QED
  BY <1>1, <1>5, <1>6, <1>7, FilesKept DEF Inv

----------------------------------------------------------------------------
(* No backup is overwritten in this step.                                  *)
Monotone == \A c \in Changes, f \in Files :
                backups[c][f] # Absent => backups'[c][f] = backups[c][f]

(* What is covered by backups stays so when none is overwritten.           *)
LEMMA SafeStays ==
    ASSUME Monotone, TypeOK, NEW p \in Places, NEW S \in SUBSET Files,
           SafeAt(p, S), lib'[p] = lib[p]
    PROVE  SafeAt(p, S)'
<1>1. \A f \in S : lib[p][f] \in Versions => lib[p][f].recording \in Recordings
  BY DEF Versions
<1>. QED
  BY <1>1, BackupsStay DEF SafeAt, Monotone

(* A step that writes a backup and no file.                                *)
LEMMA BackupStep ==
    ASSUME Inv, Monotone, UNCHANGED <<lib, ledger, owned>>
    PROVE  ChangedIsSafe' /\ OwnedIsSafe' /\ HandledIsSafe'
<1>1. \A v \in Versions : v.recording \in Recordings
  BY DEF Versions
<1>2. ChangedIsSafe'
  BY <1>1, BackupsStay DEF Inv, ChangedIsSafe, Monotone
<1>3. OwnedIsSafe'
  BY <1>1, BackupsStay DEF Inv, OwnedIsSafe, Monotone, TypeOK
<1>4. HandledIsSafe'
  <2>1. Handled' = Handled /\ Handled \subseteq Places
    BY DEF Handled, Inv, TypeOK
  <2>. QED
    BY <2>1, SafeStays DEF Inv, HandledIsSafe
<1>. QED
  BY <1>2, <1>3, <1>4

(* Between apply's and relocate's first backup and their end.              *)
LEMMA CopyKeeps ==
    ASSUME Inv, Copy
    PROVE  Inv'
<1>1. call \in Calls /\ call # Idle /\ call.stage = "copy" /\ call.files # {}
  BY DEF Copy, Inv, TypeOK
<1>. SUFFICES ASSUME NEW f \in Files, f = First, NEW fs \in SUBSET Files, fs = call.files,
                     NEW path \in Places, path = call.path,
                     NEW chg \in Changes, chg = call.change
              PROVE  Inv'
  BY <1>1, FirstIsOne DEF Inv, Calls
<1>2. f \in fs
  BY <1>1, FirstIsOne DEF Inv
<1>3. call.op \in {"set_album_artist", "relocate"}
  BY <1>1 DEF Inv, CallIsSafe, Calls, Ops
<1>4. backups[chg][f] = Absent /\ \A g \in fs : backups[chg][g] = Absent
  BY <1>1, <1>2, <1>3 DEF Inv, FreshBackups
<1>5. backups' = [backups EXCEPT ![chg][f] = lib[path][f]]
      /\ UNCHANGED <<lib, ledger, next, failed, alone, owned, orderly>>
  BY DEF Copy, SetBackup
<1>6. /\ Monotone /\ backups'[chg][f] = lib[path][f]
      /\ \A c \in Changes, g \in Files : c # chg \/ g # f => backups'[c][g] = backups[c][g]
      /\ \A c \in Changes : c # chg => backups'[c] = backups[c]
  BY <1>4, <1>5 DEF Monotone, Inv, TypeOK
<1>7. SafeAt(path, {f})'
  <2>. SUFFICES ASSUME lib[path][f] \in Versions
                PROVE  InBackup(lib[path][f].recording)'
    BY <1>5 DEF SafeAt
  <2>1. CASE lib[path][f] = File(lib[path][f].recording)
    BY <2>1, <1>5, <1>6 DEF InBackup
  <2>2. CASE InBackup(lib[path][f].recording)
    BY <2>2, <1>5, <1>6, BackupsStay DEF Monotone, Versions
  <2>. QED
    BY <2>1, <2>2 DEF Inv, ChangedIsSafe
<1>8. SafeAt(path, Files \ fs)'
  <2>1. SafeAt(path, Files \ fs)
    BY <1>1, <1>3 DEF Inv, CallIsSafe
  <2>. QED
    BY <2>1, <1>5, <1>6, SafeStays DEF Inv
<1>9. SafeAt(path, Files \ (fs \ {f}))'
  BY <1>7, <1>8 DEF SafeAt
<1>10. BackupsAreSafe'
  <2>. SUFFICES ASSUME NEW c \in Changes, NEW g \in Files, backups'[c][g] \in Versions
                PROVE  InBackup(backups[c][g].recording)'
    BY DEF BackupsAreSafe
  <2>1. CASE c = chg /\ g = f
    BY <2>1, <1>5, <1>6, <1>7 DEF SafeAt
  <2>2. CASE c # chg \/ g # f
    BY <2>2, <1>6, BackupsStay DEF Inv, BackupsAreSafe, Monotone, Versions
  <2>. QED
    BY <2>1, <2>2
<1>11. CASE call.op = "set_album_artist"
  <2>1. call' = [call EXCEPT !.stage = "write"]
    BY <1>11 DEF Copy
  <2>2. /\ call'.op = "set_album_artist" /\ call'.stage = "write" /\ call'.files = fs
        /\ call'.path = path /\ call'.new = call.new /\ call'.change = chg /\ call' \in Calls
        /\ call' # Idle
    BY <1>1, <1>11, <2>1 DEF Calls, Idle
  <2>3. First' = f
    BY <2>2 DEF First
  <2>4. TypeOK'
    BY <1>1, <1>5, <2>2 DEF Inv, TypeOK
  <2>5. FreshBackups'
    BY <1>1, <1>4, <1>5, <1>6, <2>2, <2>3 DEF Inv, FreshBackups, TypeOK, Changes
  <2>6. FilesAreThere'
    BY <1>1, <1>5, <1>11, <2>2 DEF Inv, FilesAreThere, CallIsSafe
  <2>7. CallIsSafe'
    BY <1>1, <1>7, <1>8, <1>11, <2>2, <2>3 DEF Inv, CallIsSafe
  <2>. QED
    BY <1>5, <1>6, <1>10, <2>4, <2>5, <2>6, <2>7, BackupStep DEF Inv
<1>12. CASE call.op = "relocate"
  <2>1. call' = [call EXCEPT !.files = fs \ {f}]
    BY <1>12 DEF Copy, Rest
  <2>2. /\ call'.op = "relocate" /\ call'.stage = "copy" /\ call'.files = fs \ {f}
        /\ call'.path = path /\ call'.new = call.new /\ call'.change = chg /\ call' \in Calls
        /\ call' # Idle
    BY <1>1, <1>12, <2>1 DEF Calls, Idle
  <2>3. TypeOK'
    BY <1>1, <1>5, <2>2 DEF Inv, TypeOK
  <2>4. FreshBackups'
    BY <1>1, <1>4, <1>5, <1>6, <2>2 DEF Inv, FreshBackups, TypeOK, Changes
  <2>5. FilesAreThere'
    BY <1>1, <1>5, <1>12, <2>2 DEF Inv, FilesAreThere
  <2>6. CallIsSafe'
    BY <1>1, <1>5, <1>9, <1>12, <2>2 DEF Inv, CallIsSafe
  <2>. QED
    BY <1>5, <1>6, <1>10, <2>3, <2>4, <2>5, <2>6, BackupStep DEF Inv
<1>. QED
  BY <1>3, <1>11, <1>12

----------------------------------------------------------------------------
(* A step that writes one file, over nothing that could be lost.           *)
LEMMA OneFile ==
    ASSUME Inv, UNCHANGED <<backups, ledger, owned>>,
           NEW p \in Places, NEW f \in Files, NEW v \in Contents,
           lib' = [lib EXCEPT ![p][f] = v],
           SafeAt(p, {f}), v \in Versions => InBackup(v.recording)
    PROVE  /\ lib' \in [Places -> [Files -> Contents]]
           /\ ChangedIsSafe' /\ OwnedIsSafe' /\ HandledIsSafe' /\ BackupsAreSafe'
           /\ SafeAt(p, {f})'
           /\ \A q \in Places, S \in SUBSET Files : SafeAt(q, S) => SafeAt(q, S)'
<1>1. /\ lib \in [Places -> [Files -> Contents]]
      /\ lib' \in [Places -> [Files -> Contents]]
      /\ lib'[p][f] = v
      /\ \A q \in Places, g \in Files : q # p \/ g # f => lib'[q][g] = lib[q][g]
  BY DEF Inv, TypeOK
<1>2. \A r : InBackup(r)' <=> InBackup(r)
  BY DEF InBackup
<1>3. ChangedIsSafe' /\ BackupsAreSafe'
  BY <1>1, <1>2 DEF Inv, ChangedIsSafe, BackupsAreSafe
<1>4. OwnedIsSafe'
  <2>. SUFFICES ASSUME NEW t \in owned, ~InBackup(t.content.recording)
                PROVE  \E q \in Places, g \in Files : lib'[q][g] = t.content
    BY <1>2 DEF Inv, OwnedIsSafe
  <2>1. PICK q \in Places, g \in Files : lib[q][g] = t.content
    BY DEF Inv, OwnedIsSafe
  <2>2. t.content \in Versions
    BY DEF Inv, TypeOK
  <2>3. q # p \/ g # f
    BY <2>1, <2>2 DEF SafeAt
  <2>. QED
    BY <1>1, <2>1, <2>3
<1>5. ASSUME NEW q \in Places, NEW S \in SUBSET Files, SafeAt(q, S)
      PROVE  SafeAt(q, S)'
  BY <1>1, <1>2, <1>5 DEF SafeAt
<1>6. HandledIsSafe'
  <2>1. Handled' = Handled /\ Handled \subseteq Places
    BY DEF Handled, Inv, TypeOK
  <2>. QED
    BY <2>1, <1>5 DEF Inv, HandledIsSafe
<1>7. SafeAt(p, {f})'
  BY <1>1, <1>2 DEF SafeAt
<1>. QED
  BY <1>1, <1>3, <1>4, <1>5, <1>6, <1>7

(* A step that moves a safe directory to an empty place.                   *)
LEMMA OneMove ==
    ASSUME Inv, UNCHANGED <<backups, ledger, owned>>,
           NEW from \in Places, NEW to \in Places, from # to,
           lib[to] = Empty, SafeAt(from, Files),
           lib' = [lib EXCEPT ![to] = lib[from], ![from] = Empty]
    PROVE  /\ lib' \in [Places -> [Files -> Contents]]
           /\ lib'[to] = lib[from] /\ lib'[from] = Empty
           /\ ChangedIsSafe' /\ OwnedIsSafe' /\ HandledIsSafe' /\ BackupsAreSafe'
           /\ SafeAt(to, Files)'
<1>1. /\ lib' \in [Places -> [Files -> Contents]]
      /\ lib'[to] = lib[from] /\ lib'[from] = Empty
      /\ \A q \in Places : q # from /\ q # to => lib'[q] = lib[q]
  BY DEF Inv, TypeOK, Empty, Contents
<1>2. \A r : InBackup(r)' <=> InBackup(r)
  BY DEF InBackup
<1>3. \A f \in Files : Empty[f] = Absent /\ Empty[f] \notin Versions
  BY ConstantsAssumption DEF Empty
<1>4. ChangedIsSafe' /\ BackupsAreSafe'
  BY <1>1, <1>2, <1>3 DEF Inv, ChangedIsSafe, BackupsAreSafe
<1>5. OwnedIsSafe'
  <2>. SUFFICES ASSUME NEW t \in owned, ~InBackup(t.content.recording)
                PROVE  \E q \in Places, g \in Files : lib'[q][g] = t.content
    BY <1>2 DEF Inv, OwnedIsSafe
  <2>1. PICK q \in Places, g \in Files : lib[q][g] = t.content
    BY DEF Inv, OwnedIsSafe
  <2>2. t.content \in Versions
    BY DEF Inv, TypeOK
  <2>. QED
    BY <1>1, <1>3, <2>1, <2>2
<1>6. SafeAt(to, Files)' /\ SafeAt(from, Files)'
  BY <1>1, <1>2, <1>3 DEF SafeAt
<1>7. HandledIsSafe'
  <2>1. Handled' = Handled /\ Handled \subseteq Places
    BY DEF Handled, Inv, TypeOK
  <2>2. ASSUME NEW q \in Handled PROVE SafeAt(q, Files)'
    BY <1>1, <1>2, <1>6, <2>1 DEF Inv, HandledIsSafe, SafeAt
  <2>. QED
    BY <2>1, <2>2 DEF HandledIsSafe
<1>. QED
  BY <1>1, <1>4, <1>5, <1>6, <1>7

----------------------------------------------------------------------------
(* The move of relocate, after all its backups.                            *)
LEMMA MoveKeeps ==
    ASSUME Inv, Move
    PROVE  Inv'
<1>1. call \in Calls /\ call # Idle /\ call.stage = "copy" /\ call.op = "relocate"
      /\ call.files = {}
  BY DEF Move, Inv, TypeOK
<1>. SUFFICES ASSUME NEW from \in Places, from = call.path, NEW to \in Places, to = call.new
              PROVE  Inv'
  BY <1>1 DEF Calls
<1>2. from # to /\ lib[to] = Empty /\ SafeAt(from, Files \ {})
  BY <1>1 DEF Inv, CallIsSafe
<1>3. lib' = [lib EXCEPT ![to] = lib[from], ![from] = Empty]
      /\ call' = [call EXCEPT !.stage = "write", !.files = AudioFiles(lib[from])]
      /\ UNCHANGED <<backups, ledger, next, failed, alone, owned, orderly>>
  BY DEF Move
<1>4. SafeAt(from, Files)
  BY <1>2 DEF SafeAt
<1>5. /\ lib' \in [Places -> [Files -> Contents]]
      /\ lib'[to] = lib[from] /\ lib'[from] = Empty
      /\ ChangedIsSafe' /\ OwnedIsSafe' /\ HandledIsSafe' /\ BackupsAreSafe'
      /\ SafeAt(to, Files)'
  BY <1>2, <1>3, <1>4, OneMove
<1>6. AudioFiles(lib[from]) \in SUBSET Files /\ \A f \in AudioFiles(lib[from]) : lib[from][f] # Absent
  BY DEF AudioFiles
<1>7. /\ call'.op = "relocate" /\ call'.stage = "write" /\ call'.files = AudioFiles(lib[from])
      /\ call'.path = from /\ call'.new = to /\ call'.change = call.change /\ call' \in Calls
      /\ call' # Idle
  BY <1>1, <1>3, <1>6 DEF Calls, Idle
<1>8. TypeOK'
  BY <1>1, <1>3, <1>5, <1>7 DEF Inv, TypeOK
<1>9. FreshBackups'
  BY <1>3, <1>7 DEF Inv, FreshBackups
<1>10. FilesAreThere'
  BY <1>5, <1>6, <1>7 DEF FilesAreThere
<1>11. CallIsSafe'
  BY <1>2, <1>5, <1>7 DEF CallIsSafe
<1>. QED
  BY <1>5, <1>8, <1>9, <1>10, <1>11 DEF Inv

(* apply and relocate when they are about to write a tag: the file is      *)
(* covered, and so is what the next step relies on.                        *)
LEMMA AtWrite ==
    ASSUME Inv, call # Idle, call.stage = "write", call.files # {}
    PROVE  /\ call \in Calls /\ call.op \in {"set_album_artist", "relocate"}
           /\ First \in call.files /\ First \in Files
           /\ SafeAt(call.new, {First}) /\ lib[call.new][First] # Absent
<1>1. call \in Calls /\ call.op \in {"set_album_artist", "relocate"}
  BY DEF Inv, TypeOK, CallIsSafe, Calls, Ops
<1>2. First \in call.files /\ First \in Files
  BY FirstIsOne DEF Inv
<1>3. lib[call.new][First] # Absent
  BY <1>1, <1>2 DEF Inv, FilesAreThere
<1>4. SafeAt(call.new, {First})
  BY <1>1, <1>2 DEF Inv, CallIsSafe, SafeAt
<1>. QED
  BY <1>1, <1>2, <1>3, <1>4

(* What is left to show for a step to the next file of a write loop.       *)
LEMMA AfterWriteKeeps ==
    ASSUME Inv, call # Idle, call.stage = "write", call.files # {}, call' = AfterWrite,
           UNCHANGED <<backups, ledger, next, failed, alone, owned, orderly>>,
           NEW f \in Files, f = First, NEW p \in Places, p = call.new,
           NEW v \in Contents, v # Absent,
           lib' = [lib EXCEPT ![p][f] = v],
           v \in Versions => InBackup(v.recording)
    PROVE  Inv'
<1>1. /\ call \in Calls /\ call.op \in {"set_album_artist", "relocate"}
      /\ f \in call.files /\ SafeAt(p, {f})
  BY AtWrite
<1>2. /\ lib' \in [Places -> [Files -> Contents]]
      /\ ChangedIsSafe' /\ OwnedIsSafe' /\ HandledIsSafe' /\ BackupsAreSafe'
      /\ SafeAt(p, {f})'
      /\ \A q \in Places, S \in SUBSET Files : SafeAt(q, S) => SafeAt(q, S)'
  BY <1>1, OneFile
<1>. SUFFICES ASSUME NEW fs \in SUBSET Files, fs = call.files, NEW path \in Places, path = call.path
              PROVE  Inv'
  BY <1>1 DEF Calls
<1>3. \A g \in Files : lib[p][g] # Absent => lib'[p][g] # Absent
  BY DEF Inv, TypeOK
<1>4. CASE call.op = "set_album_artist"
  <2>1. call' = [call EXCEPT !.files = fs \ {f}, !.stage = "copy"]
    BY <1>4 DEF AfterWrite, Rest
  <2>. fs \ {f} \in SUBSET Files
    OBVIOUS
  <2>2. /\ call'.op = "set_album_artist" /\ call'.stage = "copy" /\ call'.files = fs \ {f}
        /\ call'.path = path /\ call'.new = p /\ call'.change = call.change /\ call' \in Calls
        /\ call' # Idle
    BY <1>1, <1>4, <2>1 DEF Calls, Idle
  <2>. path = p
    BY <1>4 DEF Inv, CallIsSafe
  <2>3. TypeOK'
    BY <1>2, <2>2 DEF Inv, TypeOK
  <2>4. FreshBackups'
    BY <1>4, <2>2 DEF Inv, FreshBackups
  <2>5. FilesAreThere'
    BY <1>3, <1>4, <2>2 DEF Inv, FilesAreThere
  <2>6. SafeAt(path, Files \ (fs \ {f}))'
    <3>1. SafeAt(path, Files \ fs)'
      BY <1>2, <1>4 DEF Inv, CallIsSafe
    <3>. QED
      BY <3>1, <1>2, <2>2 DEF SafeAt
  <2>7. CallIsSafe'
    BY <2>2, <2>6 DEF CallIsSafe
  <2>. QED
    BY <1>2, <2>3, <2>4, <2>5, <2>7 DEF Inv
<1>5. CASE call.op = "relocate"
  <2>1. call' = [call EXCEPT !.files = fs \ {f}]
    BY <1>5 DEF AfterWrite, Rest
  <2>2. /\ call'.op = "relocate" /\ call'.stage = "write" /\ call'.files = fs \ {f}
        /\ call'.path = path /\ call'.new = p /\ call'.change = call.change /\ call' \in Calls
        /\ call' # Idle
    BY <1>1, <1>5, <2>1 DEF Calls, Idle
  <2>3. path # p /\ SafeAt(p, Files) /\ lib[path] = Empty
    BY <1>5 DEF Inv, CallIsSafe
  <2>4. SafeAt(p, Files)' /\ lib'[path] = Empty
    BY <1>2, <2>3 DEF Inv, TypeOK
  <2>5. TypeOK'
    BY <1>2, <2>2 DEF Inv, TypeOK
  <2>6. FreshBackups'
    BY <1>5, <2>2 DEF Inv, FreshBackups
  <2>7. FilesAreThere'
    BY <1>3, <1>5, <2>2 DEF Inv, FilesAreThere
  <2>8. CallIsSafe'
    BY <2>2, <2>3, <2>4 DEF CallIsSafe
  <2>. QED
    BY <1>2, <2>5, <2>6, <2>7, <2>8 DEF Inv
<1>. QED
  BY <1>1, <1>4, <1>5

(* _write_album_artist, on a file that has been backed up.                 *)
LEMMA WriteKeeps ==
    ASSUME Inv, Write
    PROVE  Inv'
<1>1. call # Idle /\ call.stage = "write" /\ call.files # {}
  BY DEF Write
<1>2. /\ call \in Calls /\ First \in Files
      /\ SafeAt(call.new, {First}) /\ lib[call.new][First] \notin {Absent, Torn}
  BY <1>1, AtWrite DEF Write
<1>. SUFFICES ASSUME NEW f \in Files, f = First, NEW p \in Places, p = call.new,
                     NEW n \in Names \cup {NoName}, n = call.target
              PROVE  Inv'
  BY <1>2 DEF Calls
<1>3. lib[p][f] \in Versions
  BY <1>2 DEF Inv, TypeOK, Contents
<1>. DEFINE w == Tagged(lib[p][f], n)
<1>4. w \in Versions /\ w.recording = lib[p][f].recording
  BY <1>3 DEF Tagged, Versions
<1>. SUFFICES ASSUME NEW v \in Versions, v = w, v.recording = lib[p][f].recording
              PROVE  Inv'
  BY <1>4
<1>5. InBackup(v.recording)
  BY <1>2, <1>3 DEF SafeAt
<1>6. v \in Contents /\ v # Absent
  BY ConstantsAssumption DEF Contents
<1>. QED
  BY <1>1, <1>5, <1>6, AfterWriteKeeps DEF Write, SetFile

(* relocate goes on to the next file after a tag it could not write.       *)
LEMMA WriteSwallowedKeeps ==
    ASSUME Inv, WriteSwallowed
    PROVE  Inv'
<1>1. call # Idle /\ call.stage = "write" /\ call.files # {}
  BY DEF WriteSwallowed
<1>2. /\ call \in Calls /\ First \in Files
      /\ SafeAt(call.new, {First}) /\ lib[call.new][First] # Absent
  BY <1>1, AtWrite
<1>. SUFFICES ASSUME NEW f \in Files, f = First, NEW p \in Places, p = call.new,
                     NEW v \in Contents, v = lib[p][f]
              PROVE  Inv'
  BY <1>2 DEF Calls, Inv, TypeOK
<1>3. v \in Versions => InBackup(v.recording)
  BY <1>2 DEF SafeAt
<1>4. lib' = [lib EXCEPT ![p][f] = v]
  BY DEF WriteSwallowed, Inv, TypeOK
<1>5. call' = AfterWrite /\ UNCHANGED <<backups, ledger, next, failed, alone, owned, orderly>>
  BY DEF WriteSwallowed
<1>6. v # Absent
  BY <1>2
<1>. QED
  BY <1>1, <1>3, <1>4, <1>5, <1>6, AfterWriteKeeps

----------------------------------------------------------------------------
(* A call that has ended leaves no obligations of its own.                 *)
LEMMA NoCall ==
    ASSUME Inv, call' = Idle, UNCHANGED next, \A c \in Changes : c >= next => backups'[c] = Empty
    PROVE  FreshBackups' /\ FilesAreThere' /\ CallIsSafe'
  BY DEF Inv, FreshBackups, FilesAreThere, CallIsSafe

(* The ledger names places whose files are covered by then.                *)
LEMMA RecordKeeps ==
    ASSUME Inv, Record
    PROVE  Inv'
<1>1. call \in Calls /\ call # Idle /\ call.files = {}
  BY DEF Record, Ending, Inv, TypeOK
<1>. SUFFICES ASSUME NEW path \in Places, path = call.path, NEW to \in Places, to = call.new
              PROVE  Inv'
  BY <1>1 DEF Calls
<1>2. SafeAt(path, Files) /\ SafeAt(to, Files)
  <2>1. CASE call.op = "set_album_artist"
    BY <1>1, <2>1 DEF Inv, CallIsSafe, SafeAt, Record
  <2>2. CASE call.op = "relocate"
    BY <1>1, <2>2, ConstantsAssumption DEF Inv, CallIsSafe, SafeAt, Record, Empty
  <2>3. CASE call.op = "revert"
    BY <1>1, <2>3 DEF Inv, CallIsSafe, HandledIsSafe
  <2>. QED
    BY <1>1, <2>1, <2>2, <2>3 DEF Calls, Ops
<1>3. ledger' = ledger \cup {Entry} /\ call' = Idle
      /\ UNCHANGED <<lib, backups, next, failed, alone, owned, orderly>>
  BY DEF Record
<1>4. Entry \in [change : Changes, op : Ops, path : Places, new : Places]
      /\ Entry.path = path /\ Entry.new = to /\ Entry.change < next
  BY <1>1 DEF Entry, Calls, Inv, TypeOK
<1>5. TypeOK'
  BY <1>3, <1>4 DEF Inv, TypeOK
<1>6. HandledIsSafe'
  <2>1. Handled' = Handled \cup {path, to}
    BY <1>3, <1>4 DEF Handled
  <2>. QED
    BY <1>2, <1>3, <2>1 DEF Inv, HandledIsSafe, SafeAt, InBackup
<1>7. ChangedIsSafe' /\ OwnedIsSafe' /\ BackupsAreSafe'
  BY <1>3 DEF Inv, ChangedIsSafe, OwnedIsSafe, BackupsAreSafe, InBackup
<1>8. FreshBackups' /\ FilesAreThere' /\ CallIsSafe'
  BY <1>3, NoCall DEF Inv, FreshBackups
<1>. QED
  BY <1>5, <1>6, <1>7, <1>8 DEF Inv

(* A call that raises between two file operations.                         *)
LEMMA CutShortKeeps ==
    ASSUME Inv, NEW harmless \in BOOLEAN, CutShort(harmless), UNCHANGED <<lib, backups>>
    PROVE  Inv'
<1>1. call' = Idle /\ UNCHANGED <<lib, backups, ledger, next, failed, alone, owned>>
      /\ orderly' \in BOOLEAN
  BY DEF CutShort, Inv, TypeOK
<1>2. TypeOK'
  BY <1>1 DEF Inv, TypeOK
<1>3. FreshBackups' /\ FilesAreThere' /\ CallIsSafe'
  BY <1>1, NoCall DEF Inv, FreshBackups
<1>. QED
  BY <1>1, <1>2, <1>3, FilesKept DEF Inv

(* What revert has to do with is covered by backups.                       *)
LEMMA AtRevert ==
    ASSUME Inv, call # Idle, call.stage \in {"moveBack", "restore"}
    PROVE  /\ call \in Calls /\ call.op = "revert" /\ {call.path, call.new} \subseteq Handled
           /\ SafeAt(call.path, Files) /\ SafeAt(call.new, Files)
<1>1. call \in Calls /\ call.op = "revert"
  BY DEF Inv, TypeOK, CallIsSafe, Calls, Ops
<1>. QED
  BY <1>1 DEF Inv, CallIsSafe, HandledIsSafe

(* What is left to show for a step within revert.                          *)
LEMMA RevertGoesOn ==
    ASSUME Inv, call # Idle, call.stage \in {"moveBack", "restore"},
           UNCHANGED <<backups, ledger, next, failed, alone, owned, orderly>>,
           call' \in Calls, call'.op = "revert", call'.stage = "restore",
           call'.path = call.path, call'.new = call.new, call'.change = call.change,
           lib' \in [Places -> [Files -> Contents]],
           ChangedIsSafe' /\ OwnedIsSafe' /\ HandledIsSafe' /\ BackupsAreSafe'
    PROVE  Inv'
<1>1. call.change < next /\ {call.path, call.new} \subseteq Handled /\ Handled' = Handled
  BY AtRevert DEF Inv, TypeOK, Handled
<1>2. TypeOK'
  BY <1>1 DEF Inv, TypeOK
<1>3. FreshBackups' /\ FilesAreThere'
  BY DEF Inv, FreshBackups, FilesAreThere
<1>4. CallIsSafe'
  BY <1>1 DEF CallIsSafe
<1>. QED
  BY <1>2, <1>3, <1>4 DEF Inv

(* The move of revert, or its omission.                                    *)
LEMMA MoveBackKeeps ==
    ASSUME Inv, MoveBack
    PROVE  Inv'
<1>1. call # Idle /\ call.stage = "moveBack" /\ call' = [call EXCEPT !.stage = "restore"]
      /\ UNCHANGED <<backups, ledger, next, failed, alone, owned, orderly>>
  BY DEF MoveBack
<1>2. call \in Calls /\ call.op = "revert" /\ SafeAt(call.new, Files)
  BY <1>1, AtRevert
<1>3. call' \in Calls /\ call'.op = "revert" /\ call'.stage = "restore"
      /\ call'.path = call.path /\ call'.new = call.new /\ call'.change = call.change
  BY <1>1, <1>2 DEF Calls
<1>4. lib' \in [Places -> [Files -> Contents]]
      /\ ChangedIsSafe' /\ OwnedIsSafe' /\ HandledIsSafe' /\ BackupsAreSafe'
  <2>. SUFFICES ASSUME NEW from \in Places, from = call.new, NEW to \in Places, to = call.path
                PROVE  lib' \in [Places -> [Files -> Contents]]
                       /\ ChangedIsSafe' /\ OwnedIsSafe' /\ HandledIsSafe' /\ BackupsAreSafe'
    BY <1>2 DEF Calls
  <2>1. CASE IsDir(lib[from]) /\ ~IsDir(lib[to])
    <3>1. from # to /\ lib[to] = Empty
      BY <2>1 DEF IsDir
    <3>2. lib' = [lib EXCEPT ![to] = lib[from], ![from] = Empty]
      BY <2>1 DEF MoveBack
    <3>. QED
      BY <1>1, <1>2, <3>1, <3>2, OneMove
  <2>2. CASE ~(IsDir(lib[from]) /\ ~IsDir(lib[to]))
    <3>1. lib' = lib
      BY <2>2 DEF MoveBack
    <3>. QED
      BY <1>1, <3>1, FilesKept DEF Inv, TypeOK
  <2>. QED
    BY <2>1, <2>2
<1>. QED
  BY <1>1, <1>3, <1>4, RevertGoesOn

(* The copy of a backup over a file that is itself covered.                *)
LEMMA RestoreKeeps ==
    ASSUME Inv, Restore
    PROVE  Inv'
<1>1. call # Idle /\ call.stage = "restore" /\ call.files # {}
      /\ call' = [call EXCEPT !.files = Rest]
      /\ UNCHANGED <<backups, ledger, next, failed, alone, owned, orderly>>
  BY DEF Restore
<1>2. call \in Calls /\ call.op = "revert" /\ SafeAt(call.path, Files)
  BY <1>1, AtRevert
<1>3. call' \in Calls /\ call'.op = "revert" /\ call'.stage = "restore"
      /\ call'.path = call.path /\ call'.new = call.new /\ call'.change = call.change
  <2>1. Rest \in SUBSET Files
    BY <1>2 DEF Calls, Rest
  <2>. QED
    BY <1>1, <1>2, <2>1 DEF Calls
<1>4. lib' \in [Places -> [Files -> Contents]]
      /\ ChangedIsSafe' /\ OwnedIsSafe' /\ HandledIsSafe' /\ BackupsAreSafe'
  <2>1. First \in Files /\ backups[call.change][First] \in Contents
    BY <1>1, <1>2, FirstIsOne DEF Inv, TypeOK, Calls
  <2>. SUFFICES ASSUME NEW p \in Places, p = call.path, NEW f \in Files, f = First,
                       NEW v \in Contents, v = backups[call.change][First]
                PROVE  lib' \in [Places -> [Files -> Contents]]
                       /\ ChangedIsSafe' /\ OwnedIsSafe' /\ HandledIsSafe' /\ BackupsAreSafe'
    BY <1>2, <2>1 DEF Calls
  <2>2. CASE lib' = [lib EXCEPT ![p][f] = v]
    <3>1. SafeAt(p, {f})
      BY <1>2 DEF SafeAt
    <3>2. v \in Versions => InBackup(v.recording)
      BY <1>2 DEF Inv, BackupsAreSafe, Calls
    <3>. QED
      BY <1>1, <2>2, <3>1, <3>2, OneFile
  <2>3. CASE lib' = lib
    BY <1>1, <2>3, FilesKept DEF Inv, TypeOK
  <2>. QED
    BY <2>2, <2>3 DEF Restore, SetFile
<1>. QED
  BY <1>1, <1>3, <1>4, RevertGoesOn

(* A kill in the middle of a file leaves it torn, backed up before.        *)
LEMMA KilledInWriteKeeps ==
    ASSUME Inv, KilledInWrite
    PROVE  Inv'
<1>1. /\ call # Idle /\ call.files # {} /\ call \in Calls /\ call' = Idle
      /\ UNCHANGED <<ledger, next, failed, alone, owned>> /\ orderly' \in BOOLEAN
  BY DEF KilledInWrite, CutShort, Inv, TypeOK
<1>. SUFFICES ASSUME NEW f \in Files, f = First, NEW p \in Places, NEW to \in Places,
                     p = call.path, to = call.new, NEW chg \in Changes, chg = call.change
              PROVE  Inv'
  BY <1>1, FirstIsOne DEF Inv, Calls
<1>2. Torn \in Contents /\ Torn \notin Versions
  BY ConstantsAssumption DEF Contents
<1>3. CASE call.stage = "copy" /\ SetBackup(Torn) /\ UNCHANGED lib
  <2>1. call.op # "revert" /\ f \in call.files
    BY <1>1, <1>3, FirstIsOne DEF Inv, CallIsSafe
  <2>2. backups[chg][f] = Absent /\ chg < next
    BY <1>1, <1>3, <2>1 DEF Inv, FreshBackups, TypeOK
  <2>3. backups' = [backups EXCEPT ![chg][f] = Torn]
    BY <1>3 DEF SetBackup
  <2>4. /\ Monotone
        /\ backups' \in [Changes -> [Files -> Contents]]
        /\ \A c \in Changes : c >= next => backups'[c] = backups[c]
        /\ \A c \in Changes, g \in Files : backups'[c][g] \in Versions
                                            => backups'[c][g] = backups[c][g]
    BY <1>2, <2>2, <2>3 DEF Monotone, Inv, TypeOK, Changes
  <2>5. ChangedIsSafe' /\ OwnedIsSafe' /\ HandledIsSafe'
    BY <1>1, <1>3, <2>4, BackupStep
  <2>6. BackupsAreSafe'
    <3>. SUFFICES ASSUME NEW c \in Changes, NEW g \in Files, backups'[c][g] \in Versions
                  PROVE  InBackup(backups[c][g].recording)'
      BY DEF BackupsAreSafe
    <3>. QED
      BY <2>4, BackupsStay DEF Inv, BackupsAreSafe, Monotone, Versions
  <2>7. FreshBackups' /\ FilesAreThere' /\ CallIsSafe'
    BY <1>1, <2>4, NoCall DEF Inv, FreshBackups
  <2>8. TypeOK'
    BY <1>1, <1>3, <2>4 DEF Inv, TypeOK
  <2>. QED
    BY <2>5, <2>6, <2>7, <2>8 DEF Inv
<1>4. ASSUME NEW q \in Places, lib' = [lib EXCEPT ![q][f] = Torn], SafeAt(q, {f}),
             UNCHANGED backups
      PROVE  Inv'
  <2>1. lib' \in [Places -> [Files -> Contents]]
        /\ ChangedIsSafe' /\ OwnedIsSafe' /\ HandledIsSafe' /\ BackupsAreSafe'
    BY <1>1, <1>2, <1>4, OneFile
  <2>2. FreshBackups' /\ FilesAreThere' /\ CallIsSafe'
    BY <1>1, <1>4, NoCall DEF Inv, FreshBackups
  <2>3. TypeOK'
    BY <1>1, <1>4, <2>1 DEF Inv, TypeOK
  <2>. QED
    BY <2>1, <2>2, <2>3 DEF Inv
<1>5. CASE call.stage = "write" /\ SetFile(call.new, First, Torn) /\ UNCHANGED backups
  BY <1>1, <1>4, <1>5, AtWrite DEF SetFile
<1>6. CASE call.stage = "restore" /\ SetFile(call.path, First, Torn) /\ UNCHANGED backups
  <2>1. SafeAt(p, {f})
    BY <1>1, <1>6, AtRevert DEF SafeAt
  <2>. QED
    BY <1>4, <1>6, <2>1 DEF SetFile
<1>. QED
  BY <1>3, <1>5, <1>6 DEF KilledInWrite

(* An import into a place of which no ledger entry knows.                  *)
LEMMA ImportKeeps ==
    ASSUME Inv, ~ReusesPlaces, NEW p \in Places,
           NEW album \in [Files -> Recordings \cup {Absent}], Import(p, album)
    PROVE  Inv'
<1>. DEFINE d == Delivered(album)
<1>1. /\ d \in [Files -> Contents]
      /\ \A f \in Files : d[f] # Absent =>
            d[f] \in Versions /\ d[f] = File(d[f].recording)
  <2>1. ASSUME NEW f \in Files
        PROVE  d[f] \in Contents /\ (d[f] # Absent =>
                  d[f] \in Versions /\ d[f] = File(d[f].recording))
    <3>1. CASE album[f] = Absent
      BY <3>1 DEF Delivered, Contents
    <3>2. CASE album[f] # Absent
      BY <3>2, Delivery DEF Delivered, Contents
    <3>. QED
      BY <3>1, <3>2
  <2>. QED
    BY <2>1 DEF Delivered
<1>. HIDE DEF d
<1>2. /\ lib[p] = Empty /\ p \notin Handled /\ (call # Idle => p \notin {call.path, call.new})
      /\ lib' = [lib EXCEPT ![p] = d]
      /\ owned' = owned \cup {t \in Listing(lib') : t.place = p}
      /\ UNCHANGED <<backups, ledger, next, call, failed, alone, orderly>>
  BY DEF Import, IsDir, d
<1>3. /\ lib' \in [Places -> [Files -> Contents]] /\ lib'[p] = d
      /\ \A q \in Places : q # p => lib'[q] = lib[q]
  BY <1>1, <1>2 DEF Inv, TypeOK
<1>4. \A r : InBackup(r)' <=> InBackup(r)
  BY <1>2 DEF InBackup
<1>5. ASSUME NEW t \in owned', t \notin owned
      PROVE  /\ t \in [place : Places, file : Files, content : Versions]
             /\ t.content = lib'[p][t.file] /\ t.content = File(t.content.recording)
  <2>1. PICK pf \in Places \X Files :
           /\ lib'[pf[1]][pf[2]] # Absent
           /\ t = [place |-> pf[1], file |-> pf[2], content |-> lib'[pf[1]][pf[2]]]
           /\ t.place = p
    BY <1>2, <1>5 DEF Listing
  <2>. QED
    BY <1>1, <1>3, <2>1
<1>6. TypeOK'
  <2>1. owned' \subseteq [place : Places, file : Files, content : Versions]
    BY <1>5 DEF Inv, TypeOK
  <2>. QED
    BY <1>2, <1>3, <2>1 DEF Inv, TypeOK
<1>7. ChangedIsSafe' /\ BackupsAreSafe'
  BY <1>1, <1>2, <1>3, <1>4, ConstantsAssumption DEF Inv, ChangedIsSafe, BackupsAreSafe
<1>8. OwnedIsSafe'
  <2>. SUFFICES ASSUME NEW t \in owned'
                PROVE  /\ t.content = File(t.content.recording)
                       /\ \/ InBackup(t.content.recording)
                          \/ \E q \in Places, f \in Files : lib'[q][f] = t.content
    BY <1>4 DEF OwnedIsSafe
  <2>1. CASE t \notin owned
    BY <1>5, <2>1
  <2>2. CASE t \in owned /\ ~InBackup(t.content.recording)
    <3>1. PICK q \in Places, f \in Files : lib[q][f] = t.content
      BY <2>2 DEF Inv, OwnedIsSafe
    <3>2. t.content # Absent
      BY <2>2, ConstantsAssumption DEF Inv, TypeOK
    <3>3. q # p
      BY <1>2, <3>1, <3>2 DEF Empty
    <3>. QED
      BY <1>3, <2>2, <3>1, <3>3 DEF Inv, OwnedIsSafe
  <2>3. CASE t \in owned /\ InBackup(t.content.recording)
    BY <2>3 DEF Inv, OwnedIsSafe
  <2>. QED
    BY <2>1, <2>2, <2>3
<1>9. ASSUME NEW q \in Places, q # p, NEW S \in SUBSET Files, SafeAt(q, S)
      PROVE  SafeAt(q, S)'
  BY <1>3, <1>4, <1>9 DEF SafeAt
<1>10. HandledIsSafe'
  <2>1. Handled' = Handled /\ Handled \subseteq Places
    BY <1>2 DEF Handled, Inv, TypeOK
  <2>. QED
    BY <1>2, <1>9, <2>1 DEF Inv, HandledIsSafe
<1>11. FreshBackups'
  BY <1>2 DEF Inv, FreshBackups, First
<1>12. FilesAreThere'
  BY <1>2, <1>3 DEF Inv, FilesAreThere, TypeOK, Calls
<1>13. CallIsSafe'
  <2>. SUFFICES ASSUME call # Idle PROVE CallIsSafe'
    BY <1>2 DEF CallIsSafe
  <2>1. call \in Calls
    BY DEF Inv, TypeOK
  <2>. SUFFICES ASSUME NEW path \in Places, path = call.path, NEW to \in Places, to = call.new,
                       NEW fs \in SUBSET Files, fs = call.files, NEW f, f = First
                PROVE  CallIsSafe'
    BY <2>1 DEF Calls
  <2>2. call' = call /\ First' = f /\ Handled' = Handled /\ path # p /\ to # p
    BY <1>2 DEF First, Handled
  <2>3. lib'[path] = lib[path] /\ lib'[to] = lib[to]
    BY <1>3, <2>2
  <2>4. \A S \in SUBSET Files : (SafeAt(path, S) => SafeAt(path, S)')
                                 /\ (SafeAt(to, S) => SafeAt(to, S)')
    BY <1>9, <2>2
  <2>5. fs # {} => {f} \in SUBSET Files
    BY FirstIsOne DEF Inv
  <2>. QED
    BY <2>2, <2>3, <2>4, <2>5 DEF Inv, CallIsSafe
<1>. QED
  BY <1>6, <1>7, <1>8, <1>10, <1>11, <1>12, <1>13 DEF Inv

----------------------------------------------------------------------------
(* At the start every file is as it was delivered.                         *)
LEMMA InitEstablishes == Init => Inv
<1>. SUFFICES ASSUME Init PROVE Inv
  OBVIOUS
<1>1. ASSUME NEW p \in Places, NEW f \in Files
      PROVE  lib[p][f] \in Contents /\ (lib[p][f] # Absent =>
                lib[p][f] \in Versions /\ lib[p][f] = File(lib[p][f].recording))
  <2>1. CASE p \in DOMAIN Stocked /\ Stocked[p][f] # Absent
    <3>1. Stocked[p][f] \in Recordings /\ lib[p][f] = File(Stocked[p][f])
      BY <2>1, ConstantsAssumption DEF Init, Delivered
    <3>. QED
      BY <3>1, Delivery DEF Contents
  <2>2. CASE ~(p \in DOMAIN Stocked /\ Stocked[p][f] # Absent)
    <3>1. lib[p][f] = Absent
      BY <2>2 DEF Init, Delivered, Empty
    <3>. QED
      BY <3>1 DEF Contents
  <2>. QED
    BY <2>1, <2>2
<1>2. ASSUME NEW t \in owned
      PROVE  /\ t \in [place : Places, file : Files, content : Versions]
             /\ t.content = File(t.content.recording)
             /\ \E p \in Places, f \in Files : lib[p][f] = t.content
  <2>1. PICK pf \in Places \X Files :
           /\ lib[pf[1]][pf[2]] # Absent
           /\ t = [place |-> pf[1], file |-> pf[2], content |-> lib[pf[1]][pf[2]]]
    BY DEF Init, Listing
  <2>. QED
    BY <1>1, <2>1
<1>3. TypeOK
  <2>1. lib \in [Places -> [Files -> Contents]]
    <3>1. \A p \in Places : lib[p] = [f \in Files |-> lib[p][f]]
      BY DEF Init, Delivered, Empty
    <3>2. lib = [p \in Places |-> lib[p]]
      BY DEF Init
    <3>. QED
      BY <1>1, <3>1, <3>2
  <2>2. backups \in [Changes -> [Files -> Contents]]
    BY DEF Init, Empty, Contents
  <2>3. owned \subseteq [place : Places, file : Files, content : Versions]
    BY <1>2
  <2>4. next \in 1..(MaxChanges + 1)
    BY ConstantsAssumption DEF Init
  <2>5. /\ ledger \subseteq [change : Changes, op : Ops, path : Places, new : Places]
        /\ \A e \in ledger : e.change < next
    BY DEF Init
  <2>6. call \in Calls \cup {Idle} /\ (call # Idle => call.change < next)
    BY DEF Init
  <2>7. failed \subseteq MayFail /\ alone \in BOOLEAN /\ orderly \in BOOLEAN
    BY DEF Init
  <2>. QED
    BY <2>1, <2>2, <2>3, <2>4, <2>5, <2>6, <2>7 DEF TypeOK
<1>4. ChangedIsSafe
  BY <1>1, ConstantsAssumption DEF ChangedIsSafe
<1>5. OwnedIsSafe
  BY <1>2 DEF OwnedIsSafe
<1>6. HandledIsSafe
  BY DEF Init, HandledIsSafe, Handled
<1>7. BackupsAreSafe
  BY ConstantsAssumption DEF Init, BackupsAreSafe, Empty
<1>8. FreshBackups /\ FilesAreThere /\ CallIsSafe
  BY DEF Init, FreshBackups, FilesAreThere, CallIsSafe
<1>. QED
  BY <1>3, <1>4, <1>5, <1>6, <1>7, <1>8 DEF Inv

(* Inv is inductive while importers keep off the ledger's places.          *)
LEMMA NextKeeps ==
    ASSUME Inv, ~ReusesPlaces, [Next]_vars
    PROVE  Inv'
<1>1. CASE OnRequest
  <2>1. CASE \E p \in Places : next <= MaxManual /\ Begin(p, Requested, BOOLEAN)
    <3>1. next \in Changes /\ Requested \in SUBSET (Names \cup {NoName})
      BY <2>1, ConstantsAssumption DEF Inv, TypeOK, Changes
    <3>. QED
      BY <2>1, <3>1, BeginKeeps
  <2>2. CASE \E e \in ledger : RevertStart(e)
    BY <2>2, RevertStartKeeps
  <2>. QED
    BY <1>1, <2>1, <2>2 DEF OnRequest
<1>2. CASE Sweep
  <2>1. next \in Changes /\ {NoName} \in SUBSET (Names \cup {NoName})
    BY <1>2, ConstantsAssumption DEF Inv, TypeOK, Changes, Sweep
  <2>. QED
    BY <1>2, <2>1, BeginKeeps DEF Sweep
<1>3. CASE Raises \/ MustRaise
  <2>1. Untouched \in BOOLEAN
    BY DEF Untouched
  <2>. QED
    BY <1>3, <2>1, CutShortKeeps DEF Raises, MustRaise
<1>4. CASE \E i \in Incoming : Import(i.place, i.album)
  BY <1>4, ImportKeeps, ConstantsAssumption
<1>5. CASE LeaveAlone \/ UNCHANGED vars
  <2>1. UNCHANGED <<lib, backups, ledger, next, call, failed, owned, orderly>> /\ alone' \in BOOLEAN
    BY <1>5 DEF LeaveAlone, vars, Inv, TypeOK
  <2>2. TypeOK'
    BY <2>1 DEF Inv, TypeOK
  <2>3. FreshBackups' /\ FilesAreThere' /\ CallIsSafe'
    BY <2>1 DEF Inv, FreshBackups, FilesAreThere, CallIsSafe, First, SafeAt, InBackup, Handled
  <2>. QED
    BY <2>1, <2>2, <2>3, FilesKept DEF Inv
<1>6. CASE Copy \/ Move \/ Write \/ Record \/ MoveBack \/ Restore \/ WriteSwallowed \/ KilledInWrite
  BY <1>6, CopyKeeps, MoveKeeps, WriteKeeps, RecordKeeps, MoveBackKeeps, RestoreKeeps,
     WriteSwallowedKeeps, KilledInWriteKeeps
<1>. QED
  BY <1>1, <1>2, <1>3, <1>4, <1>5, <1>6 DEF Next, Steps

(* What the theorems need of Inv.                                          *)
LEMMA InvIsEnough == Inv => TypeOK /\ NothingLost
<1>. SUFFICES ASSUME Inv, NEW t \in owned PROVE t.content \in Kept
  BY DEF Inv, NothingLost
<1>1. t.content.recording \in Recordings /\ t.content = File(t.content.recording)
  BY DEF Inv, TypeOK, OwnedIsSafe, Versions
<1>2. CASE InBackup(t.content.recording)
  BY <1>1, <1>2 DEF InBackup, Kept
<1>3. CASE \E p \in Places, f \in Files : lib[p][f] = t.content
  BY <1>3 DEF Kept
<1>. QED
  BY <1>2, <1>3 DEF Inv, OwnedIsSafe

(* For every library, every answer of MusicBrainz and any number of calls: *)
(* while importers keep off the places the tools have emptied, every file  *)
(* that was delivered survives in the library or in a backup.              *)
THEOREM NothingIsLost ==
    ASSUME ~ReusesPlaces
    PROVE  Spec => []NothingLost
<1>1. Inv /\ [Next]_vars => Inv'
  BY NextKeeps
<1>. QED
  BY <1>1, InitEstablishes, InvIsEnough, PTL DEF Spec

(* The types, among them that a change_id is handed out once.              *)
THEOREM TypeCorrect ==
    ASSUME ~ReusesPlaces
    PROVE  Spec => []TypeOK
<1>1. Inv /\ [Next]_vars => Inv'
  BY NextKeeps
<1>. QED
  BY <1>1, InitEstablishes, InvIsEnough, PTL DEF Spec

----------------------------------------------------------------------------
(* The unattended sweep                                                    *)

(* Does the album's own id, as far as it is known, agree with the owner of *)
(* its folder?                                                             *)
Owner(p) == IF FolderIdentity(p) # NoMbid THEN FolderIdentity(p) ELSE LookupName(p[1])
Agrees(p) == Owner(p) # NoMbid /\ AlbumIdentity(lib[p]) # NoMbid =>
                 AlbumIdentity(lib[p]) = Owner(p)

(* The artist that a directory is moved to.                                *)
ArtistOf(d) == ArtistName(AlbumIdentity(d), d)

(* A sweep's change is on its way to settling the album: the target suits  *)
(* the folder, the verdict it rests on still holds, and the files written  *)
(* so far say so.                                                          *)
Album == lib[IF call.stage = "copy" THEN call.path ELSE call.new]
OnItsWay ==
    /\ call.target # NoName /\ Related(call.target, call.new[1])
    /\ call.op = "relocate" => ArtistOf(Album) = call.target
    /\ call.op = "set_album_artist" => Agrees(call.path)
    /\ call.op = "set_album_artist" \/ call.stage = "write" =>
          \A f \in Readable(Album) \ call.files : Album[f].albumArtist = call.target

Settling == alone /\ call # Idle /\ call.op # "revert" => OnItsWay

(* What is read off the recordings does not change while they stay.        *)
SameAudio(d, e) ==
    /\ Readable(d) = Readable(e)
    /\ \A f \in Readable(d) : d[f].recording = e[f].recording

LEMMA SameTags ==
    ASSUME NEW d, NEW e, SameAudio(d, e)
    PROVE  /\ AlbumIdentity(d) = AlbumIdentity(e)
           /\ ArtistTags(d) = ArtistTags(e)
           /\ ArtistOf(d) = ArtistOf(e)
<1>1. \A tag : TagOf(d, tag) = TagOf(e, tag)
  <2> TAKE tag
  <2>1. [f \in Files |-> IF f \in Readable(d) THEN tag[d[f].recording] ELSE NoMbid]
        = [f \in Files |-> IF f \in Readable(e) THEN tag[e[f].recording] ELSE NoMbid]
    BY DEF SameAudio
  <2>. QED
    BY <2>1 DEF TagOf
<1>2. AlbumIdentity(d) = AlbumIdentity(e)
  BY <1>1 DEF AlbumIdentity
<1>3. ArtistTags(d) = ArtistTags(e)
  BY DEF SameAudio, ArtistTags
<1>. QED
  BY <1>2, <1>3 DEF ArtistOf, ArtistName

(* The siblings of an album decide the same while they stay.               *)
LEMMA SiblingsSame ==
    ASSUME NEW p \in Places, UNCHANGED failed,
           \A q \in Places : q # p => lib'[q] = lib[q],
           AlbumIdentity(lib'[p]) = AlbumIdentity(lib[p])
    PROVE  Agrees(p)' = Agrees(p)
<1> DEFINE ids == [b \in Bases |->
                     IF b = p[2] THEN NoMbid ELSE AlbumIdentity(lib[<<p[1], b>>])]
<1>1. ids' = ids
  <2>1. \A b \in Bases : b # p[2] => lib'[<<p[1], b>>] = lib[<<p[1], b>>]
    BY DEF Places
  <2>2. \A b \in Bases : b # p[2] =>
            AlbumIdentity(lib'[<<p[1], b>>]) = AlbumIdentity(lib[<<p[1], b>>])
    BY <2>1
  <2>. QED
    BY <2>2
<1>2. FolderIdentity(p)' = FolderIdentity(p)
  BY <1>1 DEF FolderIdentity
<1>3. LookupName(p[1])' = LookupName(p[1])
  BY DEF LookupName
<1>4. (AlbumIdentity(lib[p]))' = AlbumIdentity(lib[p])
  BY DEF AlbumIdentity, TagOf, Readable
<1>. QED
  BY <1>2, <1>3, <1>4 DEF Agrees, Owner

(* _assess retags an album with the name of its folder, and only one that  *)
(* the ids do not give to somebody else.                                   *)
LEMMA RetagVerdict ==
    ASSUME NEW p, Assess(p).action = "retag"
    PROVE  Assess(p).target = p[1] /\ Agrees(p)
<1>1. Leave.action # "retag" /\ \A n : MoveTo(n).action # "retag"
  BY DEF Leave, MoveTo
<1>2. Retag(p[1]).target = p[1]
  BY DEF Retag
<1>. QED
  BY <1>1, <1>2 DEF Assess, Agrees, Owner

(* _assess moves an album to the artist whom its id or its tag names.      *)
LEMMA MoveVerdict ==
    ASSUME NEW p, Assess(p).action = "relocate"
    PROVE  Assess(p).target = ArtistOf(lib[p])
<1>1. Leave.action # "relocate" /\ \A n : Retag(n).action # "relocate"
  BY DEF Leave, Retag
<1>2. \A n : MoveTo(n).target = n
  BY DEF MoveTo
<1>. QED
  BY <1>1, <1>2 DEF Assess, ArtistOf

(* A folder is found to be related to the artist it was named for.         *)
FoldersAreRelated == \A n \in Names : Related(n, SafeArtist[n])

(* What a sweep begins.                                                    *)
LEMMA SweepBegins ==
    ASSUME FoldersAreRelated, Inv, Inv', NEW p \in Places, Begin(p, {NoName}, {FALSE})
    PROVE  Settling'
<1>1. ApplyStart(p, Assess(p), NoName, FALSE) \/ RelocateStart(p, Assess(p), NoName, FALSE)
  BY DEF Begin
<1>2. UNCHANGED <<lib, failed>>
  BY DEF Begin
<1>3. p[1] \in Names /\ p[1] # NoName
  BY ConstantsAssumption DEF Places, Folders
<1>a. \A d : Readable(d) \subseteq AudioFiles(d)
  BY DEF Readable, AudioFiles
<1>4. CASE ApplyStart(p, Assess(p), NoName, FALSE)
  <2>1. Assess(p).action = "retag" /\ ApplyTarget(Assess(p), NoName) = Assess(p).target
    BY <1>4 DEF ApplyStart, MayApply, ApplyTarget, Recommended, Leave
  <2>2. call'.op = "set_album_artist" /\ call'.path = p /\ call'.new = p /\ call'.target = p[1]
        /\ call'.files = AudioFiles(lib[p]) /\ call'.stage = "copy"
    BY <1>4, <2>1, RetagVerdict DEF ApplyStart
  <2>3. Agrees(p)'
    BY <1>2, <2>1, RetagVerdict, SiblingsSame
  <2>4. Related(p[1], p[1])
    BY <1>3 DEF Related
  <2>5. Album' = lib[p] /\ Readable(lib[p]) \ call'.files = {}
    BY <1>2, <1>a, <2>2 DEF Album
  <2>6. Agrees(call.path)'
    BY <2>2, <2>3
  <2>7. Readable(Album)' \ call'.files = {}
    BY <2>5 DEF Readable
  <2>. QED
    BY <1>3, <2>2, <2>4, <2>6, <2>7 DEF Settling, OnItsWay
<1>5. CASE RelocateStart(p, Assess(p), NoName, FALSE)
  <2>1. Assess(p).action = "relocate" /\ Recommended(NoName, Assess(p).target) = Assess(p).target
        /\ Assess(p).target # NoName
    BY <1>5 DEF RelocateStart, MayRelocate, Recommended
  <2>2. call'.op = "relocate" /\ call'.path = p /\ call'.target = Assess(p).target
        /\ call'.new = <<SafeArtist[Assess(p).target], p[2]>> /\ call'.stage = "copy"
    BY <1>5, <2>1 DEF RelocateStart, NewPlace
  <2>3. Related(call'.target, call'.new[1])
    BY <2>1, <2>2, TargetIsName DEF FoldersAreRelated, Inv
  <2>4. ArtistOf(Album)' = call'.target
    <3>1. Album' = lib[p]
      BY <1>2, <2>2 DEF Album
    <3>2. ArtistOf(Album)' = ArtistOf(lib[p])
      BY <1>2, <3>1 DEF ArtistOf, ArtistName, LookupMbid, AlbumIdentity, TagOf, ArtistTags,
                        Readable
    <3>. QED
      BY <2>1, <2>2, <3>2, MoveVerdict
  <2>. QED
    BY <2>1, <2>2, <2>3, <2>4 DEF Settling, OnItsWay
<1>. QED
  BY <1>1, <1>4, <1>5

(* A step that leaves the running change its locals and what is read off   *)
(* its album's recordings.                                                 *)
LEMMA StillOnItsWay ==
    ASSUME Inv, alone, call # Idle, call.op # "revert", OnItsWay, UNCHANGED failed,
           call'.op = call.op, call'.path = call.path, call'.new = call.new,
           call'.target = call.target,
           SameAudio(Album, Album'),
           call.op = "set_album_artist" =>
               Album = lib[call.path] /\ Album' = lib'[call.path]
               /\ \A q \in Places : q # call.path => lib'[q] = lib[q],
           call.op = "set_album_artist" \/ call'.stage = "write" =>
               \A f \in Readable(Album') \ call'.files : Album'[f].albumArtist = call.target
    PROVE  Settling'
<1>1. call.path \in Places
  BY DEF Inv, TypeOK, Calls
<1>2. ArtistOf(Album)' = ArtistOf(Album)
  <2>1. ArtistOf(Album)' = ArtistOf(Album')
    BY DEF ArtistOf, ArtistName, LookupMbid, AlbumIdentity, TagOf, ArtistTags, Readable
  <2>. QED
    BY <2>1, SameTags
<1>3. CASE call.op = "set_album_artist"
  <2>1. AlbumIdentity(lib'[call.path]) = AlbumIdentity(lib[call.path])
    BY <1>3, SameTags
  <2>2. PICK p \in Places : p = call.path
    BY <1>1
  <2>3. Agrees(p)' = Agrees(p)
    BY <1>3, <2>1, <2>2, SiblingsSame
  <2>4. Agrees(p)
    BY <1>3, <2>2 DEF OnItsWay
  <2>5. Agrees(call.path)'
    BY <2>2, <2>3, <2>4
  <2>. QED
    BY <1>3, <2>5 DEF Settling, OnItsWay, Readable
<1>4. CASE call.op # "set_album_artist"
  BY <1>2, <1>4 DEF Settling, OnItsWay, Readable
<1>. QED
  BY <1>3, <1>4

(* The steps of a change.                                                  *)
LEMMA ChangeStepSettles ==
    ASSUME Inv, alone, call # Idle, call.op # "revert", OnItsWay,
           Copy \/ Move \/ Write \/ WriteSwallowed
    PROVE  Settling'
<1>1. /\ call \in Calls /\ call.op \in {"set_album_artist", "relocate"} /\ CallIsSafe
      /\ call.path \in Places /\ call.new \in Places
      /\ call.op = "set_album_artist" => call.new = call.path
  BY DEF Inv, TypeOK, CallIsSafe, Calls, Ops
<1>2. lib \in [Places -> [Files -> Contents]] /\ ConstantsAssumption
  BY ConstantsAssumption DEF Inv, TypeOK
<1>3. \A d : SameAudio(d, d)
  BY DEF SameAudio
<1>4. CASE Copy
  <2>1. call.stage = "copy" /\ UNCHANGED <<lib, failed>> /\ Album = lib[call.path]
    BY <1>4 DEF Copy, Album
  <2>2. /\ call'.op = call.op /\ call'.path = call.path /\ call'.new = call.new
        /\ call'.target = call.target
        /\ call.op = "set_album_artist" => call'.stage = "write" /\ call'.files = call.files
        /\ call.op = "relocate" => call'.stage = "copy"
    BY <1>1, <1>4, <2>1 DEF Copy, Calls
  <2>3. Album' = lib[call.path]
    BY <1>1, <2>1, <2>2 DEF Album
  <2>4. call.op = "set_album_artist" =>
            \A f \in Readable(Album') \ call'.files : Album'[f].albumArtist = call.target
    BY <2>1, <2>2, <2>3 DEF OnItsWay
  <2>. QED
    BY <1>1, <1>3, <2>1, <2>2, <2>3, <2>4, StillOnItsWay
<1>5. CASE Move
  <2>1. /\ call.op = "relocate" /\ call.stage = "copy" /\ UNCHANGED failed
        /\ Album = lib[call.path] /\ call.new # call.path
    BY <1>1, <1>5 DEF Move, Album, CallIsSafe
  <2>2. /\ call'.op = call.op /\ call'.path = call.path /\ call'.new = call.new
        /\ call'.target = call.target /\ call'.stage = "write"
        /\ call'.files = AudioFiles(lib[call.path])
    BY <1>1, <1>5 DEF Move, Calls
  <2>3. Album' = lib[call.path]
    BY <1>1, <1>2, <1>5, <2>1, <2>2 DEF Album, Move
  <2>4. Readable(Album') \ call'.files = {}
    BY <2>2, <2>3 DEF Readable, AudioFiles
  <2>. QED
    BY <1>1, <1>3, <2>1, <2>2, <2>3, <2>4, StillOnItsWay
<1>6. ASSUME call.stage = "write", call' = AfterWrite, UNCHANGED failed
      PROVE  /\ call'.op = call.op /\ call'.path = call.path /\ call'.new = call.new
             /\ call'.target = call.target /\ call'.files = Rest
             /\ Album = lib[call.new] /\ Album' = lib'[call.new]
  <2>1. /\ call'.op = call.op /\ call'.path = call.path /\ call'.new = call.new
        /\ call'.target = call.target /\ call'.files = Rest
        /\ call.op = "relocate" => call'.stage = "write"
    BY <1>1, <1>6 DEF AfterWrite, Calls
  <2>. QED
    BY <1>1, <1>6, <2>1 DEF Album
<1>7. CASE WriteSwallowed
  <2>1. /\ call.stage = "write" /\ call' = AfterWrite /\ UNCHANGED <<lib, failed>>
        /\ call.op = "relocate" /\ lib[call.new][First] = Torn
    BY <1>7 DEF WriteSwallowed
  <2>2. First \notin Readable(lib[call.new])
    BY <2>1 DEF Readable
  <2>3. \A f \in Readable(lib[call.new]) \ Rest : lib[call.new][f].albumArtist = call.target
    BY <1>6, <2>1, <2>2 DEF OnItsWay, Rest
  <2>. QED
    BY <1>1, <1>3, <1>6, <2>1, <2>3, StillOnItsWay
<1>8. CASE Write
  <2>1. /\ call.stage = "write" /\ call.files # {} /\ call' = AfterWrite /\ UNCHANGED failed
        /\ lib[call.new][First] # Torn
        /\ SetFile(call.new, First, Tagged(lib[call.new][First], call.target))
    BY <1>8 DEF Write
  <2>2. First \in Files /\ lib[call.new][First] \in Versions
    BY <1>1, <1>2, <2>1, AtWrite DEF Contents
  <2>3. /\ lib'[call.new] = [lib[call.new] EXCEPT ![First] =
                               Tagged(lib[call.new][First], call.target)]
        /\ \A q \in Places : q # call.new => lib'[q] = lib[q]
    BY <1>1, <1>2, <2>1, <2>2 DEF SetFile
  <2> DEFINE d == lib[call.new]
             e == lib'[call.new]
  <2>4. /\ e[First].recording = d[First].recording /\ e[First].albumArtist = call.target
        /\ e[First] \notin {Absent, Torn}
    <3>1. Tagged(d[First], call.target) \in Versions
      BY <1>1, <2>2 DEF Tagged, Versions, Calls, OnItsWay
    <3>2. e[First] = Tagged(d[First], call.target)
      BY <1>1, <1>2, <2>2, <2>3
    <3>3. Absent \notin Versions /\ Torn \notin Versions
      BY ConstantsAssumption
    <3>4. /\ Tagged(d[First], call.target).recording = d[First].recording
          /\ Tagged(d[First], call.target).albumArtist = call.target
      BY <2>2 DEF Tagged, Versions
    <3>. QED
      BY <3>1, <3>2, <3>3, <3>4
  <2>5. \A f \in Files \ {First} : e[f] = d[f]
    BY <1>1, <1>2, <2>2, <2>3
  <2>6. SameAudio(d, e)
    BY <2>2, <2>4, <2>5, ConstantsAssumption DEF SameAudio, Readable
  <2>7. \A f \in Readable(e) \ Rest : e[f].albumArtist = call.target
    <3>1. \A f \in Readable(d) \ call.files : d[f].albumArtist = call.target
      BY <1>6, <2>1 DEF OnItsWay
    <3>2. Readable(e) = Readable(d) /\ Readable(d) \subseteq Files
      BY <2>6 DEF SameAudio, Readable
    <3>. QED
      BY <2>4, <2>5, <3>1, <3>2 DEF Rest
  <2>. QED
    BY <1>1, <1>6, <2>1, <2>3, <2>6, <2>7, StillOnItsWay
<1>. QED
  BY <1>4, <1>5, <1>7, <1>8

(* Every step keeps it: the agent is left alone only between two calls.    *)
LEMMA SettlingStep ==
    ASSUME FoldersAreRelated, Inv, Inv', Settling, [Next]_vars
    PROVE  Settling'
<1>1. ASSUME call' = Idle \/ ~alone' PROVE Settling'
  BY <1>1 DEF Settling
<1>2. CASE alone /\ Sweep
  BY <1>2, SweepBegins DEF Sweep
<1>3. CASE OnRequest
  <2>1. ~alone'
    BY <1>3 DEF OnRequest, Begin, RevertStart
  <2>. QED
    BY <1>1, <2>1
<1>4. CASE Copy \/ Move \/ Write \/ WriteSwallowed
  <2>1. call # Idle /\ alone' = alone
    BY <1>4 DEF Copy, Move, Write, WriteSwallowed
  <2>2. CASE alone /\ call.op # "revert"
    BY <1>4, <2>1, <2>2, ChangeStepSettles DEF Settling
  <2>3. CASE call.op = "revert"
    <3>1. call'.op = "revert"
      <4>1. call \in Calls /\ call.stage \notin {"copy", "write"}
        BY <2>1, <2>3 DEF Inv, TypeOK, CallIsSafe
      <4>. QED
        BY <1>4, <4>1 DEF Copy, Move, Write, WriteSwallowed
    <3>. QED
      BY <3>1 DEF Settling
  <2>. QED
    BY <1>1, <2>1, <2>2, <2>3
<1>5. CASE MoveBack \/ Restore
  <2>1. call # Idle /\ call \in Calls /\ call.op = "revert"
    BY <1>5 DEF MoveBack, Restore, Inv, TypeOK, CallIsSafe, Calls, Ops
  <2>2. call'.op = "revert"
    BY <1>5, <2>1 DEF MoveBack, Restore, Calls
  <2>. QED
    BY <2>2 DEF Settling
<1>6. CASE Record \/ MustRaise \/ Raises \/ KilledInWrite \/ LeaveAlone
  BY <1>1, <1>6 DEF Record, MustRaise, Raises, KilledInWrite, CutShort, LeaveAlone
<1>7. CASE \E i \in Incoming : Import(i.place, i.album)
  BY <1>1, <1>7 DEF Import
<1>8. CASE UNCHANGED vars
  <2>1. Album' = Album /\ UNCHANGED <<lib, failed, alone, call>>
    BY <1>8 DEF vars, Album
  <2>2. CASE alone /\ call # Idle /\ call.op # "revert"
    <3>1. SameAudio(Album, Album)
      BY DEF SameAudio
    <3>2. call.op = "set_album_artist" => Album = lib[call.path]
      BY <2>2 DEF Album, Inv, CallIsSafe
    <3>3. OnItsWay
      BY <2>2 DEF Settling
    <3>. QED
      BY <2>1, <2>2, <3>1, <3>2, <3>3, StillOnItsWay DEF OnItsWay
  <2>. QED
    BY <2>1, <2>2 DEF Settling
<1>. QED
  BY <1>2, <1>3, <1>4, <1>5, <1>6, <1>7, <1>8 DEF Next, Steps

(* A change that is done has settled its album.                            *)
LEMMA DoneIsSettled ==
    ASSUME Inv, Settling
    PROVE  ChangeSettles
<1> SUFFICES ASSUME alone, Ending, call.op # "revert" PROVE Assess(call.new) = Leave
  BY DEF ChangeSettles
<1>1. /\ call # Idle /\ call.files = {} /\ OnItsWay
      /\ call.op \in {"set_album_artist", "relocate"}
      /\ call.op = "set_album_artist" => call.new = call.path
      /\ call.op = "relocate" => call.stage = "write"
  BY DEF Ending, Settling, Inv, TypeOK, CallIsSafe, Calls, Ops
<1> DEFINE d == lib[call.new]
           content == AlbumIdentity(d)
           aa == Only(AlbumArtistTags(d))
           target == ArtistName(content, d)
<1>2. Album = d
  BY <1>1 DEF Album
<1>3. Related(call.target, call.new[1]) /\ call.target # NoName
  BY <1>1 DEF OnItsWay
<1>4. Readable(d) = {} \/ aa = call.target
  <2>1. \A f \in Readable(d) : d[f].albumArtist = call.target
    BY <1>1, <1>2 DEF OnItsWay
  <2>2. Readable(d) # {} => AlbumArtistTags(d) = {call.target}
    BY <1>3, <2>1 DEF AlbumArtistTags
  <2>3. Cardinality({call.target}) = 1
    BY FS_Singleton
  <2>. QED
    BY <2>2, <2>3 DEF Only
<1>5. Readable(d) = {} => ArtistTags(d) = {} /\ content = NoMbid
  <2> SUFFICES ASSUME Readable(d) = {} PROVE ArtistTags(d) = {} /\ content = NoMbid
    OBVIOUS
  <2>1. \A tag : TagOf(d, tag) = NoMbid
    BY DEF TagOf, Dominant
  <2>. QED
    BY <2>1 DEF AlbumIdentity, ArtistTags
<1>6. call.op = "relocate" => Related(target, call.new[1])
  BY <1>1, <1>2, <1>3 DEF OnItsWay, ArtistOf
<1>7. call.op = "set_album_artist" => Owner(call.new) = NoMbid \/ content = NoMbid
                                        \/ content = Owner(call.new)
  BY <1>1, <1>2 DEF OnItsWay, Agrees
<1>8. content # NoMbid => Related(aa, call.new[1])
  BY <1>3, <1>4, <1>5
<1>9. ArtistTags(d) # {} => Related(aa, call.new[1])
  BY <1>3, <1>4, <1>5
<1>. QED
  BY <1>1, <1>6, <1>7, <1>8, <1>9 DEF Assess, Owner

(* server.py:407-464, 481-587: whatever was done on request before and     *)
(* whatever is filed in the target folder, a change of the unattended      *)
(* sweep leaves its album such that the next assessment leaves it alone,   *)
(* if every folder is recognised as that of the artist it was named for.   *)
THEOREM ChangesSettle ==
    ASSUME ~ReusesPlaces, FoldersAreRelated
    PROVE  Spec => []ChangeSettles
<1>1. Init => Settling
  BY DEF Init, Settling
<1>2. Inv /\ [Next]_vars => Inv'
  BY NextKeeps
<1>3. Inv /\ Inv' /\ Settling /\ [Next]_vars => Settling'
  BY SettlingStep
<1>4. Inv /\ Settling => ChangeSettles
  BY DoneIsSettled
<1>. QED
  BY <1>1, <1>2, <1>3, <1>4, InitEstablishes, PTL DEF Spec

----------------------------------------------------------------------------
(* The way back.  The past of a place can be read off the backups of the   *)
(* changes that are not reverted, as long as no change was cut short and   *)
(* reverts go from the last change to the first.                           *)

(* The changes that the ledger knows, those not yet reverted, and what the *)
(* backups say of the time just before one.                                *)
Entries == {e \in ledger : e.op # "revert"}
Alive == {e \in Entries : Live(e.change)}
Touches(e, p) == p = e.path \/ p = e.new
Before(e, p) == IF p = e.path THEN backups[e.change] ELSE Empty

(* What a place holds, apart from what a running change has done to it.    *)
Current(p) ==
    IF call = Idle \/ call.op = "revert" \/ (p # call.path /\ p # call.new) THEN lib[p]
    ELSE IF p # call.path THEN Empty
    ELSE IF call.op = "relocate" /\ call.stage = "write" THEN backups[call.change]
    ELSE [f \in Files |-> IF f \in call.files THEN lib[p][f] ELSE backups[call.change][f]]

(* What a place held after change n, found again from the first later      *)
(* change of the place that is not reverted, else from the library.        *)
Later(n, p) == {e \in Alive : e.change > n /\ Touches(e, p)}
Lowest(S) == CHOOSE e \in S : \A x \in S : e.change <= x.change
View(n, p) == IF Later(n, p) = {} THEN Current(p) ELSE Before(Lowest(Later(n, p)), p)

(* The importers delivered to p just the files of directory d.             *)
Matches(p, d) ==
    \A t \in [place : {p}, file : Files, content : Contents \ {Absent}] :
        t \in owned <=> d[t.file] = t.content

(* The ledger is a history: one entry for a change, which had a directory  *)
(* to work on.                                                             *)
LedgerInOrder ==
    \A e \in Entries :
        /\ IsDir(backups[e.change])
        /\ e.op = "relocate" <=> e.path # e.new
        /\ \A x \in Entries : x.change = e.change => x = e

(* Before all changes: what the importers delivered.                       *)
StartsDelivered == \A p \in Places : Matches(p, View(0, p))

(* After a change that is not reverted: the same names of files, in one of *)
(* its places; the other one, if there is one, is empty.                   *)
Moved(from, to, names) == from = Empty /\ AudioFiles(to) = names
LeftBy(e, old, new) ==
    LET names == AudioFiles(backups[e.change])
    IN  IF e.path = e.new THEN AudioFiles(old) = names
        ELSE Moved(old, new, names) \/ Moved(new, old, names)
Follows(e) == LeftBy(e, View(e.change, e.path), View(e.change, e.new))
EachFollows == \A e \in Alive : Follows(e)

(* The lowest reverted change may be reverted again: its backups fit what  *)
(* the change below it, t, has left.                                       *)
Grounded(e) == /\ e \in Entries \ Alive
               /\ \A x \in Entries : x.change < e.change => x \in Alive
Under(t, e) == /\ t \in Entries /\ t.change < e.change
               /\ \A x \in Entries : x.change < e.change => x.change <= t.change
Harmless(e) ==
    /\ \A t \in Entries : Under(t, e) /\ Touches(t, e.path) =>
          AudioFiles(backups[t.change]) = AudioFiles(backups[e.change])
    /\ \A p \in {e.path, e.new} :
          \/ \E t \in Entries : Under(t, e) /\ Touches(t, p)
          \/ View(e.change, p) = Before(e, p)
RevertedOnes == \A e \in Entries : Grounded(e) => Harmless(e)

(* What backups and ledger tell of the past.                               *)
Past == LedgerInOrder /\ StartsDelivered /\ EachFollows /\ RevertedOnes

(* How far a running change has got; it is the latest.                     *)
ChangeGoesWell ==
    call # Idle /\ call.op # "revert" =>
        LET p == call.path
            saved == backups[call.change]
        IN  /\ \A e \in ledger : e.change < call.change
            /\ IsDir(Current(p))
            /\ call.op = "set_album_artist" =>
                  /\ AudioFiles(Current(p)) = AudioFiles(lib[p])
                  /\ call.stage = "write" /\ call.files # {} => saved[First] = lib[p][First]
            /\ call.op = "relocate" /\ call.stage = "copy" =>
                  \A f \in Files \ call.files : saved[f] = lib[p][f]
            /\ call.op = "relocate" /\ call.stage = "write" =>
                  AudioFiles(lib[call.new]) = AudioFiles(saved)

(* How far a running revert has got, of the latest live change or of the   *)
(* one reverted last.                                                      *)
Restoring(p, new, files, saved) ==
    /\ p # new => lib[new] = Empty
    /\ AudioFiles(lib[p]) = AudioFiles(saved)
    /\ \A f \in AudioFiles(saved) \ files : lib[p][f] = saved[f]
RevertGoesWell ==
    call # Idle /\ call.op = "revert" =>
        /\ \E e \in Entries : e.change = call.change /\ e.path = call.path /\ e.new = call.new
        /\ FromTheLast(call.change)
        /\ call.stage = "moveBack" =>
              call.path # call.new /\ call.files = AudioFiles(backups[call.change])
        /\ call.files \subseteq AudioFiles(backups[call.change])
        /\ call.stage = "restore" /\ Live(call.change) =>
              Restoring(call.path, call.new, call.files, backups[call.change])

(* The inductive invariant, on top of Inv.                                 *)
RevertInv == orderly => Past /\ ChangeGoesWell /\ RevertGoesWell

----------------------------------------------------------------------------
(* The lowest of some entries is one of them.                              *)
LEMMA LowestIs ==
    ASSUME NEW S, S # {}, \A x \in S : x.change \in Nat
    PROVE  Lowest(S) \in S /\ \A x \in S : Lowest(S).change <= x.change
<1>. DEFINE N == {x.change : x \in S}
<1>1. N \in SUBSET Nat /\ N # {}
  OBVIOUS
<1>2. PICK m \in N : \A k \in N : m <= k
  BY <1>1, LeastNumber
<1>3. PICK e \in S : e.change = m
  OBVIOUS
<1>4. \A x \in S : e.change <= x.change
  BY <1>2, <1>3
<1>. QED
  BY <1>4 DEF Lowest

(* Entries have numbers and places.                                        *)
LEMMA EntryTypes ==
    ASSUME TypeOK, NEW e \in Entries
    PROVE  e \in ledger /\ e.change \in Changes /\ e.change \in Nat /\ e.path \in Places /\ e.new \in Places
           /\ e.change > 0
  BY ConstantsAssumption DEF TypeOK, Entries, Changes

(* A view of a time after which no live change touched the place.          *)
LEMMA ViewNow ==
    ASSUME NEW n, NEW p, Later(n, p) = {}
    PROVE  View(n, p) = Current(p)
  BY DEF View

(* How to recognise the lowest of entries that differ in their change.     *)
LEMMA LowestOf ==
    ASSUME NEW S, \A x \in S : x.change \in Nat, \A x, y \in S : x.change = y.change => x = y,
           NEW e \in S, \A x \in S : e.change <= x.change
    PROVE  Lowest(S) = e
<1>1. S # {}
  OBVIOUS
<1>2. Lowest(S) \in S /\ Lowest(S).change <= e.change
  BY <1>1, LowestIs
<1>3. Lowest(S).change = e.change
  BY <1>2
<1>. QED
  BY <1>2, <1>3

(* A view of a time after which e is the first live change of the place.   *)
LEMMA ViewBefore ==
    ASSUME TypeOK, LedgerInOrder, NEW n, NEW p, NEW e \in Later(n, p),
           \A x \in Later(n, p) : e.change <= x.change
    PROVE  View(n, p) = Before(e, p)
<1>. DEFINE S == Later(n, p)
<1>1. S \subseteq Entries /\ S # {}
  BY DEF Later, Alive
<1>2. \A x \in S : x.change \in Nat
  BY <1>1, EntryTypes
<1>3. \A x, y \in S : x.change = y.change => x = y
  BY <1>1 DEF LedgerInOrder
<1>4. Lowest(S) = e
  BY <1>2, <1>3, LowestOf
<1>. QED
  BY <1>1, <1>4 DEF View

(* As long as the ledger is the same, so is what it says.                  *)
LEMMA LedgerSame ==
    ASSUME UNCHANGED ledger
    PROVE  /\ Entries' = Entries /\ Alive' = Alive
           /\ \A c : Live(c)' <=> Live(c)
           /\ \A c : FromTheLast(c)' <=> FromTheLast(c)
<1>1. Entries' = Entries /\ \A c : Live(c)' <=> Live(c)
  BY DEF Entries, Live
<1>2. Alive' = Alive
  BY <1>1 DEF Alive
<1>. QED
  BY <1>1, <1>2 DEF FromTheLast

(* A view stays the same when neither its backups nor the changes after it *)
(* nor, if there are none, the library changes.                            *)
LEMMA ViewSame ==
    ASSUME TypeOK, Entries' = Entries, \A e \in Entries : backups'[e.change] = backups[e.change],
           NEW n, NEW p, Later(n, p)' = Later(n, p),
           Later(n, p) = {} => Current(p)' = Current(p)
    PROVE  View(n, p)' = View(n, p)
<1>. DEFINE S == Later(n, p)
<1>1. S' = S
  OBVIOUS
<1>2. CASE S = {}
  BY <1>1, <1>2 DEF View
<1>3. CASE S # {}
  <2>1. S \subseteq Entries
    BY DEF Later, Alive
  <2>2. \A x \in S : x.change \in Nat
    BY <2>1, EntryTypes
  <2>3. Lowest(S) \in Entries
    BY <1>3, <2>1, <2>2, LowestIs
  <2>4. ASSUME NEW e \in Entries PROVE Before(e, p)' = Before(e, p)
    BY DEF Before
  <2>. QED
    BY <1>1, <1>3, <2>3, <2>4 DEF View, Lowest
<1>. QED
  BY <1>2, <1>3

(* What is said of a change stays true while the views of it are the same. *)
LEMMA FollowsSame ==
    ASSUME NEW e, Follows(e), backups'[e.change] = backups[e.change],
           \A p \in {e.path, e.new} : View(e.change, p)' = View(e.change, p)
    PROVE  Follows(e)'
  BY DEF Follows, LeftBy, Moved

(* So does what is said of the lowest reverted change.                     *)
LEMMA HarmlessSame ==
    ASSUME NEW e \in Entries, Harmless(e),
           \A t : t \in Entries' /\ Under(t, e)' <=> t \in Entries /\ Under(t, e),
           \A t \in Entries : backups'[t.change] = backups[t.change],
           \A p \in {e.path, e.new} :
              \/ \E t \in Entries : Under(t, e) /\ Touches(t, p)
              \/ View(e.change, p)' = View(e.change, p)
    PROVE  Harmless(e)'
<1>1. \A p : Before(e, p)' = Before(e, p)
  BY DEF Before
<1>. QED
  BY <1>1 DEF Harmless, Touches

(* A step that shows in no view keeps the whole past.                      *)
LEMMA PastSame ==
    ASSUME TypeOK, Past, Entries' = Entries, Alive' = Alive, UNCHANGED owned,
           \A e \in Entries : backups'[e.change] = backups[e.change],
           \A p \in Places : Current(p)' = Current(p)
    PROVE  Past'
<1>1. ASSUME NEW n, NEW p \in Places PROVE View(n, p)' = View(n, p)
  <2>1. Later(n, p)' = Later(n, p)
    BY DEF Later, Touches
  <2>. QED
    BY <2>1, ViewSame
<1>2. LedgerInOrder'
  BY DEF Past, LedgerInOrder
<1>3. StartsDelivered'
  BY <1>1 DEF Past, StartsDelivered, Matches
<1>4. EachFollows'
  <2>. SUFFICES ASSUME NEW e \in Alive PROVE Follows(e)'
    BY DEF EachFollows
  <2>1. e \in Entries /\ e.path \in Places /\ e.new \in Places
    BY EntryTypes DEF Alive
  <2>2. Follows(e)
    BY DEF Past, EachFollows
  <2>. QED
    BY <1>1, <2>1, <2>2, FollowsSame
<1>5. RevertedOnes'
  <2>. SUFFICES ASSUME NEW e \in Entries, Grounded(e) PROVE Harmless(e)'
    BY DEF RevertedOnes, Grounded
  <2>1. e.path \in Places /\ e.new \in Places
    BY EntryTypes
  <2>2. Harmless(e)
    BY DEF Past, RevertedOnes
  <2>3. \A p \in {e.path, e.new} : View(e.change, p)' = View(e.change, p)
    BY <1>1, <2>1
  <2>4. \A t : Under(t, e)' <=> Under(t, e)
    BY DEF Under
  <2>. QED
    BY <2>2, <2>3, <2>4, HarmlessSame
<1>. QED
  BY <1>2, <1>3, <1>4, <1>5 DEF Past

----------------------------------------------------------------------------
(* Where no change is running, or a revert, the library is what it is.     *)
LEMMA CurrentIsLib ==
    ASSUME NEW p, call = Idle \/ call.op = "revert" \/ (p # call.path /\ p # call.new)
    PROVE  Current(p) = lib[p]
  BY DEF Current

(* A step within a change that does not show in what its directory was.    *)
LEMMA ChangeStep ==
    ASSUME Inv, Past, call # Idle, call.op # "revert", call' # Idle, call'.op # "revert",
           \A e \in ledger : e.change < call.change,
           UNCHANGED <<ledger, owned>>,
           \A c \in Changes : c # call.change => backups'[c] = backups[c],
           \A q \in Places : q # call.path /\ q # call.new => lib'[q] = lib[q],
           NEW path, path = call.path, path = call'.path, call'.new = call.new,
           Current(path)' = Current(path)
    PROVE  Past'
<1>1. TypeOK
  BY DEF Inv
<1>2. \A e \in Entries : backups'[e.change] = backups[e.change]
  <2>. SUFFICES ASSUME NEW e \in Entries PROVE backups'[e.change] = backups[e.change]
    OBVIOUS
  <2>1. e \in ledger /\ e.change \in Nat /\ e.change \in Changes
    BY <1>1, EntryTypes
  <2>2. e.change < call.change
    BY <2>1
  <2>3. call.change \in Changes
    BY <1>1 DEF TypeOK, Calls
  <2>4. call.change # e.change
    BY <2>1, <2>2, <2>3 DEF Changes
  <2>. QED
    BY <2>1, <2>4
<1>3. \A p \in Places : Current(p)' = Current(p)
  <2>. SUFFICES ASSUME NEW p \in Places PROVE Current(p)' = Current(p)
    OBVIOUS
  <2>1. CASE p = path
    BY <2>1
  <2>2. CASE p # path /\ p = call.new
    BY <2>2 DEF Current
  <2>3. CASE p # path /\ p # call.new
    BY <2>3 DEF Current
  <2>. QED
    BY <2>1, <2>2, <2>3
<1>. QED
  BY <1>1, <1>2, <1>3, PastSame, LedgerSame

(* A call that begins finds a directory, of which it has no backup yet.    *)
LEMMA BeginGoesWell ==
    ASSUME Inv, Past, NEW p \in Places, NEW given \in SUBSET (Names \cup {NoName}),
           NEW confirmed, next \in Changes, Begin(p, given, confirmed)
    PROVE  Past' /\ ChangeGoesWell' /\ RevertGoesWell'
<1>1. PICK g \in given, c \in confirmed :
         ApplyStart(p, Assess(p), g, c) \/ RelocateStart(p, Assess(p), g, c)
  BY DEF Begin
<1>2. call = Idle /\ IsDir(lib[p]) /\ UNCHANGED <<lib, backups, ledger, owned>>
  BY DEF Begin
<1>3. \A f \in Files : backups[next][f] = Absent
  BY DEF Inv, FreshBackups, Empty, TypeOK, Changes
<1>4. PICK to :
         /\ call' # Idle /\ call'.op \in {"set_album_artist", "relocate"} /\ call'.stage = "copy"
         /\ call'.path = p /\ call'.new = to /\ call'.change = next
         /\ call'.files = AudioFiles(lib[p])
         /\ to # p => lib[to] = Empty
  <2>1. CASE ApplyStart(p, Assess(p), g, c)
    BY <2>1 DEF ApplyStart, Idle
  <2>2. CASE RelocateStart(p, Assess(p), g, c)
    <3>. DEFINE n == Recommended(g, Assess(p).target)
    <3>1. ~IsDir(lib[NewPlace(p, n)])
      BY <2>2 DEF RelocateStart, MayRelocate
    <3>2. call' = [op |-> "relocate", path |-> p, new |-> NewPlace(p, n),
                    target |-> n, change |-> next, files |-> AudioFiles(lib[p]), stage |-> "copy"]
      BY <2>2 DEF RelocateStart
    <3>. HIDE DEF n
    <3>. QED
      BY <3>1, <3>2 DEF IsDir, Idle
  <2>. QED
    BY <1>1, <2>1, <2>2
<1>5. /\ lib[p] = [f \in Files |-> lib[p][f]]
      /\ \A f \in Files : f \notin AudioFiles(lib[p]) => lib[p][f] = Absent
  BY DEF Inv, TypeOK, AudioFiles
<1>6. Current(p)' = lib[p]
  BY <1>2, <1>3, <1>4, <1>5 DEF Current
<1>7. \A q \in Places : Current(q)' = Current(q)
  <2>. SUFFICES ASSUME NEW q \in Places PROVE Current(q)' = Current(q)
    OBVIOUS
  <2>1. Current(q) = lib[q]
    BY <1>2 DEF Current
  <2>2. CASE q = p
    BY <1>6, <2>1, <2>2
  <2>3. CASE q # p /\ q = to
    BY <1>4, <2>1, <2>3 DEF Current
  <2>4. CASE q # p /\ q # to
    BY <1>2, <1>4, <2>1, <2>4 DEF Current
  <2>. QED
    BY <2>2, <2>3, <2>4
<1>8. Past'
  BY <1>2, <1>7, PastSame, LedgerSame DEF Inv
<1>9. ChangeGoesWell'
  <2>1. \A e \in ledger : e.change < next
    BY DEF Inv, TypeOK
  <2>2. \A f \in Files \ AudioFiles(lib[p]) : backups[next][f] = lib[p][f]
    BY <1>3, <1>5
  <2>. QED
    BY <1>2, <1>4, <1>6, <2>1, <2>2 DEF ChangeGoesWell
<1>10. RevertGoesWell'
  BY <1>4 DEF RevertGoesWell
<1>. QED
  BY <1>8, <1>9, <1>10

(* The locals of a running change.                                         *)
LEMMA InChange ==
    ASSUME Inv, call # Idle, call.op # "revert"
    PROVE  /\ call \in Calls /\ call.op \in {"set_album_artist", "relocate"}
           /\ call.path \in Places /\ call.new \in Places /\ call.change \in Changes
           /\ call.files \in SUBSET Files /\ call.stage \in {"copy", "write"}
           /\ call.op = "relocate" <=> call.path # call.new
           /\ lib[call.path] = [f \in Files |-> lib[call.path][f]]
           /\ lib[call.new] = [f \in Files |-> lib[call.new][f]]
           /\ backups[call.change] = [f \in Files |-> backups[call.change][f]]
<1>1. call \in Calls
  BY DEF Inv, TypeOK
<1>2. call.op \in {"set_album_artist", "relocate"}
  BY <1>1 DEF Calls, Ops
<1>3. /\ call.path \in Places /\ call.new \in Places /\ call.change \in Changes
      /\ call.files \in SUBSET Files
  BY <1>1 DEF Calls
<1>4. call.stage \in {"copy", "write"} /\ (call.op = "relocate" <=> call.path # call.new)
  BY <1>2 DEF Inv, CallIsSafe
<1>5. /\ lib[call.path] = [f \in Files |-> lib[call.path][f]]
      /\ lib[call.new] = [f \in Files |-> lib[call.new][f]]
      /\ backups[call.change] = [f \in Files |-> backups[call.change][f]]
  BY <1>3 DEF Inv, TypeOK
<1>. QED
  BY <1>1, <1>2, <1>3, <1>4, <1>5

(* Before its move, a relocation and a retag look at the files to come.    *)
LEMMA CopyGoesWell ==
    ASSUME Inv, Past, ChangeGoesWell, Copy
    PROVE  Past' /\ ChangeGoesWell' /\ RevertGoesWell'
<1>1. call # Idle /\ call.stage = "copy" /\ call.files # {} /\ call.op # "revert"
  BY DEF Copy, Inv, CallIsSafe
<1>. SUFFICES ASSUME NEW f, f = First, NEW fs, fs = call.files, NEW path, path = call.path,
                     NEW to, to = call.new, NEW chg, chg = call.change
              PROVE  Past' /\ ChangeGoesWell' /\ RevertGoesWell'
  OBVIOUS
<1>2. /\ call \in Calls /\ call.op \in {"set_album_artist", "relocate"}
      /\ path \in Places /\ to \in Places /\ chg \in Changes /\ fs \in SUBSET Files
      /\ call.op = "relocate" <=> path # to
  BY <1>1, InChange
<1>3. f \in fs /\ f \in Files
  BY <1>1, FirstIsOne DEF Inv
<1>4. backups' = [backups EXCEPT ![chg][f] = lib[path][f]] /\ UNCHANGED <<lib, ledger, owned>>
  BY DEF Copy, SetBackup
<1>5. /\ \A g \in Files : backups'[chg][g] = IF g = f THEN lib[path][f] ELSE backups[chg][g]
      /\ \A c \in Changes : c # chg => backups'[c] = backups[c]
  BY <1>2, <1>3, <1>4 DEF Inv, TypeOK
<1>6. Current(path) = [g \in Files |-> IF g \in fs THEN lib[path][g] ELSE backups[chg][g]]
  BY <1>1 DEF Current
<1>7. ASSUME Current(path)' = Current(path), call' # Idle, call'.op # "revert",
             call'.path = path, call'.new = to
      PROVE  Past'
  BY <1>1, <1>2, <1>4, <1>5, <1>7, ChangeStep DEF ChangeGoesWell
<1>8. CASE call.op = "set_album_artist"
  <2>1. call' = [call EXCEPT !.stage = "write"]
    BY <1>8 DEF Copy
  <2>2. /\ call'.op = "set_album_artist" /\ call'.stage = "write" /\ call'.files = fs
        /\ call'.path = path /\ call'.new = to /\ call'.change = chg /\ call' # Idle
    BY <1>2, <1>8, <2>1 DEF Calls, Idle
  <2>3. Current(path)' = Current(path) /\ First' = f
    <3>1. First' = f
      BY <2>2 DEF First
    <3>2. Current(path)' = [g \in Files |-> IF g \in fs THEN lib'[path][g] ELSE backups'[chg][g]]
      BY <2>2 DEF Current
    <3>. QED
      BY <1>3, <1>4, <1>5, <1>6, <3>1, <3>2
  <2>4. ChangeGoesWell'
    BY <1>1, <1>3, <1>4, <1>5, <1>8, <2>2, <2>3 DEF ChangeGoesWell
  <2>. QED
    BY <1>7, <2>2, <2>3, <2>4 DEF RevertGoesWell
<1>9. CASE call.op = "relocate"
  <2>1. call' = [call EXCEPT !.files = fs \ {f}]
    BY <1>9 DEF Copy, Rest
  <2>2. /\ call'.op = "relocate" /\ call'.stage = "copy" /\ call'.files = fs \ {f}
        /\ call'.path = path /\ call'.new = to /\ call'.change = chg /\ call' # Idle
    BY <1>1, <1>2, <1>9, <2>1 DEF Calls, Idle
  <2>3. Current(path)' = Current(path)
    BY <1>3, <1>4, <1>5, <1>6, <2>2 DEF Current
  <2>4. ChangeGoesWell'
    BY <1>1, <1>3, <1>4, <1>5, <1>9, <2>2, <2>3 DEF ChangeGoesWell
  <2>. QED
    BY <1>7, <2>2, <2>3, <2>4 DEF RevertGoesWell
<1>. QED
  BY <1>2, <1>8, <1>9

(* The move of relocate: all files are in the backup by now.               *)
LEMMA MoveGoesWell ==
    ASSUME Inv, Past, ChangeGoesWell, Move
    PROVE  Past' /\ ChangeGoesWell' /\ RevertGoesWell'
<1>1. call # Idle /\ call.stage = "copy" /\ call.files = {} /\ call.op = "relocate"
  BY DEF Move
<1>. SUFFICES ASSUME NEW path, path = call.path, NEW to, to = call.new, NEW chg, chg = call.change
              PROVE  Past' /\ ChangeGoesWell' /\ RevertGoesWell'
  OBVIOUS
<1>2. /\ call \in Calls /\ path \in Places /\ to \in Places /\ chg \in Changes /\ path # to
      /\ lib[path] = [f \in Files |-> lib[path][f]]
      /\ backups[chg] = [f \in Files |-> backups[chg][f]]
  BY <1>1, InChange
<1>3. lib' = [lib EXCEPT ![to] = lib[path], ![path] = Empty]
      /\ call' = [call EXCEPT !.stage = "write", !.files = AudioFiles(lib[path])]
      /\ UNCHANGED <<backups, ledger, owned>>
  BY DEF Move
<1>4. lib'[to] = lib[path] /\ \A q \in Places : q # path /\ q # to => lib'[q] = lib[q]
  BY <1>2, <1>3 DEF Inv, TypeOK
<1>5. backups[chg] = lib[path]
  <2>1. \A f \in Files : backups[chg][f] = lib[path][f]
    BY <1>1 DEF ChangeGoesWell
  <2>. QED
    BY <1>2, <2>1
<1>6. Current(path) = backups[chg]
  <2>1. Current(path) = [f \in Files |-> backups[chg][f]]
    BY <1>1 DEF Current
  <2>. QED
    BY <1>2, <2>1
<1>7. /\ call'.op = "relocate" /\ call'.stage = "write"
      /\ call'.path = path /\ call'.new = to /\ call'.change = chg /\ call' # Idle
  BY <1>1, <1>2, <1>3 DEF Calls, Idle
<1>8. Current(path)' = Current(path)
  BY <1>3, <1>6, <1>7 DEF Current
<1>9. Past'
  BY <1>1, <1>2, <1>3, <1>4, <1>7, <1>8, ChangeStep DEF ChangeGoesWell
<1>10. ChangeGoesWell'
  BY <1>1, <1>3, <1>4, <1>5, <1>7, <1>8 DEF ChangeGoesWell
<1>. QED
  BY <1>7, <1>9, <1>10 DEF RevertGoesWell

(* A step to the next file of a write loop: the file stays a file.         *)
LEMMA AfterWriteGoesWell ==
    ASSUME Inv, Past, ChangeGoesWell,
           call # Idle, call.stage = "write", call.files # {}, call' = AfterWrite,
           UNCHANGED <<backups, ledger, owned>>,
           NEW v, v # Absent, lib' = [lib EXCEPT ![call.new][First] = v]
    PROVE  Past' /\ ChangeGoesWell' /\ RevertGoesWell'
<1>1. call.op # "revert" /\ First \in call.files /\ First \in Files /\ lib[call.new][First] # Absent
  BY AtWrite
<1>. SUFFICES ASSUME NEW f, f = First, NEW fs, fs = call.files, NEW path, path = call.path,
                     NEW to, to = call.new, NEW chg, chg = call.change
              PROVE  Past' /\ ChangeGoesWell' /\ RevertGoesWell'
  OBVIOUS
<1>2. /\ call \in Calls /\ call.op \in {"set_album_artist", "relocate"}
      /\ path \in Places /\ to \in Places /\ chg \in Changes /\ fs \in SUBSET Files
      /\ call.op = "relocate" <=> path # to
  BY <1>1, InChange
<1>3. /\ \A g \in Files : lib'[to][g] = IF g = f THEN v ELSE lib[to][g]
      /\ \A q \in Places : q # to => lib'[q] = lib[q]
  BY <1>1, <1>2 DEF Inv, TypeOK
<1>4. AudioFiles(lib'[to]) = AudioFiles(lib[to])
  BY <1>1, <1>3 DEF AudioFiles
<1>5. ASSUME Current(path)' = Current(path), call' # Idle, call'.op # "revert",
             call'.path = path, call'.new = to
      PROVE  Past'
  BY <1>1, <1>2, <1>3, <1>5, ChangeStep DEF ChangeGoesWell
<1>6. CASE call.op = "set_album_artist"
  <2>1. call' = [call EXCEPT !.files = fs \ {f}, !.stage = "copy"]
    BY <1>6 DEF AfterWrite, Rest
  <2>2. /\ call'.op = "set_album_artist" /\ call'.stage = "copy" /\ call'.files = fs \ {f}
        /\ call'.path = path /\ call'.new = to /\ call'.change = chg /\ call' # Idle
    BY <1>2, <1>6, <2>1 DEF Calls, Idle
  <2>3. path = to /\ backups[chg][f] = lib[path][f]
    BY <1>2, <1>6 DEF ChangeGoesWell
  <2>4. Current(path) = [g \in Files |-> IF g \in fs THEN lib[path][g] ELSE backups[chg][g]]
    BY <1>1, <1>6 DEF Current
  <2>5. Current(path)' = [g \in Files |-> IF g \in fs \ {f} THEN lib'[path][g] ELSE backups[chg][g]]
    BY <2>2 DEF Current
  <2>6. Current(path)' = Current(path)
    BY <1>1, <1>3, <2>3, <2>4, <2>5
  <2>7. ChangeGoesWell'
    BY <1>1, <1>4, <1>6, <2>2, <2>3, <2>6 DEF ChangeGoesWell
  <2>. QED
    BY <1>5, <2>2, <2>6, <2>7 DEF RevertGoesWell
<1>7. CASE call.op = "relocate"
  <2>1. call' = [call EXCEPT !.files = fs \ {f}]
    BY <1>7 DEF AfterWrite, Rest
  <2>2. /\ call'.op = "relocate" /\ call'.stage = "write"
        /\ call'.path = path /\ call'.new = to /\ call'.change = chg /\ call' # Idle
    BY <1>2, <1>7, <2>1 DEF Calls, Idle
  <2>3. Current(path) = backups[chg] /\ Current(path)' = backups[chg]
    BY <1>7, <2>2 DEF Current
  <2>4. ChangeGoesWell'
    BY <1>1, <1>4, <1>7, <2>2, <2>3 DEF ChangeGoesWell
  <2>. QED
    BY <1>5, <2>2, <2>3, <2>4 DEF RevertGoesWell
<1>. QED
  BY <1>2, <1>6, <1>7

(* The two ways to that step.                                              *)
LEMMA WriteGoesWell ==
    ASSUME Inv, Past, ChangeGoesWell, Write \/ WriteSwallowed
    PROVE  Past' /\ ChangeGoesWell' /\ RevertGoesWell'
<1>1. /\ call # Idle /\ call.stage = "write" /\ call.files # {} /\ call' = AfterWrite
      /\ UNCHANGED <<backups, ledger, owned>>
  BY DEF Write, WriteSwallowed
<1>2. /\ call \in Calls /\ First \in Files /\ lib[call.new][First] # Absent
  BY <1>1, AtWrite
<1>. SUFFICES ASSUME NEW f \in Files, f = First, NEW p \in Places, p = call.new,
                     NEW n \in Names \cup {NoName}, n = call.target
              PROVE  Past' /\ ChangeGoesWell' /\ RevertGoesWell'
  BY <1>2 DEF Calls
<1>3. CASE Write
  <2>1. lib[p][f] \in Versions
    BY <1>2, <1>3 DEF Inv, TypeOK, Contents, Write
  <2>. DEFINE v == Tagged(lib[p][f], n)
  <2>2. v \in Versions
    BY <2>1 DEF Tagged, Versions
  <2>3. v # Absent
    BY <2>2, ConstantsAssumption
  <2>4. lib' = [lib EXCEPT ![call.new][First] = v]
    BY <1>3 DEF Write, SetFile
  <2>. HIDE DEF v
  <2>. QED
    BY <1>1, <2>3, <2>4, AfterWriteGoesWell
<1>4. CASE WriteSwallowed
  <2>. DEFINE v == lib[p][f]
  <2>1. v # Absent
    BY <1>2
  <2>2. lib' = [lib EXCEPT ![call.new][First] = v]
    BY <1>4 DEF WriteSwallowed, Inv, TypeOK
  <2>. HIDE DEF v
  <2>. QED
    BY <1>1, <2>1, <2>2, AfterWriteGoesWell
<1>. QED
  BY <1>3, <1>4

----------------------------------------------------------------------------
(* A call that is gone has nothing left to say.                            *)
LEMMA NothingRuns ==
    ASSUME call' = Idle
    PROVE  ChangeGoesWell' /\ RevertGoesWell'
  BY DEF ChangeGoesWell, RevertGoesWell

(* A change that is cut short before it touched a file.                    *)
LEMMA CutGoesWell ==
    ASSUME Inv, Past, ChangeGoesWell, call # Idle, Untouched,
           call' = Idle, UNCHANGED <<lib, ledger, owned>>,
           \A c \in Changes : (call.op # "revert" => c # call.change) => backups'[c] = backups[c]
    PROVE  Past'
<1>1. \A e \in Entries : backups'[e.change] = backups[e.change]
  <2>. SUFFICES ASSUME NEW e \in Entries PROVE backups'[e.change] = backups[e.change]
    OBVIOUS
  <2>1. e \in ledger /\ e.change \in Nat /\ e.change \in Changes
    BY EntryTypes DEF Inv
  <2>2. CASE call.op = "revert"
    BY <2>1, <2>2
  <2>3. CASE call.op # "revert"
    <3>1. e.change < call.change
      BY <2>1, <2>3 DEF ChangeGoesWell
    <3>2. call.change \in Changes
      BY <2>3, InChange
    <3>3. e.change # call.change
      BY <2>1, <3>1, <3>2 DEF Changes
    <3>. QED
      BY <2>1, <3>3
  <2>. QED
    BY <2>2, <2>3
<1>2. ASSUME NEW p \in Places PROVE Current(p) = lib[p]
  <2>1. CASE call.op = "revert" \/ (p # call.path /\ p # call.new)
    BY <2>1, CurrentIsLib
  <2>2. CASE call.op = "relocate" /\ p = call.new /\ p # call.path
    <3>1. call.stage = "copy"
      BY <2>2 DEF Untouched
    <3>2. lib[p] = Empty
      BY <2>2, <3>1 DEF Inv, CallIsSafe
    <3>. QED
      BY <2>2, <3>2 DEF Current
  <2>3. CASE call.op # "revert" /\ p = call.path
    <3>. DEFINE saved == backups[call.change]
    <3>1. /\ lib[p] = [f \in Files |-> lib[p][f]] /\ call.op \in {"set_album_artist", "relocate"}
      BY <2>3, InChange
    <3>2. Current(p) = [f \in Files |-> IF f \in call.files THEN lib[p][f] ELSE saved[f]]
      BY <2>3, <3>1 DEF Current, Untouched
    <3>3. ASSUME NEW f \in Files, f \notin call.files PROVE saved[f] = lib[p][f]
      <4>1. CASE call.op = "relocate"
        BY <2>3, <3>3, <4>1 DEF Untouched, ChangeGoesWell
      <4>2. CASE call.op = "set_album_artist"
        <5>1. call.files = AudioFiles(lib[p]) /\ AudioFiles(Current(p)) = AudioFiles(lib[p])
          BY <2>3, <4>2 DEF Untouched, ChangeGoesWell
        <5>2. lib[p][f] = Absent /\ Current(p)[f] = Absent
          BY <3>3, <5>1 DEF AudioFiles
        <5>. QED
          BY <3>2, <3>3, <5>2
      <4>. QED
        BY <3>1, <4>1, <4>2
    <3>. QED
      BY <3>1, <3>2, <3>3
  <2>4. call.op # "revert" => (call.op = "relocate" <=> call.path # call.new)
    BY InChange
  <2>. QED
    BY <2>1, <2>2, <2>3, <2>4
<1>3. \A p \in Places : Current(p)' = Current(p)
  BY <1>2 DEF Current
<1>. QED
  BY <1>1, <1>3, PastSame, LedgerSame DEF Inv

(* An operation raises.                                                    *)
LEMMA RaisesGoesWell ==
    ASSUME Inv, RevertInv, CutShort(Untouched), UNCHANGED <<lib, backups>>, orderly', call # Idle
    PROVE  Past' /\ ChangeGoesWell' /\ RevertGoesWell'
<1>1. Past /\ ChangeGoesWell /\ Untouched
  BY DEF CutShort, RevertInv
<1>. QED
  BY <1>1, CutGoesWell, NothingRuns DEF CutShort

(* A revert that begins.                                                   *)
LEMMA RevertStartGoesWell ==
    ASSUME Inv, Past, NEW e \in ledger, RevertStart(e), orderly'
    PROVE  Past' /\ ChangeGoesWell' /\ RevertGoesWell'
<1>. DEFINE fs == {f \in Files : backups[e.change][f] # Absent}
            st == IF e.op = "relocate" THEN "moveBack" ELSE "restore"
<1>1. call = Idle /\ e.op # "revert" /\ UNCHANGED <<lib, backups, ledger, owned>> /\ FromTheLast(e.change)
  BY DEF RevertStart
<1>2. call' = [op |-> "revert", path |-> e.path, new |-> e.new, target |-> NoName,
               change |-> e.change, files |-> fs, stage |-> st]
  BY DEF RevertStart
<1>3. fs = AudioFiles(backups[e.change]) /\ e \in Entries /\ st \in {"moveBack", "restore"}
      /\ (st = "moveBack" <=> e.op = "relocate")
  BY <1>1 DEF AudioFiles, Entries
<1>. HIDE DEF fs, st
<1>4. /\ call'.op = "revert" /\ call'.path = e.path /\ call'.new = e.new /\ call' # Idle
      /\ call'.change = e.change /\ call'.files = fs /\ call'.stage = st
  BY <1>2 DEF Idle
<1>5. \A p \in Places : Current(p)' = Current(p)
  BY <1>1, <1>4 DEF Current
<1>6. Past'
  BY <1>1, <1>5, PastSame, LedgerSame DEF Inv
<1>7. e.op = "relocate" <=> e.path # e.new
  BY <1>3 DEF Past, LedgerInOrder
<1>8. ASSUME st = "restore", Live(e.change)
      PROVE  Restoring(e.path, e.new, fs, backups[e.change])
  <2>1. e \in Alive /\ e.path = e.new /\ e.path \in Places
    BY <1>3, <1>7, <1>8, EntryTypes DEF Alive, Inv
  <2>2. Later(e.change, e.path) = {}
    <3>. SUFFICES ASSUME NEW x \in Alive, x.change > e.change PROVE FALSE
      BY DEF Later
    <3>1. x.change \in Changes /\ Live(x.change)
      BY EntryTypes DEF Alive, Inv
    <3>. QED
      BY <1>1, <3>1 DEF FromTheLast
  <2>3. View(e.change, e.path) = lib[e.path]
    BY <1>1, <2>2, ViewNow, CurrentIsLib
  <2>4. AudioFiles(lib[e.path]) = AudioFiles(backups[e.change])
    BY <2>1, <2>3 DEF Past, EachFollows, Follows, LeftBy
  <2>. QED
    BY <1>3, <2>1, <2>4 DEF Restoring
<1>9. RevertGoesWell'
  <2>1. (\A c : Live(c)' <=> Live(c)) /\ (\A c : FromTheLast(c)' <=> FromTheLast(c)) /\ Entries' = Entries
    BY <1>1, LedgerSame
  <2>2. FromTheLast(e.change)' /\ (Live(e.change)' <=> Live(e.change))
    BY <1>1, <2>1
  <2>3. FromTheLast(call.change)' /\ (Live(call.change)' <=> Live(e.change))
    BY <1>4, <2>2 DEF FromTheLast, Live
  <2>4. call'.stage = "restore" /\ Live(call.change)' =>
           Restoring(call.path, call.new, call.files, backups[call.change])'
    BY <1>1, <1>4, <1>8, <2>3 DEF Restoring
  <2>. QED
    BY <1>1, <1>3, <1>4, <1>7, <2>1, <2>3, <2>4 DEF RevertGoesWell
<1>. QED
  BY <1>4, <1>6, <1>9 DEF ChangeGoesWell

----------------------------------------------------------------------------
(* The ledger gets the entry of a change: from now on the views of the     *)
(* time before it come from its backups.                                   *)
LEMMA RecordChangeGoesWell ==
    ASSUME Inv, Past, ChangeGoesWell, Record, call.op # "revert"
    PROVE  Past'
<1>1. /\ call # Idle /\ call.files = {} /\ ledger' = ledger \cup {Entry} /\ call' = Idle
      /\ UNCHANGED <<lib, backups, owned>>
      /\ call.op = "relocate" => call.stage = "write"
  BY DEF Record, Ending
<1>. SUFFICES ASSUME NEW path, path = call.path, NEW to, to = call.new, NEW chg, chg = call.change,
                     NEW e, e = Entry
              PROVE  Past'
  OBVIOUS
<1>2. /\ path \in Places /\ to \in Places /\ chg \in Changes /\ chg \in Nat
      /\ call.op \in {"set_album_artist", "relocate"}
      /\ call.op = "relocate" <=> path # to
      /\ backups[chg] = [f \in Files |-> backups[chg][f]]
  BY <1>1, InChange DEF Changes
<1>3. e.change = chg /\ e.op = call.op /\ e.path = path /\ e.new = to
  BY DEF Entry
<1>4. \A x \in ledger : x.change < chg
  BY <1>1 DEF ChangeGoesWell
<1>5. /\ Entries' = Entries \cup {e} /\ Alive' = Alive \cup {e} /\ e \notin Entries
  <2>1. Entries' = Entries \cup {e}
    BY <1>1, <1>2, <1>3 DEF Entries
  <2>2. \A x \in Entries : x.change < chg /\ x.change \in Nat
    BY <1>4, EntryTypes DEF Inv
  <2>3. \A x \in Entries : Live(x.change)' <=> Live(x.change)
    BY <1>1, <1>2, <1>3, <2>2 DEF Live
  <2>4. Live(chg)'
    <3>1. \A x \in ledger : x.change # chg
      BY <1>2, <1>4 DEF Inv, TypeOK, Changes
    <3>. QED
      BY <1>1, <1>2, <1>3, <3>1 DEF Live
  <2>5. e \notin Entries
    BY <1>2, <1>3, <2>2
  <2>. QED
    BY <1>3, <2>1, <2>3, <2>4, <2>5 DEF Alive
<1>6. \A x \in Entries : x.change \in Nat /\ x.change < chg /\ x.path \in Places /\ x.new \in Places
  BY <1>4, EntryTypes DEF Inv
<1>7. Current(path) = backups[chg]
  BY <1>1, <1>2 DEF Current
<1>8. \A x, y \in Entries' : x.change = y.change => x = y
  BY <1>2, <1>3, <1>5, <1>6 DEF Past, LedgerInOrder
<1>9. \A p : Current(p)' = lib[p]
  BY <1>1 DEF Current
<1>10. ASSUME NEW n \in Nat, n < chg, NEW p \in Places
       PROVE  View(n, p)' = View(n, p)
  <2>. DEFINE S == Later(n, p)
  <2>0. \A x \in Entries : Before(x, p)' = Before(x, p)
    BY <1>1 DEF Before
  <2>1. CASE ~Touches(e, p)
    <3>1. S' = S
      BY <1>5, <2>1 DEF Later, Touches
    <3>2. Current(p) = lib[p]
      BY <1>3, <2>1, CurrentIsLib DEF Touches
    <3>. QED
      BY <1>1, <1>9, <2>0, <3>1, <3>2, LowestIs, <1>6 DEF View, Lowest, Later, Alive
  <2>2. CASE Touches(e, p)
    <3>1. S' = S \cup {e}
      BY <1>3, <1>5, <1>10, <2>2 DEF Later, Touches
    <3>2. \A x \in S' : x.change \in Nat
      BY <1>2, <1>3, <1>6, <3>1 DEF Later, Alive
    <3>3. \A x, y \in S' : x.change = y.change => x = y
      BY <1>8 DEF Later, Alive
    <3>4. CASE S = {}
      <4>1. Lowest(S)' = e
        BY <3>1, <3>2, <3>3, <3>4, LowestOf DEF Lowest
      <4>2. View(n, p)' = Before(e, p)'
        BY <3>1, <4>1 DEF View, Lowest
      <4>3. Before(e, p)' = Current(p)
        BY <1>1, <1>2, <1>3, <1>7, <2>2 DEF Before, Current, Touches
      <4>. QED
        BY <3>4, <4>2, <4>3, ViewNow
    <3>5. CASE S # {}
      <4>1. PICK l \in S : \A x \in S : l.change <= x.change
        BY <3>1, <3>2, <3>5, LowestIs
      <4>2. l \in Entries /\ l.change < chg
        BY <1>6 DEF Later, Alive
      <4>3. l \in S' /\ \A x \in S' : l.change <= x.change
        BY <1>2, <1>3, <1>6, <3>1, <4>1, <4>2
      <4>4. Lowest(S') = l
        BY <3>2, <3>3, <4>3, LowestOf
      <4>5. View(n, p)' = Before(l, p)'
        BY <4>3, <4>4 DEF View, Lowest
      <4>6. View(n, p) = Before(l, p)
        BY <4>1, ViewBefore DEF Inv, Past
      <4>. QED
        BY <2>0, <4>2, <4>5, <4>6
    <3>. QED
      BY <3>4, <3>5
  <2>. QED
    BY <2>1, <2>2
<1>11. ASSUME NEW p PROVE View(chg, p)' = lib[p]
  <2>1. Later(chg, p)' = {}
    BY <1>2, <1>3, <1>5, <1>6 DEF Later, Alive
  <2>. QED
    BY <1>9, <2>1 DEF View
<1>12. LedgerInOrder'
  <2>1. IsDir(backups[chg])
    BY <1>1, <1>7 DEF ChangeGoesWell
  <2>. QED
    BY <1>1, <1>2, <1>3, <1>5, <1>8, <2>1 DEF LedgerInOrder, Past
<1>13. StartsDelivered'
  <2>1. \A p \in Places : View(0, p)' = View(0, p)
    BY <1>2, <1>10 DEF Changes
  <2>. QED
    BY <1>1, <2>1 DEF Past, StartsDelivered, Matches
<1>14. EachFollows'
  <2>1. ASSUME NEW x \in Alive PROVE Follows(x)'
    <3>1. x \in Entries /\ Follows(x)
      BY DEF Alive, Past, EachFollows
    <3>. QED
      BY <1>1, <1>6, <1>10, <3>1, FollowsSame
  <2>2. Follows(e)'
    <3>1. CASE call.op = "set_album_artist"
      <4>1. AudioFiles(lib[path]) = AudioFiles(backups[chg])
        BY <1>1, <1>7, <3>1 DEF ChangeGoesWell
      <4>. QED
        BY <1>1, <1>2, <1>3, <1>11, <3>1, <4>1 DEF Follows, LeftBy
    <3>2. CASE call.op = "relocate"
      <4>1. lib[path] = Empty /\ AudioFiles(lib[to]) = AudioFiles(backups[chg])
        BY <1>1, <3>2 DEF ChangeGoesWell, Inv, CallIsSafe
      <4>. QED
        BY <1>1, <1>2, <1>3, <1>11, <3>2, <4>1 DEF Follows, LeftBy, Moved
    <3>. QED
      BY <1>2, <3>1, <3>2
  <2>. QED
    BY <1>5, <2>1, <2>2 DEF EachFollows
<1>15. RevertedOnes'
  <2>. SUFFICES ASSUME NEW x \in Entries, Grounded(x)' PROVE Harmless(x)'
    BY <1>5 DEF RevertedOnes, Grounded
  <2>1. Grounded(x)
    BY <1>5 DEF Grounded, Alive
  <2>2. Harmless(x)
    BY <2>1 DEF Past, RevertedOnes
  <2>3. \A t : t \in Entries' /\ Under(t, x)' <=> t \in Entries /\ Under(t, x)
    <3>1. ~(chg < x.change)
      BY <1>2, <1>6
    <3>. QED
      BY <1>3, <1>5, <3>1 DEF Under
  <2>4. \A p \in {x.path, x.new} : View(x.change, p)' = View(x.change, p)
    BY <1>6, <1>10
  <2>. QED
    BY <1>1, <2>2, <2>3, <2>4, HarmlessSame
<1>. QED
  BY <1>12, <1>13, <1>14, <1>15 DEF Past

(* The entry whose change is being reverted; what a live one looks like    *)
(* from there.                                                             *)
LEMMA InRevert ==
    ASSUME Inv, Past, RevertGoesWell, call # Idle, call.op = "revert"
    PROVE  \E e \in Entries :
              /\ e.change = call.change /\ e.path = call.path /\ e.new = call.new
              /\ e.change \in Changes /\ e.change \in Nat /\ e.path \in Places /\ e.new \in Places
              /\ IsDir(backups[e.change])
              /\ lib[e.path] = [f \in Files |-> lib[e.path][f]]
              /\ lib[e.new] = [f \in Files |-> lib[e.new][f]]
              /\ backups[e.change] = [f \in Files |-> backups[e.change][f]]
              /\ \A x \in Alive : x.change \in Nat /\ x.change <= e.change
              /\ e \in Alive <=> Live(e.change)
              /\ e \in Alive \/ Grounded(e)
              /\ \A p : Current(p) = lib[p]
<1>1. PICK e \in Entries : e.change = call.change /\ e.path = call.path /\ e.new = call.new
  BY DEF RevertGoesWell
<1>2. e.change \in Changes /\ e.change \in Nat /\ e.path \in Places /\ e.new \in Places
  BY EntryTypes DEF Inv
<1>3. FromTheLast(e.change)
  BY <1>1 DEF RevertGoesWell, FromTheLast, Live
<1>4. \A x \in Alive : x.change \in Nat /\ x.change <= e.change
  <2>. SUFFICES ASSUME NEW x \in Alive PROVE x.change \in Nat /\ x.change <= e.change
    OBVIOUS
  <2>1. x.change \in Nat /\ x.change \in Changes /\ Live(x.change)
    BY EntryTypes DEF Inv, Alive
  <2>2. ~(x.change > e.change)
    BY <1>3, <2>1 DEF FromTheLast
  <2>. QED
    BY <1>2, <2>1, <2>2
<1>5. e \in Alive <=> Live(e.change)
  BY DEF Alive
<1>6. e \in Alive \/ Grounded(e)
  BY <1>3, <1>5 DEF Grounded, FromTheLast, Alive, Entries
<1>7. IsDir(backups[e.change])
  BY DEF Past, LedgerInOrder
<1>8. \A p : Current(p) = lib[p]
  BY DEF Current
<1>. QED
  BY <1>1, <1>2, <1>4, <1>5, <1>6, <1>7, <1>8 DEF Inv, TypeOK

(* The ledger gets the entry of a revert: what was seen through the        *)
(* backups of the change is seen in the library now.                       *)
LEMMA RecordRevertGoesWell ==
    ASSUME Inv, Past, RevertGoesWell, Record, call.op = "revert"
    PROVE  Past'
<1>1. /\ call # Idle /\ call.files = {} /\ call.stage = "restore"
      /\ ledger' = ledger \cup {Entry} /\ call' = Idle
      /\ UNCHANGED <<lib, backups, owned>>
  BY DEF Record, Ending
<1>2. PICK e \in Entries :
              /\ e.change = call.change /\ e.path = call.path /\ e.new = call.new
              /\ e.change \in Nat /\ e.path \in Places /\ e.new \in Places
              /\ IsDir(backups[e.change])
              /\ lib[e.path] = [f \in Files |-> lib[e.path][f]]
              /\ backups[e.change] = [f \in Files |-> backups[e.change][f]]
              /\ \A x \in Alive : x.change \in Nat /\ x.change <= e.change
              /\ e \in Alive <=> Live(e.change)
              /\ \A p : Current(p) = lib[p]
  BY <1>1, InRevert
<1>3. Entry.change = e.change /\ Entry.op = "revert"
  BY <1>2 DEF Entry
<1>4. Entries' = Entries /\ Alive' = Alive \ {e}
  <2>1. Entries' = Entries
    BY <1>1, <1>3 DEF Entries
  <2>2. \A c : Live(c)' <=> Live(c) /\ c # e.change
    BY <1>1, <1>3 DEF Live
  <2>3. \A x \in Entries : x.change = e.change => x = e
    BY DEF Past, LedgerInOrder
  <2>. QED
    BY <2>1, <2>2, <2>3 DEF Alive
<1>5. \A p : Current(p)' = Current(p)
  BY <1>1, <1>2 DEF Current
<1>6. CASE ~Live(e.change)
  <2>1. Alive' = Alive
    BY <1>2, <1>4, <1>6
  <2>. QED
    BY <1>1, <1>4, <1>5, <2>1, PastSame DEF Inv
<1>7. CASE Live(e.change)
  <2>1. Restoring(e.path, e.new, {}, backups[e.change])
    BY <1>1, <1>2, <1>7 DEF RevertGoesWell, Restoring, Live
  <2>2. lib[e.path] = backups[e.change]
    <3>1. \A f \in Files : lib[e.path][f] = backups[e.change][f]
      BY <2>1 DEF Restoring, AudioFiles
    <3>. QED
      BY <1>2, <3>1
  <2>3. \A p : Touches(e, p) => lib[p] = Before(e, p)
    BY <2>1, <2>2 DEF Touches, Before, Restoring
  <2>4. e \in Alive
    BY <1>2, <1>7
  <2>5. ASSUME NEW n \in Nat, NEW p \in Places
        PROVE  View(n, p)' = View(n, p)
    <3>. DEFINE S == Later(n, p)
    <3>1. S' = S \ {e}
      BY <1>4 DEF Later, Touches
    <3>2. CASE e \notin S
      BY <1>1, <1>4, <1>5, <3>1, <3>2, ViewSame DEF Inv
    <3>3. CASE S = {e}
      <4>1. View(n, p) = Before(e, p)
        BY <1>2, <3>3, ViewBefore DEF Inv, Past
      <4>2. View(n, p)' = lib[p]
        BY <1>2, <1>5, <3>1, <3>3 DEF View
      <4>. QED
        BY <2>3, <3>3, <4>1, <4>2 DEF Later
    <3>4. CASE e \in S /\ S # {e}
      <4>1. \A x \in S : x.change \in Nat /\ x.change <= e.change
        BY <1>2 DEF Later
      <4>2. \A x, y \in S : x.change = y.change => x = y
        BY DEF Later, Alive, Past, LedgerInOrder
      <4>3. PICK l \in S : \A x \in S : l.change <= x.change
        BY <3>4, <4>1, LowestIs
      <4>4. PICK k \in S : k # e
        BY <3>4
      <4>5. l # e
        <5>1. k.change # e.change /\ k.change <= e.change /\ l.change <= k.change
          BY <3>4, <4>1, <4>2, <4>3, <4>4
        <5>. QED
          BY <4>1, <5>1, <1>2
      <4>6. Lowest(S') = l
        BY <3>1, <4>1, <4>2, <4>3, <4>5, LowestOf
      <4>7. View(n, p)' = Before(l, p)'
        BY <3>1, <4>5, <4>6 DEF View, Lowest
      <4>8. View(n, p) = Before(l, p)
        BY <4>3, ViewBefore DEF Inv, Past
      <4>. QED
        BY <1>1, <4>7, <4>8 DEF Before
    <3>. QED
      BY <3>2, <3>3, <3>4
  <2>6. \A x \in Entries : x.change \in Nat /\ x.path \in Places /\ x.new \in Places
    BY EntryTypes DEF Inv
  <2>7. LedgerInOrder'
    BY <1>1, <1>4 DEF LedgerInOrder, Past
  <2>8. StartsDelivered'
    BY <1>1, <2>5 DEF Past, StartsDelivered, Matches
  <2>9. EachFollows'
    <3>1. ASSUME NEW x \in Alive PROVE Follows(x)'
      BY <1>1, <2>5, <2>6, FollowsSame DEF Alive, Past, EachFollows
    <3>. QED
      BY <1>4, <3>1 DEF EachFollows
  <2>10. ASSUME Grounded(e)' PROVE Harmless(e)'
    <3>1. ASSUME NEW t \in Entries, Under(t, e), Touches(t, e.path)
          PROVE  AudioFiles(backups[t.change]) = AudioFiles(backups[e.change])
      <4>1. t \in Alive /\ t.change < e.change
        BY <1>4, <2>10, <3>1 DEF Under, Grounded
      <4>2. Later(t.change, e.path) = {e}
        <5>1. e \in Later(t.change, e.path)
          BY <1>2, <2>4, <2>6, <4>1 DEF Later, Touches
        <5>2. ASSUME NEW x \in Later(t.change, e.path) PROVE x = e
          <6>1. x \in Alive /\ x \in Entries /\ x.change > t.change /\ x.change <= e.change
            BY <1>2 DEF Later, Alive
          <6>2. ~(x.change < e.change)
            BY <2>6, <3>1, <6>1 DEF Under
          <6>3. x.change = e.change
            BY <1>2, <2>6, <6>1, <6>2
          <6>. QED
            BY <6>1, <6>3 DEF Past, LedgerInOrder
        <5>. QED
          BY <5>1, <5>2
      <4>3. View(t.change, e.path) = Before(e, e.path)
        BY <1>2, <4>2, ViewBefore DEF Inv, Past
      <4>4. View(t.change, e.path) = backups[e.change] /\ backups[e.change] # Empty
        BY <1>2, <4>3 DEF Before, IsDir
      <4>5. Follows(t)
        BY <4>1 DEF Past, EachFollows
      <4>. QED
        BY <3>1, <4>4, <4>5 DEF Follows, LeftBy, Moved, Touches
    <3>2. ASSUME NEW p \in {e.path, e.new} PROVE View(e.change, p)' = Before(e, p)
      <4>1. Later(e.change, p)' = {}
        BY <1>2, <1>4 DEF Later
      <4>2. View(e.change, p)' = lib[p]
        BY <1>2, <1>5, <4>1 DEF View
      <4>. QED
        BY <2>3, <4>2 DEF Touches
    <3>3. \A t : Under(t, e)' <=> Under(t, e)
      BY <1>4 DEF Under
    <3>. QED
      BY <1>1, <1>4, <3>1, <3>2, <3>3 DEF Harmless, Before, Touches
  <2>11. RevertedOnes'
    <3>. SUFFICES ASSUME NEW x \in Entries, Grounded(x)', x # e PROVE Harmless(x)'
      BY <1>4, <2>10 DEF RevertedOnes
    <3>1. Grounded(x)
      BY <1>4 DEF Grounded
    <3>2. Harmless(x)
      BY <3>1 DEF Past, RevertedOnes
    <3>3. \A t : t \in Entries' /\ Under(t, x)' <=> t \in Entries /\ Under(t, x)
      BY <1>4 DEF Under
    <3>. QED
      BY <1>1, <2>5, <2>6, <3>2, <3>3, HarmlessSame
  <2>. QED
    BY <2>7, <2>8, <2>9, <2>11 DEF Past
<1>. QED
  BY <1>6, <1>7

(* An import into a place that no change has touched.                      *)
LEMMA ImportGoesWell ==
    ASSUME Inv, Past, ChangeGoesWell, RevertGoesWell, ~ReusesPlaces, NEW p \in Places,
           NEW album \in [Files -> Recordings \cup {Absent}], Import(p, album)
    PROVE  Past' /\ ChangeGoesWell' /\ RevertGoesWell'
<1>. DEFINE d == Delivered(album)
<1>1. /\ lib[p] = Empty /\ p \notin Handled /\ (call # Idle => p # call.path /\ p # call.new)
      /\ lib' = [lib EXCEPT ![p] = d]
      /\ owned' = owned \cup {t \in Listing(lib') : t.place = p}
      /\ UNCHANGED <<backups, ledger, call>>
  BY DEF Import, IsDir
<1>. HIDE DEF d
<1>2. lib'[p] = d /\ \A q \in Places : q # p => lib'[q] = lib[q]
  BY <1>1 DEF Inv, TypeOK
<1>3. \A e \in Entries : p # e.path /\ p # e.new
  BY <1>1 DEF Entries, Handled
<1>4. ASSUME NEW q \in Places, q # p PROVE Current(q)' = Current(q)
  <2>1. lib'[q] = lib[q]
    BY <1>2, <1>4
  <2>. QED
    BY <1>1, <2>1 DEF Current
<1>5. Current(p) = Empty /\ Current(p)' = d
  BY <1>1, <1>2 DEF Current
<1>6. Entries' = Entries /\ Alive' = Alive /\ (\A c : Live(c)' <=> Live(c))
      /\ (\A c : FromTheLast(c)' <=> FromTheLast(c))
  BY <1>1, LedgerSame
<1>7. ASSUME NEW n, NEW q \in Places, q # p PROVE View(n, q)' = View(n, q)
  <2>1. Later(n, q)' = Later(n, q)
    BY <1>6 DEF Later, Touches
  <2>. QED
    BY <1>1, <1>4, <1>6, <1>7, <2>1, ViewSame DEF Inv
<1>8. LedgerInOrder'
  BY <1>1, <1>6 DEF LedgerInOrder, Past
<1>9. StartsDelivered'
  <2>1. ASSUME NEW q \in Places, q # p PROVE Matches(q, View(0, q))'
    <3>1. Matches(q, View(0, q))
      BY DEF Past, StartsDelivered
    <3>2. \A t : t.place = q => (t \in owned' <=> t \in owned)
      BY <1>1, <2>1
    <3>. QED
      BY <1>7, <2>1, <3>1, <3>2 DEF Matches
  <2>2. Matches(p, View(0, p))'
    <3>1. View(0, p) = Empty /\ View(0, p)' = d
      <4>1. Later(0, p) = {} /\ Later(0, p)' = {}
        BY <1>3, <1>6 DEF Later, Touches, Alive
      <4>. QED
        BY <1>5, <4>1 DEF View
    <3>2. ASSUME NEW t \in [place : {p}, file : Files, content : Contents \ {Absent}]
          PROVE  t \in owned' <=> d[t.file] = t.content
      <4>1. t.place = p /\ t.file \in Files /\ t.content # Absent
            /\ t = [place |-> p, file |-> t.file, content |-> t.content]
        OBVIOUS
      <4>2. t \notin owned
        <5>1. Matches(p, Empty)
          BY <3>1 DEF Past, StartsDelivered
        <5>2. t \in owned <=> Empty[t.file] = t.content
          BY <5>1 DEF Matches
        <5>. QED
          BY <4>1, <5>2 DEF Empty
      <4>3. t \in Listing(lib') <=> d[t.file] = t.content
        <5>1. ASSUME t \in Listing(lib') PROVE d[t.file] = t.content
          <6>1. PICK pf \in Places \X Files :
                   t = [place |-> pf[1], file |-> pf[2], content |-> lib'[pf[1]][pf[2]]]
            BY <5>1 DEF Listing
          <6>. QED
            BY <1>2, <4>1, <6>1
        <5>2. ASSUME d[t.file] = t.content PROVE t \in Listing(lib')
          <6>. DEFINE pf == <<p, t.file>>
          <6>1. pf \in Places \X Files /\ pf[1] = p /\ pf[2] = t.file
            BY <4>1
          <6>2. lib'[pf[1]][pf[2]] = t.content
            BY <1>2, <5>2, <6>1
          <6>. HIDE DEF pf
          <6>. QED
            BY <4>1, <6>1, <6>2 DEF Listing
        <5>. QED
          BY <5>1, <5>2
      <4>. QED
        BY <1>1, <4>1, <4>2, <4>3
    <3>. QED
      BY <3>1, <3>2 DEF Matches
  <2>. QED
    BY <2>1, <2>2 DEF StartsDelivered
<1>10. \A x \in Entries : x.path \in Places /\ x.new \in Places
  BY EntryTypes DEF Inv
<1>11. EachFollows'
  <2>1. ASSUME NEW x \in Alive PROVE Follows(x)'
    BY <1>1, <1>3, <1>7, <1>10, FollowsSame DEF Alive, Past, EachFollows
  <2>. QED
    BY <1>6, <2>1 DEF EachFollows
<1>12. RevertedOnes'
  <2>. SUFFICES ASSUME NEW x \in Entries, Grounded(x) PROVE Harmless(x)'
    BY <1>6 DEF RevertedOnes, Grounded
  <2>1. Harmless(x)
    BY DEF Past, RevertedOnes
  <2>2. \A t : t \in Entries' /\ Under(t, x)' <=> t \in Entries /\ Under(t, x)
    BY <1>6 DEF Under
  <2>. QED
    BY <1>1, <1>3, <1>7, <1>10, <2>1, <2>2, HarmlessSame
<1>13. ASSUME call # Idle
       PROVE  lib'[call.path] = lib[call.path] /\ lib'[call.new] = lib[call.new]
              /\ Current(call.path)' = Current(call.path)
  <2>1. call.path \in Places /\ call.new \in Places
    BY <1>13 DEF Inv, TypeOK, Calls
  <2>2. lib'[call.path] = lib[call.path] /\ lib'[call.new] = lib[call.new]
    BY <1>1, <1>2, <1>13, <2>1
  <2>. QED
    BY <1>1, <2>2 DEF Current
<1>14. ChangeGoesWell'
  BY <1>1, <1>13 DEF ChangeGoesWell, First
<1>15. RevertGoesWell'
  BY <1>1, <1>6, <1>13 DEF RevertGoesWell, Restoring, FromTheLast, Live
<1>. QED
  BY <1>8, <1>9, <1>11, <1>12, <1>14, <1>15 DEF Past

----------------------------------------------------------------------------
(* A revert that writes where the topmost live change t has been, and      *)
(* leaves there what may follow t: no view of an earlier time is touched.  *)
LEMMA TopStep ==
    ASSUME Inv, Past, UNCHANGED <<ledger, backups, owned>>,
           \A p : Current(p) = lib[p] /\ Current(p)' = lib'[p],
           NEW t \in Alive, \A x \in Alive : x.change <= t.change,
           \A q \in Places : lib'[q] = lib[q] \/ Touches(t, q),
           LeftBy(t, lib[t.path], lib[t.new])'
    PROVE  Past'
<1>1. Entries' = Entries /\ Alive' = Alive
  BY LedgerSame
<1>2. \A x \in Entries : x.change \in Nat /\ x.path \in Places /\ x.new \in Places
  BY EntryTypes DEF Inv
<1>3. ASSUME NEW n \in Nat, NEW p \in Places, n < t.change \/ ~Touches(t, p)
      PROVE  View(n, p)' = View(n, p)
  <2>1. Later(n, p)' = Later(n, p)
    BY <1>1 DEF Later, Touches
  <2>2. ASSUME Later(n, p) = {} PROVE Current(p)' = Current(p)
    <3>1. ~Touches(t, p)
      BY <1>2, <1>3, <2>2 DEF Later, Alive
    <3>. QED
      BY <3>1
  <2>. QED
    BY <1>1, <2>1, <2>2, ViewSame DEF Inv
<1>4. LedgerInOrder'
  BY <1>1 DEF LedgerInOrder, Past
<1>5. StartsDelivered'
  <2>1. 0 < t.change
    BY EntryTypes DEF Inv, Alive
  <2>2. \A p \in Places : View(0, p)' = View(0, p)
    BY <1>3, <2>1
  <2>. QED
    BY <2>2 DEF Past, StartsDelivered, Matches
<1>6. EachFollows'
  <2>1. ASSUME NEW x \in Alive, x # t PROVE Follows(x)'
    <3>1. x.change # t.change
      BY <2>1 DEF Past, LedgerInOrder, Alive
    <3>2. x \in Entries /\ x.change < t.change
      BY <1>2, <3>1 DEF Alive
    <3>. QED
      BY <1>2, <1>3, <3>2, FollowsSame DEF Past, EachFollows
  <2>2. Follows(t)'
    <3>1. \A p : Later(t.change, p)' = {}
      BY <1>1, <1>2 DEF Later, Alive
    <3>2. \A p : View(t.change, p)' = lib'[p]
      BY <3>1 DEF View
    <3>. QED
      BY <3>2 DEF Follows, LeftBy, Moved
  <2>. QED
    BY <1>1, <2>1, <2>2 DEF EachFollows
<1>7. RevertedOnes'
  <2>. SUFFICES ASSUME NEW x \in Entries, Grounded(x) PROVE Harmless(x)'
    BY <1>1 DEF RevertedOnes, Grounded
  <2>1. Harmless(x)
    BY DEF Past, RevertedOnes
  <2>2. \A s : s \in Entries' /\ Under(s, x)' <=> s \in Entries /\ Under(s, x)
    BY <1>1 DEF Under
  <2>3. ASSUME NEW p \in {x.path, x.new},
               ~\E s \in Entries : Under(s, x) /\ Touches(s, p)
        PROVE  View(x.change, p)' = View(x.change, p)
    <3>1. p \in Places /\ t \in Entries /\ x.change # t.change
      BY <1>2 DEF Grounded, Past, LedgerInOrder, Alive
    <3>2. CASE x.change < t.change
      BY <1>2, <1>3, <3>1, <3>2
    <3>3. CASE t.change < x.change
      <4>1. Under(t, x)
        BY <1>2, <3>1, <3>3 DEF Under, Grounded
      <4>. QED
        BY <1>2, <1>3, <2>3, <3>1, <4>1
    <3>. QED
      BY <1>2, <3>1, <3>2, <3>3
  <2>. QED
    BY <2>1, <2>2, <2>3, HarmlessSame
<1>. QED
  BY <1>4, <1>5, <1>6, <1>7 DEF Past

(* The topmost live change has left the library as it is.                  *)
LEMMA TopLeaves ==
    ASSUME Inv, Past, \A p : Current(p) = lib[p],
           NEW t \in Alive, \A x \in Alive : x.change <= t.change
    PROVE  LeftBy(t, lib[t.path], lib[t.new])
<1>1. \A x \in Alive : x.change \in Nat
  BY EntryTypes DEF Inv, Alive
<1>2. \A p : Later(t.change, p) = {}
  BY <1>1 DEF Later
<1>3. \A p : View(t.change, p) = lib[p]
  BY <1>2, ViewNow
<1>. QED
  BY <1>3 DEF Past, EachFollows, Follows

(* A change that is reverted once more: a place of it is as its backups    *)
(* say, or the topmost live change, of the same files, is there.           *)
LEMMA Again ==
    ASSUME Inv, Past, \A p : Current(p) = lib[p],
           NEW e \in Entries, Grounded(e), \A x \in Alive : x.change <= e.change,
           NEW p \in {e.path, e.new}, lib[p] # Before(e, p)
    PROVE  \E t \in Alive :
              /\ \A x \in Alive : x.change <= t.change
              /\ Touches(t, p)
              /\ Touches(t, e.path) => AudioFiles(backups[t.change]) = AudioFiles(backups[e.change])
<1>1. \A x \in Entries : x.change \in Nat
  BY EntryTypes DEF Inv
<1>2. Later(e.change, p) = {}
  BY <1>1 DEF Later, Alive
<1>3. View(e.change, p) = lib[p]
  BY <1>2, ViewNow
<1>4. Harmless(e)
  BY DEF Past, RevertedOnes
<1>5. PICK t \in Entries : Under(t, e) /\ Touches(t, p)
  BY <1>3, <1>4 DEF Harmless
<1>6. t \in Alive
  BY <1>5 DEF Under, Grounded
<1>7. ASSUME NEW x \in Alive PROVE x.change <= t.change
  <2>1. x \in Entries /\ x.change # e.change /\ x.change <= e.change
    BY DEF Alive, Grounded, Past, LedgerInOrder
  <2>. QED
    BY <1>1, <1>5, <2>1 DEF Under
<1>. QED
  BY <1>4, <1>5, <1>6, <1>7 DEF Harmless

(* Directories with the same names of files are both there, or both not.   *)
LEMMA SameNames ==
    ASSUME NEW c, NEW d, c = [f \in Files |-> c[f]], d = [f \in Files |-> d[f]],
           AudioFiles(c) = AudioFiles(d)
    PROVE  IsDir(c) <=> IsDir(d)
  BY DEF AudioFiles, IsDir, Empty

(* The move of revert: of a live change it leaves the album where it was;  *)
(* repeated, it can at most move what a change between the same two places *)
(* has left.                                                               *)
LEMMA MoveBackGoesWell ==
    ASSUME Inv, Past, RevertGoesWell, MoveBack
    PROVE  Past' /\ ChangeGoesWell' /\ RevertGoesWell'
<1>1. /\ call # Idle /\ call.stage = "moveBack" /\ call' = [call EXCEPT !.stage = "restore"]
      /\ UNCHANGED <<backups, ledger, owned>>
  BY DEF MoveBack
<1>2. call \in Calls /\ call.op = "revert"
  BY <1>1, AtRevert
<1>3. /\ call'.op = "revert" /\ call'.stage = "restore" /\ call'.path = call.path
      /\ call'.new = call.new /\ call'.change = call.change /\ call'.files = call.files
      /\ call' # Idle
  BY <1>1, <1>2 DEF Calls, Idle
<1>4. PICK e \in Entries :
              /\ e.change = call.change /\ e.path = call.path /\ e.new = call.new
              /\ e.change \in Nat /\ e.path \in Places /\ e.new \in Places
              /\ IsDir(backups[e.change])
              /\ lib[e.path] = [f \in Files |-> lib[e.path][f]]
              /\ lib[e.new] = [f \in Files |-> lib[e.new][f]]
              /\ backups[e.change] = [f \in Files |-> backups[e.change][f]]
              /\ \A x \in Alive : x.change \in Nat /\ x.change <= e.change
              /\ e \in Alive <=> Live(e.change)
              /\ e \in Alive \/ Grounded(e)
              /\ \A p : Current(p) = lib[p]
  BY <1>1, <1>2, InRevert
<1>. SUFFICES ASSUME NEW path \in Places, path = e.path, NEW to \in Places, to = e.new,
                     NEW saved, saved = backups[e.change]
              PROVE  Past' /\ ChangeGoesWell' /\ RevertGoesWell'
  BY <1>4
<1>5. path # to /\ call.files = AudioFiles(saved)
  BY <1>1, <1>2, <1>4 DEF RevertGoesWell
<1>6. \A p : Current(p)' = lib'[p]
  BY <1>3 DEF Current
<1>7. ASSUME lib' = lib PROVE Past'
  BY <1>1, <1>4, <1>6, <1>7, PastSame, LedgerSame DEF Inv
<1>. DEFINE moves == IsDir(lib[to]) /\ ~IsDir(lib[path])
<1>8. /\ moves => lib' = [lib EXCEPT ![path] = lib[to], ![to] = Empty]
      /\ ~moves => lib' = lib
  BY <1>4 DEF MoveBack
<1>9. /\ moves => lib'[path] = lib[to] /\ lib'[to] = Empty
      /\ \A q \in Places : q # path /\ q # to => lib'[q] = lib[q]
  BY <1>5, <1>8 DEF Inv, TypeOK
<1>10. Past' /\ (e \in Alive => Restoring(path, to, call.files, saved)')
  <2>1. CASE e \in Alive
    <3>1. LeftBy(e, lib[path], lib[to])
      BY <1>4, <2>1, TopLeaves
    <3>2. Moved(lib[path], lib[to], AudioFiles(saved)) \/ Moved(lib[to], lib[path], AudioFiles(saved))
      BY <1>5, <3>1 DEF LeftBy
    <3>3. Moved(lib'[to], lib'[path], AudioFiles(saved))
      <4>1. CASE Moved(lib[path], lib[to], AudioFiles(saved))
        <5>1. moves
          BY <1>4, <4>1, SameNames DEF Moved, IsDir
        <5>. QED
          BY <1>9, <4>1, <5>1 DEF Moved
      <4>2. CASE Moved(lib[to], lib[path], AudioFiles(saved))
        <5>1. ~moves
          BY <4>2 DEF Moved, IsDir
        <5>. QED
          BY <1>8, <4>2, <5>1
      <4>. QED
        BY <3>2, <4>1, <4>2
    <3>4. LeftBy(e, lib[e.path], lib[e.new])'
      BY <1>1, <1>5, <3>3 DEF LeftBy
    <3>5. Past'
      BY <1>1, <1>4, <1>6, <1>9, <2>1, <3>4, TopStep DEF Touches
    <3>6. Restoring(path, to, call.files, saved)'
      BY <1>1, <1>3, <1>5, <3>3 DEF Restoring, Moved
    <3>. QED
      BY <3>5, <3>6
  <2>2. CASE Grounded(e) /\ moves
    <3>1. lib[path] = Empty /\ lib[to] # Empty /\ saved # Empty
      BY <1>4, <2>2 DEF IsDir
    <3>2. lib[path] # Before(e, path) /\ lib[to] # Before(e, to)
      BY <1>5, <3>1 DEF Before
    <3>3. PICK t \in Alive : (\A x \in Alive : x.change <= t.change) /\ Touches(t, path)
      BY <1>4, <2>2, <3>2, Again
    <3>4. PICK s \in Alive : (\A x \in Alive : x.change <= s.change) /\ Touches(s, to)
      BY <1>4, <2>2, <3>2, Again
    <3>5. t = s
      <4>1. t.change = s.change
        BY <1>4, <3>3, <3>4
      <4>. QED
        BY <4>1 DEF Past, LedgerInOrder, Alive
    <3>6. (t.path = path /\ t.new = to) \/ (t.path = to /\ t.new = path)
      BY <1>5, <3>3, <3>4, <3>5 DEF Touches
    <3>7. LeftBy(t, lib[t.path], lib[t.new])
      BY <1>4, <3>3, TopLeaves
    <3>8. LeftBy(t, lib[t.path], lib[t.new])'
      BY <1>1, <1>5, <1>9, <2>2, <3>1, <3>6, <3>7 DEF LeftBy, Moved
    <3>9. Past'
      BY <1>1, <1>4, <1>6, <1>9, <3>3, <3>6, <3>8, TopStep DEF Touches
    <3>. QED
      BY <2>2, <3>9 DEF Grounded
  <2>3. CASE Grounded(e) /\ ~moves
    BY <1>7, <1>8, <2>3 DEF Grounded
  <2>. QED
    BY <1>4, <2>1, <2>2, <2>3
<1>11. RevertGoesWell'
  <2>1. Entries' = Entries /\ (\A c : Live(c)' <=> Live(c)) /\ (\A c : FromTheLast(c)' <=> FromTheLast(c))
    BY <1>1, LedgerSame
  <2>2. FromTheLast(call.change)' /\ (Live(call.change)' <=> e \in Alive)
    <3>1. FromTheLast(e.change)
      BY <1>1, <1>2, <1>4 DEF RevertGoesWell, FromTheLast, Live
    <3>2. FromTheLast(e.change)' /\ (Live(e.change)' <=> e \in Alive)
      BY <1>4, <2>1, <3>1
    <3>. QED
      BY <1>3, <1>4, <3>2 DEF FromTheLast, Live
  <2>3. e \in Alive => Restoring(call.path, call.new, call.files, backups[call.change])'
    BY <1>1, <1>3, <1>4, <1>10 DEF Restoring
  <2>. QED
    BY <1>1, <1>3, <1>4, <1>5, <2>1, <2>2, <2>3 DEF RevertGoesWell
<1>. QED
  BY <1>3, <1>10, <1>11 DEF ChangeGoesWell

(* A revert writes over a file that is there, with the backup or, of a     *)
(* live change, cut short.                                                 *)
LEMMA OneRestored ==
    ASSUME Inv, Past, RevertGoesWell, call # Idle, call.stage = "restore", call.files # {},
           Restorable, UNCHANGED <<ledger, backups, owned>>, \A p : Current(p)' = lib'[p],
           NEW v, v # Absent, lib' = [lib EXCEPT ![call.path][First] = v],
           Live(call.change) \/ v = backups[call.change][First]
    PROVE  /\ Past'
           /\ Live(call.change) => AudioFiles(lib'[call.path]) = AudioFiles(lib[call.path])
<1>1. call \in Calls /\ call.op = "revert"
  BY AtRevert
<1>2. PICK e \in Entries :
              /\ e.change = call.change /\ e.path = call.path /\ e.new = call.new
              /\ e.change \in Nat /\ e.path \in Places /\ e.new \in Places
              /\ lib[e.path] = [f \in Files |-> lib[e.path][f]]
              /\ backups[e.change] = [f \in Files |-> backups[e.change][f]]
              /\ \A x \in Alive : x.change \in Nat /\ x.change <= e.change
              /\ e \in Alive <=> Live(e.change)
              /\ e \in Alive \/ Grounded(e)
              /\ \A p : Current(p) = lib[p]
  BY <1>1, InRevert
<1>3. First \in call.files /\ First \in Files
  BY FirstIsOne DEF Inv
<1>. SUFFICES ASSUME NEW path \in Places, path = e.path, NEW f \in Files, f = First,
                     NEW saved, saved = backups[e.change]
              PROVE  /\ Past'
                     /\ Live(call.change) => AudioFiles(lib'[path]) = AudioFiles(lib[path])
  BY <1>2, <1>3
<1>4. f \in AudioFiles(saved)
  BY <1>1, <1>2, <1>3 DEF RevertGoesWell
<1>5. /\ \A g \in Files : lib'[path][g] = IF g = f THEN v ELSE lib[path][g]
      /\ \A q \in Places : q # path => lib'[q] = lib[q]
  BY <1>2 DEF Inv, TypeOK
<1>6. f \in AudioFiles(lib[path]) => AudioFiles(lib'[path]) = AudioFiles(lib[path])
  BY <1>5 DEF AudioFiles
<1>7. CASE Live(call.change)
  <2>1. e \in Alive /\ Restoring(path, e.new, call.files, saved)
    BY <1>1, <1>2, <1>7 DEF RevertGoesWell, Live
  <2>2. AudioFiles(lib'[path]) = AudioFiles(saved) /\ AudioFiles(lib[path]) = AudioFiles(saved)
    BY <1>4, <1>6, <2>1 DEF Restoring
  <2>3. path # e.new => lib'[e.new] = Empty
    BY <1>2, <1>5, <2>1 DEF Restoring
  <2>4. LeftBy(e, lib[e.path], lib[e.new])'
    BY <2>2, <2>3 DEF LeftBy, Moved
  <2>5. Past'
    BY <1>2, <1>5, <2>1, <2>4, TopStep DEF Touches
  <2>. QED
    BY <2>2, <2>5
<1>8. CASE ~Live(call.change)
  <2>1. Grounded(e) /\ v = saved[f]
    BY <1>2, <1>8
  <2>2. CASE lib[path] = Before(e, path)
    <3>1. lib' = lib
      BY <1>2, <2>1, <2>2 DEF Before, Inv, TypeOK
    <3>2. Past'
      BY <1>2, <3>1, PastSame, LedgerSame DEF Inv
    <3>. QED
      BY <1>8, <3>2
  <2>3. CASE lib[path] # Before(e, path)
    <3>1. PICK t \in Alive :
              /\ \A x \in Alive : x.change <= t.change
              /\ Touches(t, path)
              /\ AudioFiles(backups[t.change]) = AudioFiles(saved)
      BY <1>2, <2>1, <2>3, Again
    <3>2. LeftBy(t, lib[t.path], lib[t.new])
      BY <1>2, <3>1, TopLeaves
    <3>3. lib[path] # Empty
      BY <1>2 DEF Restorable, IsDir, Empty
    <3>4. AudioFiles(lib[path]) = AudioFiles(saved)
      BY <3>1, <3>2, <3>3 DEF LeftBy, Moved, Touches
    <3>5. AudioFiles(lib'[path]) = AudioFiles(lib[path])
      BY <1>4, <1>6, <3>4
    <3>6. t.path \in Places /\ t.new \in Places
      BY EntryTypes DEF Inv, Alive
    <3>7. LeftBy(t, lib[t.path], lib[t.new])'
      BY <1>5, <3>1, <3>2, <3>3, <3>5, <3>6 DEF LeftBy, Moved, Touches
    <3>8. Past'
      BY <1>2, <1>5, <3>1, <3>7, TopStep
    <3>. QED
      BY <1>8, <3>8
  <2>. QED
    BY <2>2, <2>3
<1>. QED
  BY <1>7, <1>8

(* revert copies a backup, or passes over a file that is gone.             *)
LEMMA RestoreGoesWell ==
    ASSUME Inv, Past, RevertGoesWell, Restore
    PROVE  Past' /\ ChangeGoesWell' /\ RevertGoesWell'
<1>1. /\ call # Idle /\ call.stage = "restore" /\ call.files # {}
      /\ call' = [call EXCEPT !.files = Rest]
      /\ UNCHANGED <<backups, ledger, owned>>
  BY DEF Restore
<1>2. call \in Calls /\ call.op = "revert"
  BY <1>1, AtRevert
<1>3. First \in call.files /\ First \in Files /\ Rest = call.files \ {First}
  BY <1>1, FirstIsOne DEF Inv, Rest
<1>. SUFFICES ASSUME NEW f, f = First, NEW fs, fs = call.files, NEW path, path = call.path,
                     NEW to, to = call.new, NEW chg, chg = call.change
              PROVE  Past' /\ ChangeGoesWell' /\ RevertGoesWell'
  OBVIOUS
<1>4. /\ call'.op = "revert" /\ call'.stage = "restore" /\ call'.path = path
      /\ call'.new = to /\ call'.change = chg /\ call'.files = fs \ {f}
      /\ call' # Idle
  BY <1>1, <1>2, <1>3 DEF Calls, Idle
<1>5. \A p : Current(p) = lib[p] /\ Current(p)' = lib'[p]
  BY <1>2, <1>4 DEF Current
<1>6. /\ path \in Places /\ to \in Places /\ chg \in Changes
      /\ fs \subseteq AudioFiles(backups[chg]) /\ backups[chg][f] # Absent
  BY <1>1, <1>2, <1>3 DEF Calls, RevertGoesWell, AudioFiles
<1>7. Past' /\ (Live(chg) => Restoring(path, to, fs \ {f}, backups[chg])')
  <2>1. CASE Restorable
    <3>. DEFINE v == backups[chg][f]
    <3>1. lib' = [lib EXCEPT ![path][f] = v]
      BY <2>1 DEF Restore, SetFile
    <3>2. v # Absent
      BY <1>6
    <3>3. Live(call.change) \/ v = backups[call.change][First]
      OBVIOUS
    <3>4. /\ \A g \in Files : lib'[path][g] = IF g = f THEN v ELSE lib[path][g]
          /\ \A q \in Places : q # path => lib'[q] = lib[q]
      BY <1>3, <1>6, <3>1 DEF Inv, TypeOK
    <3>. HIDE DEF v
    <3>5. Past' /\ (Live(call.change) => AudioFiles(lib'[path]) = AudioFiles(lib[path]))
      BY <1>1, <1>5, <2>1, <3>1, <3>2, <3>3, OneRestored
    <3>6. ASSUME Live(chg) PROVE Restoring(path, to, fs \ {f}, backups[chg])'
      <4>1. Live(call.change)
        BY <3>6
      <4>2. Restoring(path, to, fs, backups[chg])
        BY <1>1, <1>2, <4>1 DEF RevertGoesWell
      <4>3. path # to => lib'[to] = Empty
        BY <1>6, <3>4, <4>2 DEF Restoring
      <4>4. AudioFiles(lib'[path]) = AudioFiles(backups[chg])
        BY <3>5, <4>1, <4>2 DEF Restoring
      <4>5. \A g \in AudioFiles(backups[chg]) \ (fs \ {f}) : lib'[path][g] = backups[chg][g]
        BY <3>4, <4>2 DEF Restoring, AudioFiles, v
      <4>. QED
        BY <1>1, <4>3, <4>4, <4>5 DEF Restoring
    <3>. QED
      BY <3>5, <3>6
  <2>2. CASE ~Restorable
    <3>1. lib' = lib /\ path # to /\ lib[path][f] = Absent
      BY <2>2 DEF Restore, OfRelocation, Restorable
    <3>2. Past'
      BY <1>1, <1>5, <3>1, PastSame, LedgerSame DEF Inv
    <3>3. ~Live(chg)
      <4>. SUFFICES ASSUME Live(call.change) PROVE FALSE
        OBVIOUS
      <4>1. Restoring(path, to, fs, backups[chg])
        BY <1>1, <1>2 DEF RevertGoesWell
      <4>. QED
        BY <1>3, <1>6, <3>1, <4>1 DEF Restoring, AudioFiles
    <3>. QED
      BY <3>2, <3>3
  <2>. QED
    BY <2>1, <2>2
<1>8. RevertGoesWell'
  <2>1. Entries' = Entries /\ (\A c : Live(c)' <=> Live(c)) /\ (\A c : FromTheLast(c)' <=> FromTheLast(c))
    BY <1>1, LedgerSame
  <2>2. FromTheLast(chg)
    BY <1>1, <1>2 DEF RevertGoesWell
  <2>3. FromTheLast(call.change)' /\ (Live(call.change)' <=> Live(chg))
    <3>1. FromTheLast(chg)' /\ (Live(chg)' <=> Live(chg))
      BY <2>1, <2>2
    <3>. QED
      BY <1>4, <3>1 DEF FromTheLast, Live
  <2>4. Live(chg) => Restoring(call.path, call.new, call.files, backups[call.change])'
    BY <1>1, <1>4, <1>7 DEF Restoring
  <2>5. \E e \in Entries : e.change = chg /\ e.path = path /\ e.new = to
    BY <1>1, <1>2 DEF RevertGoesWell
  <2>. QED
    BY <1>1, <1>4, <1>6, <2>1, <2>3, <2>4, <2>5 DEF RevertGoesWell
<1>. QED
  BY <1>4, <1>7, <1>8 DEF ChangeGoesWell

(* The pod is killed in the middle of writing a file.                      *)
LEMMA KilledGoesWell ==
    ASSUME Inv, Past, ChangeGoesWell, RevertGoesWell, KilledInWrite, orderly'
    PROVE  Past' /\ ChangeGoesWell' /\ RevertGoesWell'
<1>1. call # Idle /\ call.files # {} /\ call' = Idle /\ UNCHANGED <<ledger, owned>>
  BY DEF KilledInWrite, CutShort
<1>2. CASE call.stage = "copy" /\ SetBackup(Torn) /\ UNCHANGED lib /\ CutShort(Untouched)
  <2>1. call.op # "revert"
    BY <1>1, <1>2 DEF Inv, CallIsSafe
  <2>2. \A c \in Changes : c # call.change => backups'[c] = backups[c]
    BY <1>2 DEF SetBackup, Inv, TypeOK
  <2>3. Untouched
    BY <1>2 DEF CutShort
  <2>. QED
    BY <1>1, <1>2, <2>1, <2>2, <2>3, CutGoesWell, NothingRuns
<1>3. CASE CutShort(FALSE)
  BY <1>3 DEF CutShort
<1>4. CASE /\ call.stage = "restore" /\ Restorable /\ SetFile(call.path, First, Torn)
           /\ UNCHANGED backups /\ CutShort(Live(call.change))
  <2>1. Live(call.change) /\ Torn # Absent /\ lib' = [lib EXCEPT ![call.path][First] = Torn]
    BY <1>4, ConstantsAssumption DEF CutShort, SetFile
  <2>2. \A p : Current(p)' = lib'[p]
    BY <1>1 DEF Current
  <2>. QED
    BY <1>1, <1>4, <2>1, <2>2, OneRestored, NothingRuns
<1>. QED
  BY <1>2, <1>3, <1>4 DEF KilledInWrite

----------------------------------------------------------------------------
(* At the start nothing is recorded and the library is as delivered.       *)
LEMMA InitIsDelivered == Init => RevertInv
<1>. SUFFICES ASSUME Init PROVE Past /\ ChangeGoesWell /\ RevertGoesWell
  BY DEF RevertInv
<1>1. Entries = {} /\ Alive = {} /\ call = Idle /\ owned = Listing(lib)
  BY DEF Init, Entries, Alive
<1>2. LedgerInOrder /\ EachFollows /\ RevertedOnes
  BY <1>1 DEF LedgerInOrder, EachFollows, RevertedOnes
<1>3. ASSUME NEW p \in Places PROVE Matches(p, View(0, p))
  <2>1. View(0, p) = lib[p]
    BY <1>1 DEF View, Later, Current
  <2>2. ASSUME NEW t \in [place : {p}, file : Files, content : Contents \ {Absent}]
        PROVE  t \in Listing(lib) <=> lib[p][t.file] = t.content
    <3>1. t.place = p /\ t.file \in Files /\ t.content # Absent
          /\ t = [place |-> p, file |-> t.file, content |-> t.content]
      OBVIOUS
    <3>2. ASSUME t \in Listing(lib) PROVE lib[p][t.file] = t.content
      <4>1. PICK pf \in Places \X Files :
               t = [place |-> pf[1], file |-> pf[2], content |-> lib[pf[1]][pf[2]]]
        BY <3>2 DEF Listing
      <4>. QED
        BY <3>1, <4>1
    <3>3. ASSUME lib[p][t.file] = t.content PROVE t \in Listing(lib)
      <4>. DEFINE pf == <<p, t.file>>
      <4>1. pf \in Places \X Files /\ pf[1] = p /\ pf[2] = t.file
        BY <3>1
      <4>. HIDE DEF pf
      <4>. QED
        BY <3>1, <3>3, <4>1 DEF Listing
    <3>. QED
      BY <3>2, <3>3
  <2>. QED
    BY <1>1, <2>1, <2>2 DEF Matches
<1>4. ChangeGoesWell /\ RevertGoesWell
  BY <1>1 DEF ChangeGoesWell, RevertGoesWell
<1>. QED
  BY <1>2, <1>3, <1>4 DEF Past, StartsDelivered

(* Every step keeps the past readable.                                     *)
LEMMA NextGoesWell ==
    ASSUME Inv, RevertInv, ~ReusesPlaces, [Next]_vars
    PROVE  RevertInv'
<1>. SUFFICES ASSUME orderly' PROVE Past' /\ ChangeGoesWell' /\ RevertGoesWell'
  BY DEF RevertInv
<1>1. CASE OnRequest
  <2>1. CASE \E p \in Places : next <= MaxManual /\ Begin(p, Requested, BOOLEAN)
    <3>1. next \in Changes /\ Requested \in SUBSET (Names \cup {NoName})
      BY <2>1, ConstantsAssumption DEF Inv, TypeOK, Changes
    <3>2. Past
      BY <2>1 DEF RevertInv, Begin
    <3>. QED
      BY <2>1, <3>1, <3>2, BeginGoesWell
  <2>2. CASE \E e \in ledger : RevertStart(e)
    <3>1. Past
      BY <2>2 DEF RevertInv, RevertStart
    <3>. QED
      BY <2>2, <3>1, RevertStartGoesWell
  <2>. QED
    BY <1>1, <2>1, <2>2 DEF OnRequest
<1>2. CASE Sweep
  <2>1. next \in Changes /\ {NoName} \in SUBSET (Names \cup {NoName})
    BY <1>2, ConstantsAssumption DEF Inv, TypeOK, Changes, Sweep
  <2>2. Past
    BY <1>2 DEF RevertInv, Sweep, Begin
  <2>. QED
    BY <1>2, <2>1, <2>2, BeginGoesWell DEF Sweep
<1>3. CASE Raises \/ MustRaise
  BY <1>3, RaisesGoesWell DEF Raises, MustRaise
<1>4. CASE \E i \in Incoming : Import(i.place, i.album)
  <2>1. Past /\ ChangeGoesWell /\ RevertGoesWell
    BY <1>4 DEF RevertInv, Import
  <2>. QED
    BY <1>4, <2>1, ImportGoesWell, ConstantsAssumption
<1>5. CASE LeaveAlone \/ UNCHANGED vars
  <2>1. UNCHANGED <<lib, backups, ledger, call, owned, orderly>>
    BY <1>5 DEF LeaveAlone, vars
  <2>2. \A p : Current(p)' = Current(p)
    BY <2>1 DEF Current
  <2>3. Past /\ ChangeGoesWell /\ RevertGoesWell
    BY <2>1 DEF RevertInv
  <2>4. Past'
    BY <2>1, <2>2, <2>3, PastSame, LedgerSame DEF Inv
  <2>5. ChangeGoesWell'
    BY <2>1, <2>3 DEF ChangeGoesWell, Current, First
  <2>6. RevertGoesWell'
    BY <2>1, <2>3 DEF RevertGoesWell, Restoring, Entries, Live, FromTheLast
  <2>. QED
    BY <2>4, <2>5, <2>6
<1>6. CASE Copy \/ Move \/ Write \/ MoveBack \/ Restore \/ WriteSwallowed \/ KilledInWrite \/ Record
  <2>1. Past /\ ChangeGoesWell /\ RevertGoesWell
    BY <1>6 DEF RevertInv, Copy, Move, Write, MoveBack, Restore, WriteSwallowed, KilledInWrite,
                CutShort, Record
  <2>2. CASE Record
    <3>1. call' = Idle
      BY <2>2 DEF Record
    <3>. QED
      BY <2>1, <2>2, <3>1, RecordChangeGoesWell, RecordRevertGoesWell, NothingRuns
  <2>. QED
    BY <1>6, <2>1, <2>2, CopyGoesWell, MoveGoesWell, WriteGoesWell, MoveBackGoesWell,
       RestoreGoesWell, KilledGoesWell
<1>. QED
  BY <1>1, <1>2, <1>3, <1>4, <1>5, <1>6 DEF Next, Steps

(* When nothing is live, the oldest view is the library itself.            *)
LEMMA RevertIsFull == Inv /\ RevertInv => FullyRevertible
<1>. SUFFICES ASSUME Inv, RevertInv, call = Idle, orderly, \A c \in Changes : ~Live(c)
              PROVE  Listing(lib) = owned
  BY DEF FullyRevertible
<1>1. Alive = {}
  BY EntryTypes DEF Inv, Alive
<1>2. \A p : View(0, p) = lib[p]
  BY <1>1 DEF View, Later, Current
<1>3. ASSUME NEW p \in Places, NEW f \in Files, NEW c \in Contents, c # Absent,
             NEW t, t = [place |-> p, file |-> f, content |-> c]
      PROVE  t \in owned <=> lib[p][f] = c
  <2>1. Matches(p, lib[p])
    BY <1>2 DEF RevertInv, Past, StartsDelivered
  <2>2. t \in [place : {p}, file : Files, content : Contents \ {Absent}] /\ t.file = f /\ t.content = c
    BY <1>3
  <2>. QED
    BY <2>1, <2>2 DEF Matches
<1>4. ASSUME NEW t \in owned PROVE t \in Listing(lib)
  <2>1. /\ t.place \in Places /\ t.file \in Files /\ t.content \in Versions
        /\ t = [place |-> t.place, file |-> t.file, content |-> t.content]
    BY DEF Inv, TypeOK
  <2>2. t.content \in Contents /\ t.content # Absent
    BY <2>1, ConstantsAssumption DEF Contents
  <2>3. lib[t.place][t.file] = t.content
    BY <1>3, <2>1, <2>2
  <2>. DEFINE pf == <<t.place, t.file>>
  <2>4. pf \in Places \X Files /\ pf[1] = t.place /\ pf[2] = t.file
    BY <2>1
  <2>. HIDE DEF pf
  <2>. QED
    BY <2>1, <2>2, <2>3, <2>4 DEF Listing
<1>5. ASSUME NEW t \in Listing(lib) PROVE t \in owned
  <2>1. PICK pf \in Places \X Files :
           /\ lib[pf[1]][pf[2]] # Absent
           /\ t = [place |-> pf[1], file |-> pf[2], content |-> lib[pf[1]][pf[2]]]
    BY <1>5 DEF Listing
  <2>2. pf[1] \in Places /\ pf[2] \in Files /\ lib[pf[1]][pf[2]] \in Contents
    BY DEF Inv, TypeOK
  <2>. QED
    BY <1>3, <2>1, <2>2
<1>. QED
  BY <1>4, <1>5

(* server.py:517-537, 576-650: for every library and every history of      *)
(* retags, moves and reverts, among them reverts that raised, were killed  *)
(* half-way or were repeated: once every recorded change is reverted from  *)
(* the last to the first, the library is, file for file and byte for byte, *)
(* what its importers made it.                                             *)
THEOREM RevertsFully ==
    ASSUME ~ReusesPlaces
    PROVE  Spec => []FullyRevertible
<1>1. Inv /\ RevertInv /\ [Next]_vars => Inv' /\ RevertInv'
  BY NextKeeps, NextGoesWell
<1>2. Init => Inv /\ RevertInv
  BY InitEstablishes, InitIsDelivered
<1>. QED
  BY <1>1, <1>2, RevertIsFull, PTL DEF Spec
=============================================================================
