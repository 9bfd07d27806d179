--------------------------- MODULE MCRickLibrary ---------------------------
(***************************************************************************)
(* Two artists, one of them with a slash in the name and one with an       *)
(* alias, which is what its files say.  In the folder of A: an album of    *)
(* its own with one wrong label, and one of B; a compilation on which B    *)
(* appears is still to be imported.  Recordings are named after the artist *)
(* and the track.                                                          *)
(***************************************************************************)
EXTENDS RickLibrary, TLC

CONSTANTS A, Alias, SlashB, FolderB, a, b, a1, a2, b1, i1, VA

MCNames == {A, Alias, SlashB, FolderB, VA}
MCRecordings == {a1, a2, b1, i1}
MCSimilar == {<<SlashB, FolderB>>, <<FolderB, SlashB>>}
MCSafeArtist == [n \in MCNames |-> IF n = SlashB THEN FolderB ELSE n]
MCArtistTag == (a1 :> Alias) @@ (a2 :> Alias) @@ (b1 :> SlashB) @@ (i1 :> SlashB)
MCArtistId == (a1 :> a) @@ (a2 :> a) @@ (b1 :> b) @@ (i1 :> NoMbid)
MCAlbumArtistId == (a1 :> a) @@ (a2 :> a) @@ (b1 :> b) @@ (i1 :> b)
MCMbidOfName == A :> a
MCNameOfMbid == (a :> A) @@ (b :> SlashB)
MCShipped == (a1 :> SlashB) @@ (a2 :> A) @@ (b1 :> NoName) @@ (i1 :> VA)
MCStocked == (<<A, 1>> :> <<a1, a2>>) @@ (<<A, 2>> :> <<b1, Absent>>)
MCIncoming == {[place |-> <<FolderB, 1>>, album |-> <<i1, Absent>>]}
============================================================================
