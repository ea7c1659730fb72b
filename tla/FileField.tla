------------------------------ MODULE FileField ------------------------------
(***************************************************************************)
(* The file input of the console's forms (file-input.tsx): files are       *)
(* dropped on it and removed again, the removal perhaps only after a check *)
(* that takes its time, and each file that was dropped has an object URL   *)
(* its preview is drawn from.  The handler of a removal is the one of the  *)
(* drawing that was on the screen when its button was pressed: what it     *)
(* leaves in the form are the files it knew then, without the one removed. *)
(***************************************************************************)
EXTENDS Naturals

CONSTANT MaxFiles   \* bound on the files dropped

ASSUME MaxFilesAssumption == MaxFiles \in Nat

VARIABLES
    ffMultiple,  \* the input takes several files
    ffChecked,   \* removals are checked (validateFileRemoval)
    ffFiles,     \* the files in the form; their order does not matter
    ffDropped,   \* files dropped so far
    ffAsking,    \* removals under check: the file, and the files seen then
    ffUrls,      \* files whose object URL is alive
    ffMeant,     \* history: the files the user put in and did not take out
    ffCrossed    \* history: something else happened while a check was out,
                 \* or a drop of nothing emptied the field

ffVars == <<ffMultiple, ffChecked, ffFiles, ffDropped, ffAsking, ffUrls,
            ffMeant, ffCrossed>>

FFInit ==
    /\ ffMultiple \in BOOLEAN /\ ffChecked \in BOOLEAN
    /\ ffFiles = {} /\ ffDropped = 0
    /\ ffAsking = {} /\ ffUrls = {}
    /\ ffMeant = {} /\ ffCrossed = FALSE

-----------------------------------------------------------------------------
(* onDrop: several files are added to, one takes the place of what is there.*)
WithDroppedAppended(file) == ffFiles \cup {file}
WithDropped(file) == IF ffMultiple THEN ffFiles \cup {file} ELSE {file}

(* What a removal leaves of the files its handler knew. *)
WithoutFile(files, file) ==
    IF ffMultiple THEN files \ {file} ELSE {}

(* The URL the clean-up of a preview gives back: the one under `preview',  *)
(* where the input never puts any; the one it made is under `src'.         *)
Revoked(before, after) == {}

(* The previews are drawn anew; one whose file changes, or that goes, is   *)
(* cleaned up.                                                             *)
Redrawn(files) == ffUrls' = (ffUrls \cup files) \ Revoked(ffFiles, files)

Drop ==
    /\ ffDropped < MaxFiles
    /\ ffDropped' = ffDropped + 1
    /\ ffFiles' = WithDropped(ffDropped')
    /\ Redrawn(ffFiles')
    /\ ffMeant' = {ffDropped'} \cup (IF ffMultiple THEN ffMeant ELSE {})
    /\ ffCrossed' = (ffCrossed \/ ffAsking # {})
    /\ UNCHANGED <<ffMultiple, ffChecked, ffAsking>>

(* None of the files is accepted: an input for one file is emptied.        *)
DropRejected ==
    /\ ffFiles' = IF ffMultiple THEN ffFiles ELSE {}
    /\ Redrawn(ffFiles')
    /\ ffCrossed' = (ffCrossed \/ ffFiles' # ffFiles \/ ffAsking # {})
    /\ UNCHANGED <<ffMultiple, ffChecked, ffDropped, ffAsking, ffMeant>>

(* onRemove, up to the check. *)
AskRemoval(file) ==
    /\ ffChecked
    /\ ffAsking' = ffAsking \cup {[file |-> file, seen |-> ffFiles]}
    /\ ffCrossed' = (ffCrossed \/ ffAsking # {})
    /\ UNCHANGED <<ffMultiple, ffChecked, ffFiles, ffDropped, ffUrls, ffMeant>>

RemovalRefused(removal) ==
    /\ ffAsking' = ffAsking \ {removal}
    /\ UNCHANGED <<ffMultiple, ffChecked, ffFiles, ffDropped, ffUrls, ffMeant, ffCrossed>>

RemovalPasses(removal) ==
    /\ ffAsking' = ffAsking \ {removal}
    /\ ffFiles' = WithoutFile(removal.seen, removal.file)
    /\ Redrawn(ffFiles')
    /\ ffMeant' = ffMeant \ {removal.file}
    /\ UNCHANGED <<ffMultiple, ffChecked, ffDropped, ffCrossed>>

RemoveAtOnce(file) ==
    /\ ~ ffChecked
    /\ ffFiles' = WithoutFile(ffFiles, file)
    /\ Redrawn(ffFiles')
    /\ ffMeant' = ffMeant \ {file}
    /\ UNCHANGED <<ffMultiple, ffChecked, ffDropped, ffAsking, ffCrossed>>

FFNext ==
    \/ Drop \/ DropRejected
    \/ \E f \in ffFiles : AskRemoval(f) \/ RemoveAtOnce(f)
    \/ \E r \in ffAsking : RemovalRefused(r) \/ RemovalPasses(r)

FFSpec == FFInit /\ [][FFNext]_ffVars

-----------------------------------------------------------------------------
(* Files and removals are well formed, and the preview of every file in    *)
(* the form has its URL, one that a late removal brings back too.  (No URL *)
(* is ever given back.)                                                    *)
FFTypeOK ==
    /\ ffMultiple \in BOOLEAN /\ ffChecked \in BOOLEAN /\ ffCrossed \in BOOLEAN
    /\ ffDropped \in 0..MaxFiles
    /\ ffFiles \subseteq 1..ffDropped /\ ffFiles \subseteq ffUrls
    /\ \A r \in ffAsking : r.file \in r.seen /\ r.seen \subseteq 1..ffDropped

(* The form holds the files the user put in and did not take out, unless a *)
(* file was dropped or another removal asked for while one was checked:    *)
(* the removal that passes writes the list its handler knew, without what  *)
(* was added and with what was removed meanwhile; or a drop of which no    *)
(* file was accepted emptied an input for one file.                        *)
FilesAsMeant == ~ ffCrossed => ffFiles = ffMeant
-----------------------------------------------------------------------------
(* The inductive invariant: no removal is under check where none is        *)
(* checked; and as long as nothing crossed, there is one at most, and it   *)
(* knows the files there are.                                              *)
AskedInPeace ==
    /\ ~ ffChecked => ffAsking = {}
    /\ ~ ffCrossed => \A r \in ffAsking : r.seen = ffFiles /\ \A s \in ffAsking : s = r

(* An input for one file holds one file at most, and so did every list     *)
(* that a removal knows.                                                   *)
OneAtMost ==
    ~ ffMultiple => \A files \in {ffFiles} \cup {r.seen : r \in ffAsking} :
                        \A f, g \in files : f = g

FFInv == /\ FFTypeOK
         /\ \A r \in ffAsking : r = [file |-> r.file, seen |-> r.seen] /\ r.seen \subseteq ffUrls
         /\ OneAtMost /\ AskedInPeace /\ FilesAsMeant
=============================================================================
