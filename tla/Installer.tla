----------------------------- MODULE Installer ------------------------------
(***************************************************************************)
(* The self-extractor, src/sfx/w2k_sfx.c: it checks the footer at its own  *)
(* end, asks where to extract, copies the cabinet in front of the footer   *)
(* to a temporary file, compares its checksum, and has setupapi extract it *)
(* file by file through cabinet_callback.  Any step may fail, and the      *)
(* program may be stopped at any moment and run again.                     *)
(***************************************************************************)
EXTENDS Naturals, Sequences, FiniteSets

CONSTANTS Cabinets       \* the lists of names a cabinet may hold, each a text

ASSUME CabinetsAssumption == Cabinets \subseteq Seq(Seq(STRING))

Backslash == "\\"
Slash == "/"
Dot == "."
Colon == ":"

\* The range of a sequence.
ToSet(s) == {s[i] : i \in DOMAIN s}

VARIABLES
    cabinet,      \* the names, in the order of the cabinet
    damaged,      \* the cabinet was damaged on its way here
    stage,        \* where WinMain is
    temp,         \* the temporary file: "none", "there", or "left" by a run that was stopped
    seen,         \* context.files_seen
    failed,       \* context.failed, or setupapi's own failure
    disk,         \* what is at each name under the destination
    dialog        \* the last box the user was shown

ivars == <<cabinet, damaged, stage, temp, seen, failed, disk, dialog>>
----------------------------------------------------------------------------
\* Mutant: one of the two separators is overlooked.
BeginsByBackslash(n, i) == i = 1 \/ n[i - 1] = Backslash

\* Where a component of the path begins.
Begins(n, i) == i = 1 \/ n[i - 1] \in {Backslash, Slash}

\* safe_relative_name: character by character, looking behind and ahead.
SafeName(n) ==
    /\ n # <<>>
    /\ n[1] \in {Backslash, Slash, Dot} => n = <<Dot>>
    /\ \A i \in DOMAIN n :
          /\ n[i] # Colon
          /\ ~ /\ Begins(n, i)
               /\ n[i] = Dot
               /\ i < Len(n) /\ n[i + 1] = Dot
               /\ i + 1 = Len(n) \/ n[i + 2] \in {Backslash, Slash}

IInit ==
    /\ cabinet \in Cabinets
    /\ damaged \in BOOLEAN
    /\ stage = "off"
    /\ temp = "none"
    /\ seen = 0 /\ failed = FALSE
    /\ disk \in [ToSet(cabinet) -> {"absent", "old"}]
    /\ dialog = "none"

Start ==
    /\ stage = "off"
    /\ stage' = "check"
    /\ seen' = 0 /\ failed' = FALSE
    /\ dialog' = "none"
    /\ UNCHANGED <<cabinet, damaged, temp, disk>>

Continue(from, to) ==
    /\ stage = from
    /\ stage' = to
    /\ UNCHANGED <<cabinet, damaged, seen, failed, disk, dialog>>

\* The footer, the consent and the destination, the temporary file, its copy.
Check     == Continue("check", "ask") /\ UNCHANGED temp
Cancel    == Continue("ask", "off") /\ UNCHANGED temp
Consent   == Continue("ask", "prepare") /\ UNCHANGED temp
MakeTemp  == Continue("prepare", "copy") /\ temp' = "there"
Copy      == Continue("copy", "load") /\ ~damaged /\ UNCHANGED temp

\* The label fail: the temporary file goes, and a box says that the extraction failed.
Fail ==
    /\ stage' = "off"
    /\ temp' = "none"
    /\ dialog' = "failure"
    /\ UNCHANGED <<cabinet, damaged, seen, failed, disk>>

\* No file to open or to create, no memory, a short read or write, a wrong
\* checksum, no setupapi.
StepFails == stage \in {"check", "ask", "prepare", "copy", "load"} /\ Fail

\* SetupIterateCabinetA calls back for each file, with its name, ...
FileInCabinet ==
    /\ stage \in {"load", "next"} /\ seen < Len(cabinet)
    /\ seen' = seen + 1
    /\ \/ /\ SafeName(cabinet[seen + 1])
          /\ disk' = [disk EXCEPT ![cabinet[seen + 1]] = "partial"]
          /\ stage' = "extract" /\ UNCHANGED failed
       \/ /\ failed' = TRUE                        \* the name, its length, its folder
          /\ stage' = "finish" /\ UNCHANGED disk
    /\ UNCHANGED <<cabinet, damaged, temp, dialog>>

\* ... and when the file is written, or could not be.
FileExtracted ==
    /\ stage = "extract"
    /\ \/ /\ disk' = [disk EXCEPT ![cabinet[seen]] = "new"]
          /\ stage' = "next" /\ UNCHANGED failed
       \/ failed' = TRUE /\ stage' = "finish" /\ UNCHANGED disk
    /\ UNCHANGED <<cabinet, damaged, temp, seen, dialog>>

\* The iteration ends by itself, or setupapi gives up after a file.
IterationEnds ==
    /\ stage = "next"
    /\ failed' \in IF seen = Len(cabinet) THEN BOOLEAN ELSE {TRUE}
    /\ stage' = "finish"
    /\ UNCHANGED <<cabinet, damaged, temp, seen, disk, dialog>>

\* Mutant: the outcome goes by the number of files.
OutcomeOfCount == IF seen = 0 THEN "failure" ELSE "success"
Outcome == IF failed THEN "failure" ELSE "success"

Finish ==
    /\ stage = "finish"
    /\ stage' = "off"
    /\ temp' = "none"
    /\ dialog' = Outcome
    /\ UNCHANGED <<cabinet, damaged, seen, failed, disk>>

\* The process is stopped; what it has written stays, its temporary file too.
Stopped ==
    /\ stage # "off"
    /\ stage' = "off"
    /\ temp' = IF temp = "there" THEN "left" ELSE temp
    /\ UNCHANGED <<cabinet, damaged, seen, failed, disk, dialog>>

INext ==
    \/ Check \/ Cancel \/ Consent \/ MakeTemp \/ Copy \/ StepFails
    \/ FileInCabinet \/ FileExtracted \/ IterationEnds \/ Finish \/ Stopped
----------------------------------------------------------------------------
\* Where the components of a path begin, behind the start or a separator, and
\* where they end.
Starts(n) == {i \in 0 .. Len(n) : i = 0 \/ n[i] \in {Backslash, Slash}}

EndOf(n, i) ==
    CHOOSE j \in i + 1 .. Len(n) + 1 :
        /\ j = Len(n) + 1 \/ n[j] \in {Backslash, Slash}
        /\ \A k \in i + 1 .. j - 1 : n[k] \notin {Backslash, Slash}

Component(n, i) == SubSeq(n, i + 1, EndOf(n, i) - 1)

Ups(n, i)   == {j \in Starts(n) : j <= i /\ Component(n, j) = <<Dot, Dot>>}
Downs(n, i) == {j \in Starts(n) : j <= i /\ Component(n, j) \notin {<<>>, <<Dot>>, <<Dot, Dot>>}}

\* A path stays in the folder it starts in: at no component has it gone up more
\* often than down, and no colon or leading separator leaves the folder at once.
Inside(n) ==
    /\ Colon \notin ToSet(n)
    /\ n # <<>> => n[1] \notin {Backslash, Slash}
    /\ \A i \in Starts(n) : Cardinality(Ups(n, i)) <= Cardinality(Downs(n, i))

(* The box "Extraction completed successfully" means that every file of    *)
(* the cabinet is in the folder as it was packed, whatever earlier runs    *)
(* left there, and that the cabinet was not damaged; a run that was not    *)
(* stopped leaves no temporary file (w2k_sfx.c:136-174, 296-371).          *)
ExtractionIsSound ==
    /\ dialog = "success" => ~damaged /\ \A n \in DOMAIN disk : disk[n] = "new"
    /\ stage = "off" => temp # "there"

(* A file is never written outside the destination, whatever names the     *)
(* cabinet holds (safe_relative_name, w2k_sfx.c:86-100).                   *)
StaysInside == \A n \in DOMAIN disk : disk[n] \in {"partial", "new"} => Inside(n)
============================================================================
