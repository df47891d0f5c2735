----------------------------- MODULE PatchChain -----------------------------
(***************************************************************************)
(* The production patch chain: the scripts of patches/ applied to one      *)
(* unpacked Supermium package, in whatever order and as often as somebody  *)
(* runs them.  Most scripts compare the SHA-256 of their input with one    *)
(* value, some look at the bytes they replace only, one walks over the     *)
(* whole tree and one writes two files.  A script may be killed while it   *)
(* writes, and the build guide lets the user start from a fresh copy.      *)
(*                                                                         *)
(* A file is the set of the edits it has received.  That determines its    *)
(* bytes: edits that may come in either order (the first four scripts')    *)
(* touch disjoint bytes and no checksum, and every later one is made on    *)
(* one input only, or is the only one so far (candidate 12 on chrome.dll). *)
(* A SHA-256 test is therefore an equation between sets, and the byte tests*)
(* that follow one (stubs, empty code caves, relocations, section flags)   *)
(* are settled by it.  A file that was truncated for writing and not       *)
(* written in full is "torn": it passes no SHA-256 test, and what a byte   *)
(* test finds in what is left of it is left open.                          *)
(***************************************************************************)
EXTENDS Naturals, Sequences, FiniteSets

CONSTANTS BridgeNeedsPE,   \* whether patch_w2k_pe would change w2ksync.dll
          MaxCrashes       \* bound: how many scripts are killed while they write

ASSUME PatchAssumption == BridgeNeedsPE \in BOOLEAN /\ MaxCrashes \in Nat

File == {"chrome.dll", "chrome.exe", "p_cryptp", "p_ole", "pwrp", "w2ksync"}

\* The files of the package whose headers or imports patch_w2k_pe changes, as
\* its manifest lists them, and perhaps the bridge.
NeedsPE == {"p_cryptp", "p_ole", "pwrp"}
               \cup (IF BridgeNeedsPE THEN {"w2ksync"} ELSE {})

\* The order in which sorted(rglob("*")) visits them, the bridge last, if it is there.
TreeOrder == << "chrome.dll", "chrome.exe", "p_cryptp", "p_ole", "pwrp" >>

\* The order of the build guide; "sync" installs w2ksync.dll with the bridges.
Chain == << "pe", "cryptp", "c3", "c4", "c5", "c6", "c7", "c8", "c9", "sync",
            "c11", "c12", "route", "c13", "c14", "c17", "c18", "c19" >>

Script == {Chain[i] : i \in DOMAIN Chain}
Edit   == (Script \ {"sync"}) \cup {"half pe"}

Whole(edits) == [is |-> "whole", edits |-> edits]
Torn         == [is |-> "torn", edits |-> {}]
Absent       == [is |-> "absent", edits |-> {}]

Off == Len(Chain) + 1

VARIABLES tree,       \* what each file holds
          walk,       \* the files patch_w2k_pe has still to visit
          half,       \* candidate 12 has written pwrp_k32.dll, not chrome.dll
          outcome,    \* how the last script ended
          accepted,   \* history: the scripts that reported success on this copy
          progress,   \* history: how much of Chain ran in order, or Off
          crashes     \* bounds the crashes

vars == << tree, walk, half, outcome, accepted, progress, crashes >>

Upstream == [f \in File |-> IF f = "w2ksync" THEN Absent ELSE Whole({})]

Init ==
    /\ tree = Upstream
    /\ walk = << >>
    /\ half = FALSE
    /\ outcome = "ok"
    /\ accepted = {}
    /\ progress = 0
    /\ crashes = 0

Idle == walk = << >> /\ ~half

InOrder(s) == progress < Len(Chain) /\ Chain[progress + 1] = s

-----------------------------------------------------------------------------
(* How a script ends. *)

Succeed(s) ==
    /\ outcome' = "ok"
    /\ accepted' = accepted \cup {s}
    /\ progress' = IF InOrder(s) THEN progress + 1 ELSE Off

\* SystemExit or an exception before anything of this file is written.
Refuse(s) ==
    /\ outcome' = "refused"
    /\ progress' = IF InOrder(s) THEN progress ELSE Off
    /\ UNCHANGED << tree, accepted, crashes >>

\* Killed: file f is left as c.
Killed(f, c) ==
    /\ crashes < MaxCrashes
    /\ crashes' = crashes + 1
    /\ tree' = [tree EXCEPT ![f] = c]
    /\ outcome' = "killed"
    /\ progress' = Off
    /\ UNCHANGED accepted

\* write_bytes truncates the file and writes all of it.
Patched(c, s) == IF c.is = "torn" THEN Torn ELSE [c EXCEPT !.edits = @ \cup {s}]

WriteBytes(s, f) ==
    /\ tree' = [tree EXCEPT ![f] = Patched(@, s)]
    /\ Succeed(s)
    /\ UNCHANGED crashes

\* A kill comes while the file is short, or when the report is still to be made.
WriteOrDie(s, f) ==
    \/ WriteBytes(s, f)
    \/ \E c \in {Torn, Patched(tree[f], s)} : Killed(f, c)

\* digest(before) is compared with INPUT_SHA256, then the file is written.
Sha(s, f, input) ==
    /\ Idle
    /\ \/ tree[f] = Whole(input) /\ WriteOrDie(s, f)
       \/ tree[f] # Whole(input) /\ Refuse(s)
    /\ UNCHANGED << walk, half >>

\* Only the bytes to be replaced are compared.
Bytes(s, f) ==
    /\ Idle
    /\ \/ s \notin tree[f].edits /\ WriteOrDie(s, f)
       \/ (tree[f].is = "torn" \/ s \in tree[f].edits) /\ Refuse(s)
    /\ UNCHANGED << walk, half >>
-----------------------------------------------------------------------------
(* patch_w2k_pe: every .dll and .exe of the tree, one after the other. *)

StartPE ==
    /\ Idle
    /\ walk' = IF tree["w2ksync"].is = "absent" THEN TreeOrder
                                               ELSE Append(TreeOrder, "w2ksync")
    /\ UNCHANGED << tree, half, outcome, accepted, progress, crashes >>

\* before_os, before_subsystem or an import differ from what is wanted.
Changes(f) == f \in NeedsPE /\ "pe" \notin tree[f].edits

Headed(c) == IF c.is = "torn" THEN Torn ELSE Whole((c.edits \ {"half pe"}) \cup {"pe"})

\* The fields are written in place, so a kill leaves some of them changed.
HalfHeaded(c) == IF c.is = "torn" THEN Torn ELSE Whole(c.edits \cup {"half pe"})

VisitPE ==
    /\ walk # << >>
    /\ LET f == Head(walk) IN
       \/ /\ tree' = [tree EXCEPT ![f] = IF Changes(f) THEN Headed(@) ELSE @]
          /\ walk' = Tail(walk)
          /\ IF walk' = << >> THEN Succeed("pe")
                              ELSE UNCHANGED << outcome, accepted, progress >>
          /\ UNCHANGED crashes
       \/ /\ Changes(f)
          /\ walk' = << >>
          /\ \E c \in {tree[f], HalfHeaded(tree[f]), Headed(tree[f])} : Killed(f, c)
    /\ UNCHANGED half
-----------------------------------------------------------------------------
(* The scripts that compare bytes. *)

\* AFTER is already there: nothing is written and the script succeeds.
AlreadyCryptp ==
    /\ Idle
    /\ tree["p_cryptp"].is = "torn" \/ "cryptp" \in tree["p_cryptp"].edits
    /\ Succeed("cryptp")
    /\ UNCHANGED << tree, walk, half, crashes >>

PatchCryptp ==
    /\ Idle
    /\ \/ "cryptp" \notin tree["p_cryptp"].edits /\ WriteOrDie("cryptp", "p_cryptp")
       \/ tree["p_cryptp"].is = "torn" /\ Refuse("cryptp")
    /\ UNCHANGED << walk, half >>

GetNativeSystemInfo == Bytes("c3", "pwrp")
Candidate4          == Bytes("c4", "pwrp")

(* The scripts that compare the SHA-256 of pwrp_k32.dll, in a row. *)

AfterC4  == {"pe", "c3", "c4"}
AfterC8  == AfterC4 \cup {"c5", "c6", "c7", "c8"}
AfterC12 == AfterC8 \cup {"c11", "c12"}

\* Mutants: candidate 18 without the test of the hash, and the routing script
\* made to follow it.
Unhashed18 == Bytes("c18", "pwrp")
RouteLast  == Sha("route", "pwrp", AfterC12 \cup {"c18"})

Candidate5  == Sha("c5", "pwrp", AfterC4)
Candidate6  == Sha("c6", "pwrp", AfterC4 \cup {"c5"})
Candidate7  == Sha("c7", "pwrp", AfterC4 \cup {"c5", "c6"})
Candidate8  == Sha("c8", "pwrp", AfterC4 \cup {"c5", "c6", "c7"})
Candidate11 == Sha("c11", "pwrp", AfterC8)
Route       == Sha("route", "pwrp", AfterC12)
Candidate18 == Sha("c18", "pwrp", AfterC12 \cup {"route"})

(* The ones that compare that of another file. *)

Candidate9  == Sha("c9", "chrome.dll", {})
Candidate13 == Sha("c13", "chrome.dll", {"c9", "c12"})
Candidate14 == Sha("c14", "chrome.dll", {"c9", "c12", "c13"})
Candidate17 == Sha("c17", "p_ole", {"pe"})
Candidate19 == Sha("c19", "chrome.exe", {})

\* The bridges are copied into the tree, now or again.
InstallSync ==
    /\ Idle
    /\ tree' = [tree EXCEPT !["w2ksync"] = Whole({})]
    /\ Succeed("sync")
    /\ UNCHANGED << walk, half, crashes >>
-----------------------------------------------------------------------------
(* Candidate 12 tests and writes pwrp_k32.dll, then tests and writes        *)
(* chrome.dll.                                                             *)

\* Mutant: only the bytes to be replaced are compared.
PwrpUnhashed == tree["pwrp"].is = "whole" /\ "c12" \notin tree["pwrp"].edits

SyncValidated == tree["w2ksync"] = Whole({})

PwrpValidated == tree["pwrp"] = Whole(AfterC8 \cup {"c11"})

Candidate12Pwrp ==
    /\ Idle
    /\ \/ /\ SyncValidated /\ PwrpValidated
          /\ \/ /\ tree' = [tree EXCEPT !["pwrp"] = Patched(@, "c12")]
                /\ half' = TRUE
                /\ UNCHANGED << outcome, accepted, progress, crashes >>
             \/ Killed("pwrp", Torn) /\ UNCHANGED half
       \/ /\ ~(SyncValidated /\ PwrpValidated)
          /\ Refuse("c12")
          /\ UNCHANGED half
    /\ UNCHANGED walk

\* The one test is that the old counter's name occurs once.
Candidate12Chrome ==
    /\ half
    /\ half' = FALSE
    /\ \/ "c12" \notin tree["chrome.dll"].edits /\ WriteOrDie("c12", "chrome.dll")
       \/ tree["chrome.dll"].is = "torn" /\ Refuse("c12")
       \/ Killed("chrome.dll", tree["chrome.dll"])
    /\ UNCHANGED walk
-----------------------------------------------------------------------------
FreshCopy ==
    /\ Idle
    /\ tree' = Upstream
    /\ outcome' = "ok"
    /\ accepted' = {}
    /\ progress' = 0
    /\ UNCHANGED << walk, half, crashes >>

Next ==
    \/ StartPE \/ VisitPE
    \/ AlreadyCryptp \/ PatchCryptp
    \/ GetNativeSystemInfo \/ Candidate4 \/ Candidate5 \/ Candidate6
    \/ Candidate7 \/ Candidate8 \/ Candidate9 \/ InstallSync
    \/ Candidate11 \/ Candidate12Pwrp \/ Candidate12Chrome \/ Route
    \/ Candidate13 \/ Candidate14 \/ Candidate17 \/ Candidate18 \/ Candidate19
    \/ FreshCopy

Spec == Init /\ [][Next]_vars
-----------------------------------------------------------------------------
(* What each file holds when its part of the chain is through, the script   *)
(* that comes last, and what it holds on the way there.                    *)

Final == [f \in File |->
    CASE f = "pwrp"       -> AfterC12 \cup {"route", "c18"}
      [] f = "chrome.dll" -> {"c9", "c12", "c13", "c14"}
      [] f = "chrome.exe" -> {"c19"}
      [] f = "p_ole"      -> {"pe", "c17"}
      [] f = "p_cryptp"   -> {"pe", "cryptp"}
      [] OTHER            -> {}]

Last == [f \in {"pwrp", "chrome.dll", "chrome.exe", "p_ole"} |->
    CASE f = "pwrp"       -> "c18"
      [] f = "chrome.dll" -> "c14"
      [] f = "chrome.exe" -> "c19"
      [] OTHER            -> "c17"]

\* The first i scripts of the chain leave this much of the final contents.
Prefix(f, i) == Final[f] \cap {Chain[k] : k \in 1 .. i}

OnTheWay(f, edits) ==
    \/ \E i \in 0 .. Len(Chain) : edits = Prefix(f, i)
    \/ edits \subseteq {"pe", "half pe", "cryptp", "c3", "c4"}
    \/ f = "w2ksync"

TypeOK ==
    /\ tree \in [File -> {Whole(e) : e \in SUBSET Edit} \cup {Torn, Absent}]
    /\ walk \in Seq(File)
    /\ half \in BOOLEAN
    /\ outcome \in {"ok", "refused", "killed"}
    /\ accepted \subseteq Script
    /\ progress \in 0 .. Off
    /\ crashes \in 0 .. MaxCrashes

\* A file whose last script succeeded holds every edit of its chain and no
\* other, whatever was run before, in which order, and killed where: the tests
\* of the input let nothing through.  p_cryptp.dll is not of these files, for
\* its one script may find the bytes it wants in a torn file and succeed.
FinishedIsDocumented ==
    \A f \in DOMAIN Last : Last[f] \in accepted => tree[f] = Whole(Final[f])

\* On a fresh copy no script of the documented order refuses, and after the
\* last one every file is as the release has it: the input each script expects
\* is what the ones before it leave.
DocumentedOrderGoesThrough ==
    progress # Off =>
        /\ outcome # "refused"
        /\ progress = Len(Chain) => \A f \in File : tree[f] = Whole(Final[f])

\* The two ways to a file that no script will finish: a script was killed
\* while it wrote, or candidate 12, which looks at a string of chrome.dll and
\* not at its hash, ran before candidate 9.  Between the two files of
\* candidate 12 nothing but a kill comes in.
StuckExplained ==
    /\ \A f \in File :
         \/ tree[f].is = "torn" /\ crashes > 0
         \/ tree[f].is = "absent" /\ f = "w2ksync"
         \/ tree[f].is = "whole" /\ OnTheWay(f, tree[f].edits)
         \/ f = "chrome.dll" /\ tree[f] = Whole({"c12"})
    /\ crashes = 0 /\ ~half =>
         ("c12" \in tree["pwrp"].edits <=> "c12" \in tree["chrome.dll"].edits)
=============================================================================
