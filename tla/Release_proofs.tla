--------------------------- MODULE Release_proofs ----------------------------
(***************************************************************************)
(* What the programs that make and install a release leave on the disk,    *)
(* whatever was run before, in which order, and killed where: the patch    *)
(* scripts (PatchChain), and the extractor and the certificate tool        *)
(* (Setup).  The two share nothing but this: a user runs one program       *)
(* after the other.                                                        *)
(***************************************************************************)
EXTENDS PatchChain, Setup, Positions, FiniteSetTheorems, TLAPS

(***************************************************************************)
(* The patch chain, for any number of killed scripts and whichever way     *)
(* step 1 treats the bridge.                                               *)
(*                                                                         *)
(* A file whose last script succeeded is the documented one and stays it:  *)
(* inductive but for the domain of tree.  A step that changes a finished   *)
(* file would have to find in it an input that is not the final one, and   *)
(* the step that finishes it finds the input that lacks the last edit only.*)
(*                                                                         *)
(* StuckInv says what any file may look like after any scripts in any      *)
(* order, OrderInv what every file holds after the first scripts of the    *)
(* documented order; both speak of Prefix, what these leave in a file.     *)
(***************************************************************************)

TreeOnFiles == tree = [f \in File |-> tree[f]]

Finished == DOMAIN Last

\* f is as the release has it if its last script says so.
Done(f) == Last[f] \in accepted => tree[f] = Whole(Final[f])

ChainInv == TreeOnFiles /\ FinishedIsDocumented

-----------------------------------------------------------------------------
\* Which files have a last script, which one, and what they hold then.
LEMMA LastAndFinal ==
    /\ Finished = {"pwrp", "chrome.dll", "chrome.exe", "p_ole"}
    /\ Finished \subseteq File
    /\ Last["pwrp"] = "c18" /\ Last["chrome.dll"] = "c14"
    /\ Last["chrome.exe"] = "c19" /\ Last["p_ole"] = "c17"
    /\ Final["pwrp"] = {"pe", "c3", "c4", "c5", "c6", "c7", "c8", "c11", "c12", "route", "c18"}
    /\ Final["chrome.dll"] = {"c9", "c12", "c13", "c14"}
    /\ Final["chrome.exe"] = {"c19"}
    /\ Final["p_ole"] = {"pe", "c17"}
  BY DEF Finished, Last, File, Final, AfterC4, AfterC8, AfterC12

\* Two whole files are the same when they hold the same edits, and adding an
\* edit to one gives a whole file.
LEMMA WholeFiles ==
    /\ \A a, b : Whole(a) = Whole(b) => a = b
    /\ \A a, s : Patched(Whole(a), s) = Whole(a \cup {s})
    /\ \A a : Whole(a).edits = a /\ Whole(a).is = "whole"
  <1>1. \A a : Whole(a).edits = a /\ Whole(a).is = "whole"
    BY DEF Whole
  <1>2. \A a, b : Whole(a) = Whole(b) => a = b
    BY <1>1
  <1>3. \A a, s : Patched(Whole(a), s) = Whole(a \cup {s})
    BY DEF Whole, Patched
  <1> QED
    BY <1>1, <1>2, <1>3

\* A script that touches other files, and finishes none, leaves f as it is.
LEMMA Elsewhere ==
    ASSUME NEW f, NEW s, s # Last[f], Done(f), tree'[f] = tree[f],
           accepted' \subseteq accepted \cup {s}
    PROVE  Done(f)'
  BY DEF Done

\* A script that tests the hash of its input against something that is not the
\* final contents, and that completes them if it is the last one.
LEMMA ShaStep ==
    ASSUME TreeOnFiles,
           NEW f \in Finished, Done(f),
           NEW s, NEW g \in File, NEW input, Sha(s, g, input),
           g = f => input # Final[f] /\ (s = Last[f] => input \cup {s} = Final[f]),
           g # f => s # Last[f]
    PROVE  TreeOnFiles' /\ Done(f)'
  <1>1. CASE tree[g] = Whole(input) /\ WriteBytes(s, g)
    <2>1. tree' = [tree EXCEPT ![g] = Patched(@, s)] /\ accepted' = accepted \cup {s}
      BY <1>1 DEF WriteBytes, Succeed
    <2>2. TreeOnFiles'
      BY <2>1 DEF TreeOnFiles
    <2>3. CASE g = f
      <3>1. Last[f] \notin accepted
        BY <1>1, <2>3, WholeFiles DEF Done
      <3>2. tree'[f] = Whole(input \cup {s})
        BY <1>1, <2>1, <2>3, WholeFiles DEF TreeOnFiles
      <3> QED
        BY <2>1, <2>2, <2>3, <3>1, <3>2 DEF Done
    <2>4. CASE g # f
      <3>1. tree'[f] = tree[f]
        BY <2>1, <2>4
      <3> QED
        BY <2>1, <2>2, <2>4, <3>1, Elsewhere
    <2> QED
      BY <2>3, <2>4
  <1>2. CASE tree[g] = Whole(input) /\ \E c \in {Torn, Patched(tree[g], s)} : Killed(g, c)
    <2>1. PICK c : tree' = [tree EXCEPT ![g] = c] /\ accepted' = accepted
      BY <1>2 DEF Killed
    <2>2. TreeOnFiles'
      BY <2>1 DEF TreeOnFiles
    <2>3. CASE g = f
      BY <1>2, <2>1, <2>2, <2>3, WholeFiles DEF Done
    <2>4. CASE g # f
      BY <2>1, <2>2, <2>4 DEF Done
    <2> QED
      BY <2>3, <2>4
  <1>3. CASE Refuse(s)
    BY <1>3 DEF Refuse, TreeOnFiles, Done
  <1> QED
    BY <1>1, <1>2, <1>3 DEF Sha, WriteOrDie

\* The scripts that compare the bytes of pwrp_k32.dll only do not find them in
\* the finished file, and finish none.
LEMMA BytesStep ==
    ASSUME TreeOnFiles, NEW f \in Finished, Done(f), NEW s \in {"c3", "c4"}, Bytes(s, "pwrp")
    PROVE  TreeOnFiles' /\ Done(f)'
  <1>0. s # Last[f] /\ s \in Final["pwrp"]
    BY LastAndFinal
  <1>1. CASE s \notin tree["pwrp"].edits /\ WriteOrDie(s, "pwrp")
    <2>1. PICK c : /\ tree' = [tree EXCEPT !["pwrp"] = c]
                   /\ accepted' \subseteq accepted \cup {s}
      <3>1. CASE WriteBytes(s, "pwrp")
        BY <3>1 DEF WriteBytes, Succeed, TreeOnFiles
      <3>2. CASE \E c \in {Torn, Patched(tree["pwrp"], s)} : Killed("pwrp", c)
        BY <3>2 DEF Killed
      <3> QED
        BY <1>1, <3>1, <3>2 DEF WriteOrDie
    <2>2. TreeOnFiles'
      BY <2>1 DEF TreeOnFiles
    <2>3. CASE f = "pwrp"
      BY <1>0, <1>1, <2>1, <2>2, <2>3, WholeFiles DEF Done
    <2>4. CASE f # "pwrp"
      BY <1>0, <2>1, <2>2, <2>4, Elsewhere
    <2> QED
      BY <2>3, <2>4
  <1>2. CASE Refuse(s)
    BY <1>2 DEF Refuse, TreeOnFiles, Done
  <1> QED
    BY <1>1, <1>2 DEF Bytes

\* Candidate 12 finds neither of its files finished: pwrp_k32.dll has to be that
\* of candidate 11, and in chrome.dll the string has to be the old one.
LEMMA Candidate12Step ==
    ASSUME TreeOnFiles, NEW f \in Finished, Done(f), Candidate12Pwrp \/ Candidate12Chrome
    PROVE  TreeOnFiles' /\ Done(f)'
  <1>0. "c12" # Last[f] /\ "c12" \in Final["chrome.dll"] /\ "c12" \in Final["pwrp"]
    BY LastAndFinal
  <1>1. CASE Candidate12Pwrp
    <2>1. CASE Refuse("c12")
      BY <2>1 DEF Refuse, TreeOnFiles, Done
    <2>2. CASE ~Refuse("c12")
      <3>1. PICK c : tree' = [tree EXCEPT !["pwrp"] = c]
        BY <1>1, <2>2 DEF Candidate12Pwrp, Killed
      <3>2. PwrpValidated /\ accepted' = accepted
        BY <1>1, <2>2 DEF Candidate12Pwrp, Killed
      <3>3. tree["pwrp"].edits = AfterC8 \cup {"c11"}
        BY <3>2, WholeFiles DEF PwrpValidated
      <3>4. tree["pwrp"] # Whole(Final["pwrp"])
        BY <1>0, <3>3, WholeFiles DEF AfterC8, AfterC4
      <3>5. TreeOnFiles'
        BY <3>1 DEF TreeOnFiles
      <3> QED
        BY <3>1, <3>2, <3>4, <3>5 DEF Done
    <2> QED
      BY <2>1, <2>2
  <1>2. CASE Candidate12Chrome
    <2>1. CASE Refuse("c12")
      BY <2>1 DEF Refuse, TreeOnFiles, Done
    <2>2. CASE Killed("chrome.dll", tree["chrome.dll"])
      BY <2>2 DEF Killed, TreeOnFiles, Done
    <2>3. CASE "c12" \notin tree["chrome.dll"].edits /\ WriteOrDie("c12", "chrome.dll")
      <3>1. PICK c : /\ tree' = [tree EXCEPT !["chrome.dll"] = c]
                     /\ accepted' \subseteq accepted \cup {"c12"}
        <4>1. CASE WriteBytes("c12", "chrome.dll")
          BY <4>1 DEF WriteBytes, Succeed
        <4>2. CASE \E c \in {Torn, Patched(tree["chrome.dll"], "c12")} : Killed("chrome.dll", c)
          BY <4>2 DEF Killed
        <4> QED
          BY <2>3, <4>1, <4>2 DEF WriteOrDie
      <3>2. TreeOnFiles'
        BY <3>1 DEF TreeOnFiles
      <3>3. tree["chrome.dll"] # Whole(Final["chrome.dll"])
        BY <1>0, <2>3, WholeFiles
      <3> QED
        BY <1>0, <3>1, <3>2, <3>3 DEF Done
    <2> QED
      BY <1>2, <2>1, <2>2, <2>3 DEF Candidate12Chrome
  <1> QED
    BY <1>1, <1>2

\* Step 1 changes files without its edit only: not chrome.dll and chrome.exe,
\* whose headers are in order, nor a finished one of the other two.
LEMMA PEStep ==
    ASSUME TreeOnFiles, NEW f \in Finished, Done(f), VisitPE
    PROVE  TreeOnFiles' /\ Done(f)'
  <1>0. "pe" # Last[f] /\ (f \in NeedsPE => "pe" \in Final[f])
    BY LastAndFinal DEF NeedsPE
  <1> DEFINE g == Head(walk)
  <1>1. accepted' \subseteq accepted \cup {"pe"}
    BY DEF VisitPE, Killed, Succeed
  <1>2. tree' = tree \/ (Changes(g) /\ \E c : tree' = [tree EXCEPT ![g] = c])
    <2>1. \/ tree' = [tree EXCEPT ![g] = IF Changes(g) THEN Headed(@) ELSE @]
          \/ /\ Changes(g)
             /\ \E c \in {tree[g], HalfHeaded(tree[g]), Headed(tree[g])} :
                    tree' = [tree EXCEPT ![g] = c]
      BY DEF VisitPE, Killed
    <2>2. CASE ~Changes(g)
      BY <2>1, <2>2 DEF TreeOnFiles
    <2>3. CASE Changes(g)
      BY <2>1, <2>3
    <2> QED
      BY <2>2, <2>3
  <1>3. CASE tree' = tree
    BY <1>0, <1>1, <1>3 DEF TreeOnFiles, Done
  <1>4. CASE Changes(g) /\ \E c : tree' = [tree EXCEPT ![g] = c]
    <2>1. TreeOnFiles'
      BY <1>4 DEF TreeOnFiles
    <2>2. CASE g = f
      <3>1. tree[f] # Whole(Final[f])
        BY <1>0, <1>4, <2>2, WholeFiles DEF Changes
      <3> QED
        BY <1>0, <1>1, <2>1, <3>1 DEF Done
    <2>3. CASE g # f
      <3>1. tree'[f] = tree[f]
        BY <1>4, <2>3
      <3> QED
        BY <1>0, <1>1, <2>1, <3>1 DEF Done
    <2> QED
      BY <2>2, <2>3
  <1> QED
    BY <1>2, <1>3, <1>4

\* The steps that are about other files.
LEMMA OtherStep ==
    ASSUME TreeOnFiles, NEW f \in Finished, Done(f),
           AlreadyCryptp \/ PatchCryptp \/ InstallSync
    PROVE  TreeOnFiles' /\ Done(f)'
  <1>0. /\ f # "p_cryptp" /\ f # "w2ksync"
        /\ "cryptp" # Last[f] /\ "sync" # Last[f]
    BY LastAndFinal
  <1>1. CASE AlreadyCryptp
    BY <1>0, <1>1 DEF AlreadyCryptp, Succeed, TreeOnFiles, Done
  <1>2. CASE PatchCryptp
    <2>1. \/ tree' = tree
          \/ \E c : tree' = [tree EXCEPT !["p_cryptp"] = c]
      BY <1>2 DEF PatchCryptp, WriteOrDie, WriteBytes, Killed, Refuse
    <2>2. accepted' \subseteq accepted \cup {"cryptp"}
      BY <1>2 DEF PatchCryptp, WriteOrDie, WriteBytes, Killed, Refuse, Succeed
    <2>3. TreeOnFiles'
      BY <2>1 DEF TreeOnFiles
    <2>4. tree'[f] = tree[f]
      BY <1>0, <2>1, LastAndFinal DEF TreeOnFiles
    <2> QED
      BY <1>0, <2>2, <2>3, <2>4 DEF Done
  <1>3. CASE InstallSync
    BY <1>0, <1>3 DEF InstallSync, Succeed, TreeOnFiles, Done
  <1> QED
    BY <1>1, <1>2, <1>3
-----------------------------------------------------------------------------
LEMMA InitChainInv == Init => ChainInv
  BY DEF Init, ChainInv, TreeOnFiles, Upstream, FinishedIsDocumented

\* One step per script: that the lemma on hash-testing scripts applies to it is a
\* comparison of its input with the final contents of its file.
LEMMA ChainInvStep == ChainInv /\ [Next]_vars => ChainInv'
  <1> SUFFICES ASSUME ChainInv, [Next]_vars, NEW f \in Finished
               PROVE  TreeOnFiles' /\ Done(f)'
    BY LastAndFinal DEF ChainInv, FinishedIsDocumented, Finished, Done
  <1>0. TreeOnFiles /\ Done(f)
    BY DEF ChainInv, FinishedIsDocumented, Finished, Done
  <1> USE <1>0
  <1>1. CASE StartPE
    BY <1>1 DEF StartPE, TreeOnFiles, Done
  <1>2. CASE VisitPE
    BY <1>2, PEStep
  <1>3. CASE AlreadyCryptp \/ PatchCryptp \/ InstallSync
    BY <1>3, OtherStep
  <1>4. CASE GetNativeSystemInfo \/ Candidate4
    BY <1>4, BytesStep DEF GetNativeSystemInfo, Candidate4
  <1>5. CASE Candidate12Pwrp \/ Candidate12Chrome
    BY <1>5, Candidate12Step
  <1>6. CASE Candidate5
    <2> DEFINE input == AfterC4
    <2>1. Sha("c5", "pwrp", input)
      BY <1>6 DEF Candidate5
    <2>2. /\ f = "pwrp" => input # Final[f] /\ ("c5" = Last[f] => input \cup {"c5"} = Final[f])
          /\ f # "pwrp" => "c5" # Last[f]
      BY LastAndFinal DEF AfterC4, AfterC8, AfterC12
    <2>3. "pwrp" \in File
      BY DEF File
    <2> HIDE DEF input
    <2> QED
      BY <2>1, <2>2, <2>3, ShaStep
  <1>7. CASE Candidate6
    <2> DEFINE input == AfterC4 \cup {"c5"}
    <2>1. Sha("c6", "pwrp", input)
      BY <1>7 DEF Candidate6
    <2>2. /\ f = "pwrp" => input # Final[f] /\ ("c6" = Last[f] => input \cup {"c6"} = Final[f])
          /\ f # "pwrp" => "c6" # Last[f]
      BY LastAndFinal DEF AfterC4, AfterC8, AfterC12
    <2>3. "pwrp" \in File
      BY DEF File
    <2> HIDE DEF input
    <2> QED
      BY <2>1, <2>2, <2>3, ShaStep
  <1>8. CASE Candidate7
    <2> DEFINE input == AfterC4 \cup {"c5", "c6"}
    <2>1. Sha("c7", "pwrp", input)
      BY <1>8 DEF Candidate7
    <2>2. /\ f = "pwrp" => input # Final[f] /\ ("c7" = Last[f] => input \cup {"c7"} = Final[f])
          /\ f # "pwrp" => "c7" # Last[f]
      BY LastAndFinal DEF AfterC4, AfterC8, AfterC12
    <2>3. "pwrp" \in File
      BY DEF File
    <2> HIDE DEF input
    <2> QED
      BY <2>1, <2>2, <2>3, ShaStep
  <1>9. CASE Candidate8
    <2> DEFINE input == AfterC4 \cup {"c5", "c6", "c7"}
    <2>1. Sha("c8", "pwrp", input)
      BY <1>9 DEF Candidate8
    <2>2. /\ f = "pwrp" => input # Final[f] /\ ("c8" = Last[f] => input \cup {"c8"} = Final[f])
          /\ f # "pwrp" => "c8" # Last[f]
      BY LastAndFinal DEF AfterC4, AfterC8, AfterC12
    <2>3. "pwrp" \in File
      BY DEF File
    <2> HIDE DEF input
    <2> QED
      BY <2>1, <2>2, <2>3, ShaStep
  <1>10. CASE Candidate9
    <2> DEFINE input == {}
    <2>1. Sha("c9", "chrome.dll", input)
      BY <1>10 DEF Candidate9
    <2>2. /\ f = "chrome.dll" => input # Final[f] /\ ("c9" = Last[f] => input \cup {"c9"} = Final[f])
          /\ f # "chrome.dll" => "c9" # Last[f]
      BY LastAndFinal DEF AfterC4, AfterC8, AfterC12
    <2>3. "chrome.dll" \in File
      BY DEF File
    <2> HIDE DEF input
    <2> QED
      BY <2>1, <2>2, <2>3, ShaStep
  <1>11. CASE Candidate11
    <2> DEFINE input == AfterC8
    <2>1. Sha("c11", "pwrp", input)
      BY <1>11 DEF Candidate11
    <2>2. /\ f = "pwrp" => input # Final[f] /\ ("c11" = Last[f] => input \cup {"c11"} = Final[f])
          /\ f # "pwrp" => "c11" # Last[f]
      BY LastAndFinal DEF AfterC4, AfterC8, AfterC12
    <2>3. "pwrp" \in File
      BY DEF File
    <2> HIDE DEF input
    <2> QED
      BY <2>1, <2>2, <2>3, ShaStep
  <1>12. CASE Route
    <2> DEFINE input == AfterC12
    <2>1. Sha("route", "pwrp", input)
      BY <1>12 DEF Route
    <2>2. /\ f = "pwrp" => input # Final[f] /\ ("route" = Last[f] => input \cup {"route"} = Final[f])
          /\ f # "pwrp" => "route" # Last[f]
      BY LastAndFinal DEF AfterC4, AfterC8, AfterC12
    <2>3. "pwrp" \in File
      BY DEF File
    <2> HIDE DEF input
    <2> QED
      BY <2>1, <2>2, <2>3, ShaStep
  <1>13. CASE Candidate13
    <2> DEFINE input == {"c9", "c12"}
    <2>1. Sha("c13", "chrome.dll", input)
      BY <1>13 DEF Candidate13
    <2>2. /\ f = "chrome.dll" => input # Final[f] /\ ("c13" = Last[f] => input \cup {"c13"} = Final[f])
          /\ f # "chrome.dll" => "c13" # Last[f]
      BY LastAndFinal DEF AfterC4, AfterC8, AfterC12
    <2>3. "chrome.dll" \in File
      BY DEF File
    <2> HIDE DEF input
    <2> QED
      BY <2>1, <2>2, <2>3, ShaStep
  <1>14. CASE Candidate14
    <2> DEFINE input == {"c9", "c12", "c13"}
    <2>1. Sha("c14", "chrome.dll", input)
      BY <1>14 DEF Candidate14
    <2>2. /\ f = "chrome.dll" => input # Final[f] /\ ("c14" = Last[f] => input \cup {"c14"} = Final[f])
          /\ f # "chrome.dll" => "c14" # Last[f]
      BY LastAndFinal DEF AfterC4, AfterC8, AfterC12
    <2>3. "chrome.dll" \in File
      BY DEF File
    <2> HIDE DEF input
    <2> QED
      BY <2>1, <2>2, <2>3, ShaStep
  <1>15. CASE Candidate17
    <2> DEFINE input == {"pe"}
    <2>1. Sha("c17", "p_ole", input)
      BY <1>15 DEF Candidate17
    <2>2. /\ f = "p_ole" => input # Final[f] /\ ("c17" = Last[f] => input \cup {"c17"} = Final[f])
          /\ f # "p_ole" => "c17" # Last[f]
      BY LastAndFinal DEF AfterC4, AfterC8, AfterC12
    <2>3. "p_ole" \in File
      BY DEF File
    <2> HIDE DEF input
    <2> QED
      BY <2>1, <2>2, <2>3, ShaStep
  <1>16. CASE Candidate18
    <2> DEFINE input == AfterC12 \cup {"route"}
    <2>1. Sha("c18", "pwrp", input)
      BY <1>16 DEF Candidate18
    <2>2. /\ f = "pwrp" => input # Final[f] /\ ("c18" = Last[f] => input \cup {"c18"} = Final[f])
          /\ f # "pwrp" => "c18" # Last[f]
      BY LastAndFinal DEF AfterC4, AfterC8, AfterC12
    <2>3. "pwrp" \in File
      BY DEF File
    <2> HIDE DEF input
    <2> QED
      BY <2>1, <2>2, <2>3, ShaStep
  <1>17. CASE Candidate19
    <2> DEFINE input == {}
    <2>1. Sha("c19", "chrome.exe", input)
      BY <1>17 DEF Candidate19
    <2>2. /\ f = "chrome.exe" => input # Final[f] /\ ("c19" = Last[f] => input \cup {"c19"} = Final[f])
          /\ f # "chrome.exe" => "c19" # Last[f]
      BY LastAndFinal DEF AfterC4, AfterC8, AfterC12
    <2>3. "chrome.exe" \in File
      BY DEF File
    <2> HIDE DEF input
    <2> QED
      BY <2>1, <2>2, <2>3, ShaStep
  <1>18. CASE FreshCopy
    BY <1>18 DEF FreshCopy, Upstream, TreeOnFiles, Done
  <1>19. CASE UNCHANGED vars
    BY <1>19 DEF vars, TreeOnFiles, Done
  <1> QED
    BY <1>1, <1>2, <1>3, <1>4, <1>5, <1>6, <1>7, <1>8, <1>9, <1>10, <1>11, <1>12, <1>13, <1>14, <1>15, <1>16, <1>17, <1>18, <1>19 DEF Next

\* A file whose last script succeeded holds every edit of its chain and no
\* other, and keeps them: no later run of any script of patches/ changes it.
THEOREM FinishedIsDocumentedHolds == Spec => []FinishedIsDocumented
  <1>1. ChainInv => FinishedIsDocumented
    BY DEF ChainInv
  <1> QED
    BY <1>1, InitChainInv, ChainInvStep, PTL DEF Spec

-----------------------------------------------------------------------------
(* The documented order *)

LEMMA ChainIs ==
    /\ Len(Chain) = 18 /\ Off = 19
    /\ Chain[1] = "pe" /\ Chain[2] = "cryptp" /\ Chain[3] = "c3" /\ Chain[4] = "c4"
    /\ Chain[5] = "c5" /\ Chain[6] = "c6" /\ Chain[7] = "c7" /\ Chain[8] = "c8"
    /\ Chain[9] = "c9" /\ Chain[10] = "sync" /\ Chain[11] = "c11" /\ Chain[12] = "c12"
    /\ Chain[13] = "route" /\ Chain[14] = "c13" /\ Chain[15] = "c14" /\ Chain[16] = "c17"
    /\ Chain[17] = "c18" /\ Chain[18] = "c19"
  BY DEF Chain, Off

LEMMA ChainInjective == \A i, j \in 1 .. 18 : Chain[i] = Chain[j] => i = j
  <1> SUFFICES ASSUME NEW i \in 1 .. 18, NEW j \in 1 .. 18, Chain[i] = Chain[j] PROVE i = j
    OBVIOUS
  <1>1. \/ i = 1 \/ i = 2 \/ i = 3 \/ i = 4 \/ i = 5 \/ i = 6 \/ i = 7 \/ i = 8 \/ i = 9
        \/ i = 10 \/ i = 11 \/ i = 12 \/ i = 13 \/ i = 14 \/ i = 15 \/ i = 16 \/ i = 17 \/ i = 18
    OBVIOUS
  <1>2. \/ j = 1 \/ j = 2 \/ j = 3 \/ j = 4 \/ j = 5 \/ j = 6 \/ j = 7 \/ j = 8 \/ j = 9
        \/ j = 10 \/ j = 11 \/ j = 12 \/ j = 13 \/ j = 14 \/ j = 15 \/ j = 16 \/ j = 17 \/ j = 18
    OBVIOUS
  <1> QED
    BY <1>1, <1>2, ChainIs

\* One more script adds its own edit, if it is one of the file's.
LEMMA PrefixGrows ==
    ASSUME NEW f
    PROVE  /\ Prefix(f, 0) = {}
           /\ \A i \in 1 .. 18 : Prefix(f, i) = Prefix(f, i - 1) \cup (Final[f] \cap {Chain[i]})
  <1>1. Prefix(f, 0) = {}
    BY DEF Prefix
  <1>2. ASSUME NEW i \in 1 .. 18
        PROVE  Prefix(f, i) = Prefix(f, i - 1) \cup (Final[f] \cap {Chain[i]})
    <2>1. {Chain[k] : k \in 1 .. i} = {Chain[k] : k \in 1 .. i - 1} \cup {Chain[i]}
      <3>1. 1 .. i = (1 .. i - 1) \cup {i}
        OBVIOUS
      <3> QED
        BY <3>1
    <2> QED
      BY <2>1 DEF Prefix
  <1> QED
    BY <1>1, <1>2

\* An edit of the file is there from its own script on.
LEMMA PrefixHas ==
    ASSUME NEW f, NEW i \in 0 .. 18, NEW k \in 1 .. 18, Chain[k] \in Final[f]
    PROVE  Chain[k] \in Prefix(f, i) <=> k <= i
  <1>1. Chain[k] \in {Chain[j] : j \in 1 .. i} <=> \E j \in 1 .. i : Chain[k] = Chain[j]
    OBVIOUS
  <1>2. (\E j \in 1 .. i : Chain[k] = Chain[j]) <=> k <= i
    BY ChainInjective
  <1> QED
    BY <1>1, <1>2 DEF Prefix

LEMMA AllFinal ==
    /\ Final["pwrp"] = {"pe", "c3", "c4", "c5", "c6", "c7", "c8", "c11", "c12", "route", "c18"}
    /\ Final["chrome.dll"] = {"c9", "c12", "c13", "c14"}
    /\ Final["chrome.exe"] = {"c19"}
    /\ Final["p_ole"] = {"pe", "c17"}
    /\ Final["p_cryptp"] = {"pe", "cryptp"}
    /\ Final["w2ksync"] = {}
  BY DEF Final, File, AfterC4, AfterC8, AfterC12

LEMMA PrefixPwrp ==
    /\ Prefix("pwrp", 0) = {} /\ Prefix("pwrp", 1) = {"pe"} /\ Prefix("pwrp", 2) = {"pe"}
    /\ Prefix("pwrp", 3) = {"pe", "c3"} /\ Prefix("pwrp", 4) = AfterC4
    /\ Prefix("pwrp", 5) = AfterC4 \cup {"c5"} /\ Prefix("pwrp", 6) = AfterC4 \cup {"c5", "c6"}
    /\ Prefix("pwrp", 7) = AfterC4 \cup {"c5", "c6", "c7"} /\ Prefix("pwrp", 8) = AfterC8
    /\ Prefix("pwrp", 9) = AfterC8 /\ Prefix("pwrp", 10) = AfterC8
    /\ Prefix("pwrp", 11) = AfterC8 \cup {"c11"} /\ Prefix("pwrp", 12) = AfterC12
    /\ Prefix("pwrp", 13) = AfterC12 \cup {"route"} /\ Prefix("pwrp", 14) = AfterC12 \cup {"route"}
    /\ Prefix("pwrp", 15) = AfterC12 \cup {"route"} /\ Prefix("pwrp", 16) = AfterC12 \cup {"route"}
    /\ Prefix("pwrp", 17) = AfterC12 \cup {"route", "c18"}
  <1> DEFINE F == {"pe", "c3", "c4", "c5", "c6", "c7", "c8", "c11", "c12", "route", "c18"}
             P(i) == Prefix("pwrp", i)
  <1>1. P(0) = {} /\ \A i \in 1 .. 18 : P(i) = P(i - 1) \cup (F \cap {Chain[i]})
    <2>1. /\ P(0) = {}
          /\ \A i \in 1 .. 18 : P(i) = P(i - 1) \cup (Final["pwrp"] \cap {Chain[i]})
      BY PrefixGrows
    <2>2. Final["pwrp"] = F
      BY AllFinal
    <2> QED
      BY <2>1, <2>2
  <1> HIDE DEF P
  <1>2. P(1) = {"pe"} /\ P(2) = {"pe"} /\ P(3) = {"pe", "c3"} /\ P(4) = AfterC4
    <2>1. P(1) = P(0) \cup (F \cap {Chain[1]}) /\ P(2) = P(1) \cup (F \cap {Chain[2]})
          /\ P(3) = P(2) \cup (F \cap {Chain[3]}) /\ P(4) = P(3) \cup (F \cap {Chain[4]})
      BY <1>1
    <2> QED
      BY <1>1, <2>1, ChainIs DEF AfterC4
  <1>3. P(5) = AfterC4 \cup {"c5"} /\ P(6) = AfterC4 \cup {"c5", "c6"}
        /\ P(7) = AfterC4 \cup {"c5", "c6", "c7"} /\ P(8) = AfterC8
    <2>1. P(5) = P(4) \cup (F \cap {Chain[5]}) /\ P(6) = P(5) \cup (F \cap {Chain[6]})
          /\ P(7) = P(6) \cup (F \cap {Chain[7]}) /\ P(8) = P(7) \cup (F \cap {Chain[8]})
      BY <1>1
    <2> QED
      BY <1>2, <2>1, ChainIs DEF AfterC8
  <1>4. P(9) = AfterC8 /\ P(10) = AfterC8 /\ P(11) = AfterC8 \cup {"c11"} /\ P(12) = AfterC12
    <2>1. P(9) = P(8) \cup (F \cap {Chain[9]}) /\ P(10) = P(9) \cup (F \cap {Chain[10]})
          /\ P(11) = P(10) \cup (F \cap {Chain[11]}) /\ P(12) = P(11) \cup (F \cap {Chain[12]})
      BY <1>1
    <2> QED
      BY <1>3, <2>1, ChainIs DEF AfterC12
  <1>5. P(13) = AfterC12 \cup {"route"} /\ P(14) = AfterC12 \cup {"route"}
        /\ P(15) = AfterC12 \cup {"route"} /\ P(16) = AfterC12 \cup {"route"}
        /\ P(17) = AfterC12 \cup {"route", "c18"}
    <2>1. P(13) = P(12) \cup (F \cap {Chain[13]}) /\ P(14) = P(13) \cup (F \cap {Chain[14]})
          /\ P(15) = P(14) \cup (F \cap {Chain[15]}) /\ P(16) = P(15) \cup (F \cap {Chain[16]})
          /\ P(17) = P(16) \cup (F \cap {Chain[17]})
      BY <1>1
    <2> QED
      BY <1>4, <2>1, ChainIs
  <1> QED
    BY <1>1, <1>2, <1>3, <1>4, <1>5 DEF P

\* The other files, at the scripts that need to know.
LEMMA PrefixOthers ==
    /\ Prefix("chrome.dll", 8) = {} /\ Prefix("chrome.dll", 9) = {"c9"}
    /\ Prefix("chrome.dll", 11) = {"c9"} /\ Prefix("chrome.dll", 12) = {"c9", "c12"}
    /\ Prefix("chrome.dll", 13) = {"c9", "c12"}
    /\ Prefix("chrome.dll", 14) = {"c9", "c12", "c13"}
    /\ Prefix("chrome.dll", 15) = {"c9", "c12", "c13", "c14"}
    /\ Prefix("p_ole", 15) = {"pe"} /\ Prefix("p_ole", 16) = {"pe", "c17"}
    /\ Prefix("chrome.exe", 17) = {} /\ Prefix("chrome.exe", 18) = {"c19"}
    /\ Prefix("p_cryptp", 1) = {"pe"}
  <1> DEFINE In(i) == {Chain[k] : k \in 1 .. i}
  <1>1. \A i \in 0 .. 18, k \in 1 .. 18 : Chain[k] \in In(i) <=> k <= i
    BY ChainInjective
  <1>2. \A f, i : Prefix(f, i) = Final[f] \cap In(i)
    BY DEF Prefix
  <1> HIDE DEF In
  <1>3. \A i \in 0 .. 18 : /\ "pe" \in In(i) <=> 1 <= i
                           /\ "cryptp" \in In(i) <=> 2 <= i
                           /\ "c9" \in In(i) <=> 9 <= i
                           /\ "c12" \in In(i) <=> 12 <= i
                           /\ "c13" \in In(i) <=> 14 <= i
                           /\ "c14" \in In(i) <=> 15 <= i
                           /\ "c17" \in In(i) <=> 16 <= i
                           /\ "c19" \in In(i) <=> 18 <= i
    <2>1. 1 \in 1 .. 18 /\ 2 \in 1 .. 18 /\ 9 \in 1 .. 18 /\ 12 \in 1 .. 18 /\ 14 \in 1 .. 18
          /\ 15 \in 1 .. 18 /\ 16 \in 1 .. 18 /\ 18 \in 1 .. 18
      OBVIOUS
    <2> QED
      BY <1>1, <2>1, ChainIs
  <1>4. /\ Prefix("chrome.dll", 8) = {} /\ Prefix("chrome.dll", 9) = {"c9"}
        /\ Prefix("chrome.dll", 11) = {"c9"} /\ Prefix("chrome.dll", 12) = {"c9", "c12"}
    BY <1>2, <1>3, AllFinal
  <1>5. /\ Prefix("chrome.dll", 13) = {"c9", "c12"}
        /\ Prefix("chrome.dll", 14) = {"c9", "c12", "c13"}
        /\ Prefix("chrome.dll", 15) = {"c9", "c12", "c13", "c14"}
    BY <1>2, <1>3, AllFinal
  <1>6. /\ Prefix("p_ole", 15) = {"pe"} /\ Prefix("p_ole", 16) = {"pe", "c17"}
        /\ Prefix("chrome.exe", 17) = {} /\ Prefix("chrome.exe", 18) = {"c19"}
        /\ Prefix("p_cryptp", 1) = {"pe"}
    BY <1>2, <1>3, AllFinal
  <1> QED
    BY <1>4, <1>5, <1>6

-----------------------------------------------------------------------------
(* The ways to a dead end *)

Near(f, edits) ==
    \/ f = "w2ksync"
    \/ \E i \in 0 .. 18 : edits = Prefix(f, i)
    \/ IF f = "chrome.dll" THEN edits = {"c12"}
                           ELSE edits \subseteq {"pe", "half pe", "cryptp", "c3", "c4"}

Shape(f, c) ==
    \/ c = Torn /\ crashes > 0
    \/ c = Absent /\ f = "w2ksync"
    \/ \E edits : c = Whole(edits) /\ Near(f, edits)

\* The two files of candidate 12 have it both or neither, but between the two.
TwoFiles ==
    crashes = 0 =>
        IF half THEN "c12" \in tree["pwrp"].edits /\ "c12" \notin tree["chrome.dll"].edits
                ELSE "c12" \in tree["pwrp"].edits <=> "c12" \in tree["chrome.dll"].edits

StuckInv ==
    /\ TreeOnFiles
    /\ crashes \in Nat
    /\ \A f \in File : Shape(f, tree[f])
    /\ TwoFiles

LEMMA Kinds ==
    /\ Torn.is = "torn" /\ Torn.edits = {} /\ Absent.is = "absent" /\ Absent.edits = {}
    /\ \A a, s : Patched(Torn, s) = Torn
    /\ \A a : Whole(a) # Torn /\ Whole(a) # Absent
    /\ Torn # Absent
  <1>1. Torn.is = "torn" /\ Torn.edits = {} /\ Absent.is = "absent" /\ Absent.edits = {}
    BY DEF Torn, Absent
  <1>2. \A a, s : Patched(Torn, s) = Torn
    BY <1>1 DEF Patched
  <1>3. \A a : Whole(a) # Torn /\ Whole(a) # Absent
    BY <1>1, WholeFiles
  <1> QED
    BY <1>1, <1>2, <1>3

\* A step that changes no file and no counter.
LEMMA NothingWritten ==
    ASSUME StuckInv, tree' = tree, crashes' = crashes, half' = half
    PROVE  StuckInv'
  BY DEF StuckInv, TreeOnFiles, TwoFiles, Shape

\* A step that writes one file, in full or not.
LEMMA OneWritten ==
    ASSUME StuckInv, NEW g \in File, NEW c, tree' = [tree EXCEPT ![g] = c], half' = half,
           crashes' \in {crashes, crashes + 1}, c = Torn => tree[g] = Torn \/ crashes' # crashes,
           Shape(g, c) \/ c = Torn,
           g \in {"pwrp", "chrome.dll"} /\ crashes' = crashes =>
               ("c12" \in c.edits <=> "c12" \in tree[g].edits)
    PROVE  StuckInv'
  <1>1. tree'[g] = c /\ \A f \in File \ {g} : tree'[f] = tree[f]
    BY DEF StuckInv, TreeOnFiles
  <1>2. crashes' \in Nat /\ (crashes > 0 => crashes' > 0) /\ (crashes' # crashes => crashes' > 0)
        /\ (crashes' = 0 => crashes' = crashes /\ crashes = 0)
    BY DEF StuckInv
  <1>3. \A f \in File : Shape(f, tree[f])
    BY DEF StuckInv
  <1>4. \A f \in File : Shape(f, tree[f])'
    <2>1. ASSUME NEW f \in File, NEW d, Shape(f, d) PROVE Shape(f, d)'
      BY <1>2, <2>1 DEF Shape
    <2>2. c = Torn => Shape(g, c)'
      <3>1. tree[g] = Torn => crashes > 0
        BY <1>3, Kinds DEF Shape
      <3> QED
        BY <1>2, <3>1 DEF Shape
    <2>3. Shape(g, c)'
      BY <2>1, <2>2
    <2>4. ASSUME NEW f \in File PROVE Shape(f, tree[f])'
      <3>1. CASE f = g
        BY <1>1, <2>3, <3>1 DEF Shape
      <3>2. CASE f # g
        <4>1. PICK d : d = tree[f]
          OBVIOUS
        <4>2. tree'[f] = d /\ Shape(f, d)'
          BY <1>1, <1>3, <2>1, <3>2, <4>1
        <4> QED
          BY <4>2 DEF Shape
      <3> QED
        BY <3>1, <3>2
    <2> QED
      BY <2>4
  <1>5. TwoFiles'
    <2> SUFFICES ASSUME crashes' = 0
                 PROVE  /\ half => "c12" \in tree'["pwrp"].edits /\ "c12" \notin tree'["chrome.dll"].edits
                        /\ ~half => ("c12" \in tree'["pwrp"].edits <=> "c12" \in tree'["chrome.dll"].edits)
      BY DEF TwoFiles
    <2>1. crashes' = crashes /\ crashes = 0
      BY <1>2
    <2>2. "pwrp" \in File /\ "chrome.dll" \in File
      BY DEF File
    <2>3. \A f \in {"pwrp", "chrome.dll"} : "c12" \in tree'[f].edits <=> "c12" \in tree[f].edits
      BY <1>1, <2>1, <2>2
    <2> QED
      BY <2>1, <2>3 DEF StuckInv, TwoFiles
  <1>6. TreeOnFiles'
    BY DEF StuckInv, TreeOnFiles
  <1> QED
    BY <1>2, <1>4, <1>5, <1>6 DEF StuckInv

\* A script other than candidate 12 that writes its file or dies while it does.
LEMMA EditWritten ==
    ASSUME StuckInv, NEW g \in File \ {"w2ksync"}, NEW s, s # "c12", WriteOrDie(s, g), half' = half,
           \A edits : tree[g] = Whole(edits) => Near(g, edits \cup {s})
    PROVE  StuckInv'
  <1>1. tree[g] = Torn \/ \E edits : tree[g] = Whole(edits) /\ Near(g, edits)
    BY DEF StuckInv, Shape
  <1>2. /\ \/ Patched(tree[g], s) = Torn /\ tree[g] = Torn
           \/ Shape(g, Patched(tree[g], s)) /\ Patched(tree[g], s) # Torn
        /\ "c12" \in Patched(tree[g], s).edits <=> "c12" \in tree[g].edits
    <2>1. CASE tree[g] = Torn
      BY <2>1, Kinds
    <2>2. ASSUME NEW edits, tree[g] = Whole(edits) PROVE
             /\ \/ Patched(tree[g], s) = Torn /\ tree[g] = Torn
                \/ Shape(g, Patched(tree[g], s)) /\ Patched(tree[g], s) # Torn
             /\ "c12" \in Patched(tree[g], s).edits <=> "c12" \in tree[g].edits
      <3>1. Patched(tree[g], s) = Whole(edits \cup {s}) /\ Near(g, edits \cup {s})
        BY <2>2, WholeFiles
      <3>2. Patched(tree[g], s).edits = edits \cup {s} /\ tree[g].edits = edits
        BY <2>2, <3>1, WholeFiles
      <3>3. Patched(tree[g], s) # Torn
        BY <3>1, Kinds
      <3> QED
        BY <3>1, <3>2, <3>3 DEF Shape
    <2> QED
      BY <1>1, <2>1, <2>2
  <1>4. crashes + 1 # crashes
    BY DEF StuckInv
  <1>5. CASE WriteBytes(s, g)
    <2>1. tree' = [tree EXCEPT ![g] = Patched(tree[g], s)] /\ crashes' = crashes
      BY <1>5 DEF WriteBytes
    <2> QED
      BY <1>2, <2>1, OneWritten
  <1>6. CASE \E c \in {Torn, Patched(tree[g], s)} : Killed(g, c)
    <2>1. PICK c \in {Torn, Patched(tree[g], s)} : tree' = [tree EXCEPT ![g] = c] /\ crashes' = crashes + 1
      BY <1>6 DEF Killed
    <2> QED
      BY <1>2, <1>4, <2>1, OneWritten
  <1> QED
    BY <1>5, <1>6 DEF WriteOrDie

\* A script that tests a hash.
LEMMA ShaKeeps ==
    ASSUME StuckInv, NEW g \in File \ {"w2ksync"}, NEW s, s # "c12", NEW input, Sha(s, g, input),
           NEW i \in 0 .. 18, input \cup {s} = Prefix(g, i)
    PROVE  StuckInv'
  <1>1. half' = half
    BY DEF Sha
  <1>2. CASE Refuse(s)
    BY <1>1, <1>2, NothingWritten DEF Refuse
  <1>3. CASE tree[g] = Whole(input) /\ WriteOrDie(s, g)
    <2>1. \A edits : tree[g] = Whole(edits) => Near(g, edits \cup {s})
      BY <1>3, WholeFiles DEF Near
    <2> QED
      BY <1>1, <1>3, <2>1, EditWritten
  <1> QED
    BY <1>2, <1>3 DEF Sha


\* A script that compares bytes: while its edit is not there the file is one of
\* the first scripts'.
LEMMA BytesKeeps ==
    ASSUME StuckInv, NEW g \in {"pwrp", "p_cryptp"}, NEW k \in {2, 3, 4}, NEW s, s = Chain[k],
           s \in Final[g], s # "c12", half' = half,
           (s \notin tree[g].edits /\ WriteOrDie(s, g)) \/ Refuse(s)
    PROVE  StuckInv'
  <1>0. s \in {"cryptp", "c3", "c4"} /\ g # "w2ksync" /\ g # "chrome.dll" /\ g \in File
    BY ChainIs DEF File
  <1>1. CASE Refuse(s)
    BY <1>1, NothingWritten DEF Refuse
  <1>2. CASE s \notin tree[g].edits /\ WriteOrDie(s, g)
    <2>1. ASSUME NEW edits, tree[g] = Whole(edits) PROVE Near(g, edits \cup {s})
      <3>1. s \notin edits
        BY <1>2, <2>1, WholeFiles
      <3>2. Near(g, edits)
        BY <1>0, <2>1, WholeFiles, Kinds DEF StuckInv, Shape
      <3>3. CASE \E i \in 0 .. 18 : edits = Prefix(g, i)
        <4>1. PICK i \in 0 .. 18 : edits = Prefix(g, i)
          BY <3>3
        <4>2. k \in 1 .. 18 /\ ~(k <= i)
          BY <3>1, <4>1, PrefixHas
        <4>3. i \in {0, 1, 2, 3} /\ (g = "p_cryptp" => i \in {0, 1})
          <5>1. g = "p_cryptp" => k = 2
            BY <1>0, AllFinal, ChainIs
          <5> QED
            BY <4>2, <5>1
        <4>4. edits \subseteq {"pe", "c3"}
          <5>1. CASE g = "pwrp"
            BY <4>1, <4>3, <5>1, PrefixPwrp
          <5>2. CASE g = "p_cryptp"
            BY <4>1, <4>3, <5>2, PrefixGrows, PrefixOthers
          <5> QED
            BY <5>1, <5>2
        <4> QED
          BY <1>0, <4>4 DEF Near
      <3>4. CASE edits \subseteq {"pe", "half pe", "cryptp", "c3", "c4"}
        BY <1>0, <3>4 DEF Near
      <3> QED
        BY <1>0, <3>2, <3>3, <3>4 DEF Near
    <2> QED
      BY <1>0, <1>2, <2>1, EditWritten
  <1> QED
    BY <1>1, <1>2

\* Step 1 changes what has no edit yet, or those of steps that look at bytes only.
LEMMA VisitKeeps ==
    ASSUME StuckInv, VisitPE
    PROVE  StuckInv'
  <1> DEFINE g == Head(walk)
  <1>1. half' = half /\ crashes \in Nat /\ TreeOnFiles
    BY DEF VisitPE, StuckInv
  <1>2. \/ /\ tree' = [tree EXCEPT ![g] = IF Changes(g) THEN Headed(@) ELSE @]
           /\ crashes' = crashes
        \/ /\ Changes(g) /\ crashes' = crashes + 1
           /\ \E c \in {tree[g], HalfHeaded(tree[g]), Headed(tree[g])} :
                  tree' = [tree EXCEPT ![g] = c]
    BY DEF VisitPE, Killed
  <1> HIDE DEF g
  <1>3. CASE ~Changes(g)
    <2>1. tree' = tree /\ crashes' = crashes
      BY <1>1, <1>2, <1>3 DEF TreeOnFiles
    <2> QED
      BY <1>1, <2>1, NothingWritten
  <1>4. CASE Changes(g)
    <2>1. g \in NeedsPE /\ g \in File /\ g # "chrome.dll" /\ "pe" \notin tree[g].edits
      BY <1>4 DEF Changes, NeedsPE, File
    <2>2. PICK c \in {tree[g], HalfHeaded(tree[g]), Headed(tree[g])} :
             tree' = [tree EXCEPT ![g] = c] /\ crashes' \in {crashes, crashes + 1}
      BY <1>2, <1>4
    <2>3. (c = Torn => tree[g] = Torn) /\ (Shape(g, c) \/ c = Torn)
          /\ ("c12" \in c.edits <=> "c12" \in tree[g].edits)
      <3>1. CASE tree[g] = Torn
        BY <2>2, <3>1, Kinds DEF Headed, HalfHeaded
      <3>2. CASE tree[g] # Torn
        <4>1. CASE c = tree[g]
          BY <2>1, <3>2, <4>1 DEF StuckInv
        <4>2. ASSUME c # tree[g],
                     NEW new, new \in {(tree[g].edits \ {"half pe"}) \cup {"pe"}, tree[g].edits \cup {"half pe"}},
                     c = Whole(new)
              PROVE  Shape(g, c) /\ ("c12" \in c.edits <=> "c12" \in tree[g].edits) /\ c # Torn
          <5>1. Near(g, new)
            <6>1. CASE g = "w2ksync"
              BY <6>1 DEF Near
            <6>2. CASE g # "w2ksync"
              <7>1. PICK edits : tree[g] = Whole(edits) /\ Near(g, edits)
                BY <2>1, <3>2, <6>2 DEF StuckInv, Shape
              <7>2. tree[g].edits = edits /\ "pe" \notin edits
                BY <2>1, <7>1, WholeFiles
              <7>3. ASSUME NEW i \in 0 .. 18, edits = Prefix(g, i) PROVE edits = {}
                <8>1. "pe" \in Final[g]
                  BY <2>1, <6>2, AllFinal DEF NeedsPE
                <8>2. i = 0
                  BY <7>2, <7>3, <8>1, PrefixHas, ChainIs
                <8> QED
                  BY <7>3, <8>2, PrefixGrows
              <7>4. edits \subseteq {"pe", "half pe", "cryptp", "c3", "c4"}
                BY <2>1, <6>2, <7>1, <7>3 DEF Near
              <7>5. new \subseteq {"pe", "half pe", "cryptp", "c3", "c4"}
                BY <4>2, <7>2, <7>4
              <7> QED
                BY <2>1, <7>5 DEF Near
            <6> QED
              BY <6>1, <6>2
          <5>2. c.edits = new /\ c # Torn
            BY <4>2, WholeFiles, Kinds
          <5>3. "c12" \in new <=> "c12" \in tree[g].edits
            BY <4>2
          <5> QED
            BY <4>2, <5>1, <5>2, <5>3 DEF Shape
        <4>3. tree[g].is # "torn"
          BY <2>1, <3>2, WholeFiles, Kinds DEF StuckInv, Shape
        <4> QED
          BY <2>2, <3>2, <4>1, <4>2, <4>3 DEF Headed, HalfHeaded
      <3> QED
        BY <3>1, <3>2
    <2> QED
      BY <1>1, <2>1, <2>2, <2>3, OneWritten
  <1> QED
    BY <1>3, <1>4

\* Candidate 12 takes the edit to pwrp_k32.dll, and then to chrome.dll.
LEMMA TwelveKeeps ==
    ASSUME StuckInv, Candidate12Pwrp \/ Candidate12Chrome
    PROVE  StuckInv'
  <1>0. /\ "pwrp" \in File /\ "chrome.dll" \in File /\ crashes \in Nat /\ TreeOnFiles /\ TwoFiles
        /\ \A f \in File : Shape(f, tree[f])
    BY DEF StuckInv, File
  <1>1. CASE Candidate12Pwrp
    <2>1. CASE Refuse("c12") /\ half' = half
      BY <2>1, NothingWritten DEF Refuse
    <2>2. CASE Killed("pwrp", Torn) /\ half' = half
      <3>1. tree' = [tree EXCEPT !["pwrp"] = Torn] /\ crashes' = crashes + 1 /\ crashes + 1 # crashes
        BY <1>0, <2>2 DEF Killed
      <3> QED
        BY <1>0, <2>2, <3>1, OneWritten
    <2>3. CASE /\ ~half /\ PwrpValidated
               /\ tree' = [tree EXCEPT !["pwrp"] = Patched(@, "c12")]
               /\ half' = TRUE /\ crashes' = crashes
      <3>1. tree["pwrp"] = Whole(AfterC8 \cup {"c11"}) /\ "c12" \notin AfterC8 \cup {"c11"}
        BY <2>3 DEF PwrpValidated, AfterC8, AfterC4
      <3>2. tree'["pwrp"] = Whole(AfterC12) /\ \A f \in File \ {"pwrp"} : tree'[f] = tree[f]
        <4>1. (AfterC8 \cup {"c11"}) \cup {"c12"} = AfterC12
          BY DEF AfterC12
        <4> QED
          BY <1>0, <2>3, <3>1, <4>1, WholeFiles DEF TreeOnFiles
      <3>3. \A f \in File : Shape(f, tree[f])'
        <4>1. Near("pwrp", AfterC12)
          <5>1. 12 \in 0 .. 18 /\ AfterC12 = Prefix("pwrp", 12)
            BY PrefixPwrp
          <5> QED
            BY <5>1 DEF Near
        <4>2. ASSUME NEW f \in File PROVE Shape(f, tree[f])'
          <5>1. CASE f = "pwrp"
            BY <3>2, <4>1, <5>1 DEF Shape
          <5>2. CASE f # "pwrp"
            BY <1>0, <2>3, <3>2, <5>2 DEF Shape
          <5> QED
            BY <5>1, <5>2
        <4> QED
          BY <4>2
      <3>4. TwoFiles'
        <4>1. "c12" \in tree'["pwrp"].edits
          <5>1. "c12" \in AfterC12
            BY DEF AfterC12
          <5> QED
            BY <3>2, <5>1, WholeFiles
        <4>2. crashes = 0 => "c12" \notin tree["chrome.dll"].edits
          BY <1>0, <2>3, <3>1, WholeFiles DEF TwoFiles
        <4>3. tree'["chrome.dll"] = tree["chrome.dll"]
          BY <1>0, <3>2
        <4> QED
          BY <2>3, <4>1, <4>2, <4>3 DEF TwoFiles
      <3>5. TreeOnFiles'
        BY <1>0, <2>3 DEF TreeOnFiles
      <3> QED
        BY <1>0, <2>3, <3>3, <3>4, <3>5 DEF StuckInv
    <2> QED
      BY <1>1, <2>1, <2>2, <2>3 DEF Candidate12Pwrp, Idle
  <1>2. CASE Candidate12Chrome
    <2>0. half /\ half' = FALSE
      BY <1>2 DEF Candidate12Chrome
    <2>1. PICK c : /\ tree' = [tree EXCEPT !["chrome.dll"] = c]
                   /\ crashes' \in {crashes, crashes + 1}
                   /\ c = Torn => crashes' = crashes + 1 \/ tree["chrome.dll"] = Torn
                   /\ c = Torn \/ Shape("chrome.dll", c)
                   /\ crashes' = crashes => tree["chrome.dll"] = Torn \/ "c12" \in c.edits
      <3>1. CASE Refuse("c12") /\ tree["chrome.dll"].is = "torn"
        <4>1. tree["chrome.dll"] = Torn
          BY <1>0, <3>1, WholeFiles, Kinds DEF Shape
        <4>2. tree' = [tree EXCEPT !["chrome.dll"] = tree["chrome.dll"]] /\ crashes' = crashes
          BY <1>0, <3>1 DEF Refuse, TreeOnFiles
        <4> QED
          BY <4>1, <4>2
      <3>2. CASE Killed("chrome.dll", tree["chrome.dll"])
        <4>1. tree' = [tree EXCEPT !["chrome.dll"] = tree["chrome.dll"]] /\ crashes' = crashes + 1
              /\ crashes + 1 # crashes
          BY <1>0, <3>2 DEF Killed
        <4> QED
          BY <1>0, <4>1
      <3>3. CASE "c12" \notin tree["chrome.dll"].edits /\ WriteOrDie("c12", "chrome.dll")
        <4> DEFINE d == Patched(tree["chrome.dll"], "c12")
        <4>1. \/ d = Torn /\ tree["chrome.dll"] = Torn
              \/ d # Torn /\ Shape("chrome.dll", d) /\ "c12" \in d.edits
          <5>1. CASE tree["chrome.dll"] = Torn
            <6>1. Patched(Torn, "c12") = Torn
              BY Kinds
            <6>2. d = Torn
              BY <5>1, <6>1
            <6> QED
              BY <5>1, <6>2
          <5>2. CASE tree["chrome.dll"] # Torn
            <6>1. PICK edits : tree["chrome.dll"] = Whole(edits) /\ Near("chrome.dll", edits)
              BY <1>0, <5>2 DEF Shape
            <6>2. d = Whole(edits \cup {"c12"}) /\ "c12" \notin edits
              BY <3>3, <6>1, WholeFiles
            <6>3. PICK i \in 0 .. 18 : edits = Prefix("chrome.dll", i)
              BY <6>1, <6>2 DEF Near
            <6>4. i < 12
              BY <6>2, <6>3, PrefixHas, ChainIs, AllFinal
            <6>5. edits \subseteq {"c9"}
              <7>1. \A x \in Prefix("chrome.dll", i) : x \in Prefix("chrome.dll", 11)
                BY <6>4 DEF Prefix
              <7> QED
                BY <6>3, <7>1, PrefixOthers
            <6>6. edits \cup {"c12"} = {"c12"} \/ edits \cup {"c12"} = Prefix("chrome.dll", 12)
              <7>1. edits = {} \/ edits = {"c9"}
                BY <6>5
              <7>2. {"c9"} \cup {"c12"} = Prefix("chrome.dll", 12)
                BY PrefixOthers
              <7> QED
                BY <7>1, <7>2
            <6>7. Near("chrome.dll", edits \cup {"c12"})
              BY <6>6 DEF Near
            <6> QED
              BY <6>2, <6>7, WholeFiles, Kinds DEF Shape
          <5> QED
            BY <5>1, <5>2
        <4> HIDE DEF d
        <4>2. \/ tree' = [tree EXCEPT !["chrome.dll"] = d] /\ crashes' = crashes
              \/ \E c \in {Torn, d} : tree' = [tree EXCEPT !["chrome.dll"] = c] /\ crashes' = crashes + 1
          BY <3>3 DEF WriteOrDie, WriteBytes, Killed, d
        <4>3. crashes + 1 # crashes
          BY <1>0
        <4> QED
          BY <4>1, <4>2, <4>3
      <3> QED
        BY <1>2, <3>1, <3>2, <3>3 DEF Candidate12Chrome
    <2>2. tree'["chrome.dll"] = c /\ \A f \in File \ {"chrome.dll"} : tree'[f] = tree[f]
      BY <1>0, <2>1 DEF TreeOnFiles
    <2>3. /\ crashes' \in Nat /\ (crashes > 0 => crashes' > 0) /\ (crashes' = crashes + 1 => crashes' > 0)
          /\ (crashes' = 0 => crashes' = crashes)
      BY <1>0, <2>1
    <2>4. \A f \in File : Shape(f, tree[f])'
      <3>1. tree["chrome.dll"] = Torn => crashes > 0
        BY <1>0, Kinds DEF Shape
      <3>2. Shape("chrome.dll", tree["chrome.dll"])'
        BY <2>1, <2>2, <2>3, <3>1 DEF Shape
      <3>3. ASSUME NEW f \in File \ {"chrome.dll"} PROVE Shape(f, tree[f])'
        BY <1>0, <2>2, <2>3 DEF Shape
      <3> QED
        BY <3>2, <3>3
    <2>5. TwoFiles'
      <3>1. tree["chrome.dll"] = Torn => crashes > 0
        BY <1>0, Kinds DEF Shape
      <3>2. ASSUME crashes' = 0 PROVE "c12" \in tree'["pwrp"].edits /\ "c12" \in tree'["chrome.dll"].edits
        <4>1. crashes' = crashes /\ crashes = 0 /\ ~(crashes > 0)
          BY <1>0, <2>3, <3>2
        <4>2. "c12" \in tree["pwrp"].edits
          BY <1>0, <2>0, <4>1 DEF TwoFiles
        <4> QED
          BY <1>0, <2>1, <2>2, <3>1, <4>1, <4>2
      <3> QED
        BY <2>0, <3>2 DEF TwoFiles
    <2>6. TreeOnFiles'
      BY <1>0, <2>1 DEF TreeOnFiles
    <2> QED
      BY <2>3, <2>4, <2>5, <2>6 DEF StuckInv
  <1> QED
    BY <1>1, <1>2

LEMMA NearEmpty == \A f : Near(f, {})
  <1>1. 0 \in 0 .. 18 /\ \A f : Prefix(f, 0) = {}
    BY PrefixGrows
  <1> QED
    BY <1>1 DEF Near

LEMMA StuckInvInit == Init => StuckInv
  <1> SUFFICES ASSUME Init PROVE StuckInv
    OBVIOUS
  <1>1. TreeOnFiles /\ crashes = 0 /\ ~half
    BY DEF Init, TreeOnFiles, Upstream
  <1>2. \A f \in File : tree[f] = IF f = "w2ksync" THEN Absent ELSE Whole({})
    BY DEF Init, Upstream
  <1>3. \A f \in File : Shape(f, tree[f])
    BY <1>2, NearEmpty DEF Shape
  <1>4. TwoFiles
    BY <1>1, <1>2 DEF TwoFiles, File
  <1> QED
    BY <1>1, <1>3, <1>4 DEF StuckInv

LEMMA StuckInvStep == StuckInv /\ [Next]_vars => StuckInv'
  <1> SUFFICES ASSUME StuckInv, [Next]_vars PROVE StuckInv'
    OBVIOUS
  <1>0. {"pwrp", "p_cryptp", "p_ole", "chrome.dll", "chrome.exe"} \subseteq File \ {"w2ksync"}
    BY DEF File
  <1>1. CASE StartPE \/ UNCHANGED vars
    BY <1>1, NothingWritten DEF StartPE, vars
  <1>2. CASE VisitPE
    BY <1>2, VisitKeeps
  <1>3. CASE AlreadyCryptp
    BY <1>3, NothingWritten DEF AlreadyCryptp
  <1>4. CASE PatchCryptp
    <2>1. \/ "cryptp" \notin tree["p_cryptp"].edits /\ WriteOrDie("cryptp", "p_cryptp")
          \/ Refuse("cryptp")
      BY <1>4 DEF PatchCryptp
    <2>2. "cryptp" = Chain[2] /\ "cryptp" \in Final["p_cryptp"] /\ half' = half
      BY <1>4, ChainIs, AllFinal DEF PatchCryptp
    <2> QED
      BY <2>1, <2>2, BytesKeeps
  <1>5. CASE GetNativeSystemInfo
    <2>1. ("c3" \notin tree["pwrp"].edits /\ WriteOrDie("c3", "pwrp")) \/ Refuse("c3")
      BY <1>5 DEF GetNativeSystemInfo, Bytes
    <2>2. "c3" = Chain[3] /\ "c3" \in Final["pwrp"] /\ half' = half
      BY <1>5, ChainIs, AllFinal DEF GetNativeSystemInfo, Bytes
    <2> QED
      BY <2>1, <2>2, BytesKeeps
  <1>6. CASE Candidate4
    <2>1. ("c4" \notin tree["pwrp"].edits /\ WriteOrDie("c4", "pwrp")) \/ Refuse("c4")
      BY <1>6 DEF Candidate4, Bytes
    <2>2. "c4" = Chain[4] /\ "c4" \in Final["pwrp"] /\ half' = half
      BY <1>6, ChainIs, AllFinal DEF Candidate4, Bytes
    <2> QED
      BY <2>1, <2>2, BytesKeeps
  <1>7. CASE Candidate5 \/ Candidate6 \/ Candidate7 \/ Candidate8
    <2>1. /\ AfterC4 \cup {"c5"} = Prefix("pwrp", 5)
          /\ (AfterC4 \cup {"c5"}) \cup {"c6"} = Prefix("pwrp", 6)
          /\ (AfterC4 \cup {"c5", "c6"}) \cup {"c7"} = Prefix("pwrp", 7)
          /\ (AfterC4 \cup {"c5", "c6", "c7"}) \cup {"c8"} = Prefix("pwrp", 8)
      BY PrefixPwrp DEF AfterC8
    <2> QED
      BY <1>0, <1>7, <2>1, ShaKeeps DEF Candidate5, Candidate6, Candidate7, Candidate8
  <1>8. CASE Candidate11 \/ Route \/ Candidate18
    <2>1. /\ AfterC8 \cup {"c11"} = Prefix("pwrp", 11)
          /\ AfterC12 \cup {"route"} = Prefix("pwrp", 13)
          /\ (AfterC12 \cup {"route"}) \cup {"c18"} = Prefix("pwrp", 17)
      BY PrefixPwrp
    <2> QED
      BY <1>0, <1>8, <2>1, ShaKeeps DEF Candidate11, Route, Candidate18
  <1>9. CASE Candidate9 \/ Candidate13 \/ Candidate14
    <2>1. /\ {} \cup {"c9"} = Prefix("chrome.dll", 9)
          /\ {"c9", "c12"} \cup {"c13"} = Prefix("chrome.dll", 14)
          /\ {"c9", "c12", "c13"} \cup {"c14"} = Prefix("chrome.dll", 15)
      BY PrefixOthers
    <2> QED
      BY <1>0, <1>9, <2>1, ShaKeeps DEF Candidate9, Candidate13, Candidate14
  <1>10. CASE Candidate17 \/ Candidate19
    <2>1. /\ {"pe"} \cup {"c17"} = Prefix("p_ole", 16)
          /\ {} \cup {"c19"} = Prefix("chrome.exe", 18)
      BY PrefixOthers
    <2> QED
      BY <1>0, <1>10, <2>1, ShaKeeps DEF Candidate17, Candidate19
  <1>11. CASE Candidate12Pwrp \/ Candidate12Chrome
    BY <1>11, TwelveKeeps
  <1>12. CASE InstallSync
    <2>1. tree' = [tree EXCEPT !["w2ksync"] = Whole({})] /\ crashes' = crashes /\ half' = half
      BY <1>12 DEF InstallSync
    <2>2. "w2ksync" \in File /\ Whole({}) # Torn /\ Shape("w2ksync", Whole({}))
      BY Kinds DEF File, Shape, Near
    <2> QED
      BY <2>1, <2>2, OneWritten
  <1>13. CASE FreshCopy
    <2>1. tree' = Upstream /\ half' = half /\ ~half /\ crashes' = crashes
      BY <1>13 DEF FreshCopy, Idle
    <2>2. \A f \in File : tree'[f] = IF f = "w2ksync" THEN Absent ELSE Whole({})
      BY <2>1 DEF Upstream
    <2>3. \A f \in File : Shape(f, tree[f])'
      BY <2>2, NearEmpty DEF Shape
    <2>4. TwoFiles'
      BY <2>1, <2>2 DEF TwoFiles, File
    <2>5. TreeOnFiles'
      BY <2>1 DEF TreeOnFiles, Upstream
    <2> QED
      BY <2>1, <2>3, <2>4, <2>5 DEF StuckInv
  <1> QED
    BY <1>1, <1>2, <1>3, <1>4, <1>5, <1>6, <1>7, <1>8, <1>9, <1>10, <1>11, <1>12, <1>13 DEF Next

\* Whatever was run, in which order, and killed where: a file that no script will
\* finish was torn by a kill, or is the chrome.dll of a candidate 12 that came too
\* soon; and only a kill leaves candidate 12 in one of its two files.
THEOREM StuckExplainedHolds == Spec => []StuckExplained
  <1>1. StuckInv => StuckExplained
    <2> SUFFICES ASSUME StuckInv PROVE StuckExplained
      OBVIOUS
    <2>1. ASSUME NEW f \in File
          PROVE  \/ tree[f].is = "torn" /\ crashes > 0
                 \/ tree[f].is = "absent" /\ f = "w2ksync"
                 \/ tree[f].is = "whole" /\ OnTheWay(f, tree[f].edits)
                 \/ f = "chrome.dll" /\ tree[f] = Whole({"c12"})
      <3>1. CASE tree[f] = Torn /\ crashes > 0
        BY <3>1, Kinds
      <3>2. CASE tree[f] = Absent /\ f = "w2ksync"
        BY <3>2, Kinds
      <3>3. ASSUME NEW edits, tree[f] = Whole(edits), Near(f, edits)
            PROVE  \/ tree[f].is = "whole" /\ OnTheWay(f, tree[f].edits)
                   \/ f = "chrome.dll" /\ tree[f] = Whole({"c12"})
        <4>1. tree[f].is = "whole" /\ tree[f].edits = edits
          BY <3>3, WholeFiles
        <4>2. OnTheWay(f, edits) \/ (f = "chrome.dll" /\ edits = {"c12"})
          BY <3>3, ChainIs DEF Near, OnTheWay
        <4> QED
          BY <3>3, <4>1, <4>2
      <3> QED
        BY <3>1, <3>2, <3>3 DEF StuckInv, Shape
    <2> QED
      BY <2>1 DEF StuckInv, TwoFiles, StuckExplained
  <1> QED
    BY <1>1, StuckInvInit, StuckInvStep, PTL DEF Spec

-----------------------------------------------------------------------------
(* The documented order goes through *)

\* How far into the tree step 1 comes to a file.
Place == [f \in File |-> CASE f = "chrome.dll" -> 1 [] f = "chrome.exe" -> 2 [] f = "p_cryptp" -> 3
                           [] f = "p_ole" -> 4 [] f = "pwrp" -> 5 [] OTHER -> 6]

Before(f) == IF f \in {"p_cryptp", "p_ole", "pwrp"} THEN {"pe"} ELSE {}

\* What a file of the package holds after the first scripts of the chain, and
\* while the first of them is on its way through the tree.
Held(f) ==
    IF progress = 0
      THEN IF walk # << >> /\ Place[f] <= 5 - Len(walk) THEN Before(f) ELSE {}
      ELSE Prefix(f, IF half /\ f = "pwrp" THEN 12 ELSE progress)

\* What step 1 has left to visit: the end of its list, the bridge last if it is
\* there.
Listed == IF progress < 10 THEN 5 ELSE 6

WalkOnTheWay ==
    /\ walk \in Seq(File) /\ Len(walk) <= Listed
    /\ \A i \in 1 .. Len(walk) : Place[walk[i]] = Listed - Len(walk) + i

OrderInv ==
    /\ TreeOnFiles
    /\ progress # Off =>
        /\ progress \in 0 .. 18
        /\ outcome # "refused"
        /\ half => progress = 11 /\ walk = << >>
        /\ tree["w2ksync"] = IF progress < 10 THEN Absent ELSE Whole({})
        /\ \A f \in File \ {"w2ksync"} : tree[f] = Whole(Held(f))
        /\ WalkOnTheWay

\* A script that was not next, or that did not succeed, ends the documented order.
LEMMA OutOfOrder ==
    ASSUME TreeOnFiles', progress' = Off
    PROVE  OrderInv'
  BY DEF OrderInv

\* The next script writes its file and the order is one script further.
LEMMA NextInOrder ==
    ASSUME OrderInv, NEW k \in 2 .. 18, k # 10, progress = k - 1, ~half, walk = << >>,
           progress' = k, half' = half, walk' = walk, outcome' = "ok",
           NEW g \in File \ {"w2ksync"}, NEW s, s = Chain[k], s \in Final[g],
           \A f \in File \ {"w2ksync", g} : s \notin Final[f],
           tree' = [tree EXCEPT ![g] = Patched(@, s)]
    PROVE  OrderInv'
  <1>1. progress # Off /\ progress' # Off /\ progress' \in 0 .. 18 /\ progress # 0 /\ progress' # 0
        /\ (progress < 10 <=> progress' < 10)
    BY ChainIs
  <1>2. TreeOnFiles /\ \A f \in File \ {"w2ksync"} : tree[f] = Whole(Prefix(f, k - 1))
    BY <1>1 DEF OrderInv, Held
  <1>3. \A f \in File \ {"w2ksync"} : tree'[f] = Whole(Prefix(f, k))
    <2>1. ASSUME NEW f \in File \ {"w2ksync"} PROVE tree'[f] = Whole(Prefix(f, k))
      <3>1. Prefix(f, k) = Prefix(f, k - 1) \cup (Final[f] \cap {s})
        BY PrefixGrows
      <3>2. CASE f = g
        <4>1. Prefix(f, k) = Prefix(f, k - 1) \cup {s}
          BY <3>1, <3>2
        <4> QED
          BY <1>2, <3>2, <4>1, WholeFiles DEF TreeOnFiles
      <3>3. CASE f # g
        <4>1. Prefix(f, k) = Prefix(f, k - 1)
          BY <3>1, <3>3
        <4> QED
          BY <1>2, <3>3, <4>1 DEF TreeOnFiles
      <3> QED
        BY <3>2, <3>3
    <2> QED
      BY <2>1
  <1>4. tree'["w2ksync"] = tree["w2ksync"] /\ TreeOnFiles'
    BY <1>2 DEF TreeOnFiles
  <1>5. \A f \in File \ {"w2ksync"} : Held(f)' = Prefix(f, k)
    BY <1>1 DEF Held
  <1>6. WalkOnTheWay'
    BY <1>1 DEF OrderInv, WalkOnTheWay, Listed
  <1> QED
    BY <1>1, <1>3, <1>4, <1>5, <1>6 DEF OrderInv

\* A script that tests a hash: if it is next its input is what it expects.
LEMMA ShaInOrder ==
    ASSUME OrderInv, NEW k \in 2 .. 18, k # 10, k # 12, NEW g \in File \ {"w2ksync"}, NEW s, s = Chain[k],
           s \in Final[g], \A f \in File \ {"w2ksync", g} : s \notin Final[f],
           Idle, walk' = walk, half' = half,
           WriteOrDie(s, g) \/ (Refuse(s) /\ (InOrder(s) => tree[g] # Whole(Prefix(g, k - 1))))
    PROVE  OrderInv'
  <1>1. TreeOnFiles /\ walk = << >> /\ ~half
    BY DEF OrderInv, Idle
  <1>2. progress # Off /\ InOrder(s) => progress = k - 1
    <2>1. ASSUME progress # Off, InOrder(s) PROVE progress = k - 1
      <3>1. progress \in 0 .. 17 /\ Chain[progress + 1] = Chain[k]
        BY <2>1, ChainIs DEF OrderInv, InOrder
      <3>2. progress + 1 = k
        BY <3>1, ChainInjective
      <3> QED
        BY <3>1, <3>2
    <2> QED
      BY <2>1
  <1>3. progress = Off => ~InOrder(s)
    BY ChainIs DEF InOrder
  <1>4. CASE WriteBytes(s, g)
    <2>1. tree' = [tree EXCEPT ![g] = Patched(@, s)] /\ outcome' = "ok"
          /\ progress' = IF InOrder(s) THEN progress + 1 ELSE Off
      BY <1>4 DEF WriteBytes, Succeed
    <2>2. TreeOnFiles'
      BY <1>1, <2>1 DEF TreeOnFiles
    <2>3. CASE InOrder(s)
      <3>1. progress = k - 1 /\ progress' = k
        BY <1>2, <1>3, <2>1, <2>3
      <3> QED
        BY <1>1, <2>1, <3>1, NextInOrder
    <2>4. CASE ~InOrder(s)
      BY <2>1, <2>2, <2>4, OutOfOrder
    <2> QED
      BY <2>3, <2>4
  <1>5. CASE \E c \in {Torn, Patched(tree[g], s)} : Killed(g, c)
    BY <1>1, <1>5, OutOfOrder DEF Killed, TreeOnFiles
  <1>6. CASE Refuse(s) /\ (InOrder(s) => tree[g] # Whole(Prefix(g, k - 1)))
    <2>1. ~InOrder(s)
      <3> SUFFICES ASSUME InOrder(s) PROVE FALSE
        OBVIOUS
      <3>1. progress = k - 1 /\ progress # Off /\ progress # 0
        BY <1>2, <1>3, ChainIs
      <3>2. tree[g] = Whole(Prefix(g, k - 1))
        BY <1>1, <3>1 DEF OrderInv, Held
      <3> QED
        BY <1>6, <3>2
    <2>2. progress' = Off /\ tree' = tree
      BY <1>6, <2>1 DEF Refuse
    <2> QED
      BY <1>1, <2>2, OutOfOrder DEF TreeOnFiles
  <1> QED
    BY <1>4, <1>5, <1>6 DEF WriteOrDie

\* The same of the scripts that look at bytes: if one is next, its edit is not there.
LEMMA BytesInOrder ==
    ASSUME OrderInv, NEW k \in 2 .. 4, NEW g \in File \ {"w2ksync"}, NEW s, s = Chain[k],
           s \in Final[g], \A f \in File \ {"w2ksync", g} : s \notin Final[f],
           Idle, walk' = walk, half' = half,
           WriteOrDie(s, g) \/ (Refuse(s) /\ (tree[g].is = "torn" \/ s \in tree[g].edits))
    PROVE  OrderInv'
  <1>1. ASSUME tree[g] = Whole(Prefix(g, k - 1)) PROVE tree[g].is # "torn" /\ s \notin tree[g].edits
    <2>1. s \notin Prefix(g, k - 1)
      BY PrefixHas
    <2> QED
      BY <1>1, <2>1, WholeFiles
  <1>2. WriteOrDie(s, g) \/ (Refuse(s) /\ (InOrder(s) => tree[g] # Whole(Prefix(g, k - 1))))
    BY <1>1
  <1>3. k \in 2 .. 18 /\ k # 10 /\ k # 12
    OBVIOUS
  <1> QED
    BY <1>2, <1>3, ShaInOrder


\* Where in the tree the files come.
LEMMA Places ==
    /\ Place["chrome.dll"] = 1 /\ Place["chrome.exe"] = 2 /\ Place["p_cryptp"] = 3
    /\ Place["p_ole"] = 4 /\ Place["pwrp"] = 5 /\ Place["w2ksync"] = 6
    /\ \A f \in File : Place[f] \in 1 .. 6 /\ (Place[f] = 6 <=> f = "w2ksync")
    /\ \A f, h \in File : Place[f] = Place[h] => f = h
  <1>1. /\ Place["chrome.dll"] = 1 /\ Place["chrome.exe"] = 2 /\ Place["p_cryptp"] = 3
        /\ Place["p_ole"] = 4 /\ Place["pwrp"] = 5 /\ Place["w2ksync"] = 6
    BY DEF Place, File
  <1> QED
    BY <1>1 DEF File
LEMMA OneMore ==
    ASSUME NEW q \in Seq(File), NEW x \in File
    PROVE  /\ Append(q, x) \in Seq(File) /\ Len(Append(q, x)) = Len(q) + 1
           /\ Append(q, x)[Len(q) + 1] = x
           /\ \A i \in 1 .. Len(q) : Append(q, x)[i] = q[i]
  OBVIOUS

LEMMA OneLess ==
    ASSUME NEW q \in Seq(File), q # << >>
    PROVE  /\ Tail(q) \in Seq(File) /\ Len(Tail(q)) = Len(q) - 1
           /\ \A i \in 1 .. Len(q) - 1 : Tail(q)[i] = q[i + 1]
           /\ Tail(q) = << >> <=> Len(q) = 1
  <1>1. /\ Tail(q) \in Seq(File) /\ Len(Tail(q)) = Len(q) - 1
        /\ \A i \in 1 .. Len(q) - 1 : Tail(q)[i] = q[i + 1]
    OBVIOUS
  <1>2. Len(q) \in Nat
    OBVIOUS
  <1>3. Len(Tail(q)) = 0 <=> Tail(q) = << >>
    <2> DEFINE r == Tail(q)
    <2>1. r \in Seq(File)
      BY <1>1
    <2> HIDE DEF r
    <2>2. Len(r) = 0 <=> r = << >>
      BY <2>1
    <2> QED
      BY <2>2 DEF r
  <1> QED
    BY <1>1, <1>2, <1>3

LEMMA WholeTree ==
    ASSUME NEW w \in Seq(File), NEW n \in {5, 6}, Len(w) = n, \A i \in 1 .. n : Place[w[i]] = i,
           walk' = w, Listed' = n
    PROVE  WalkOnTheWay' /\ Len(walk') = n
  BY DEF WalkOnTheWay

LEMMA StartInOrder ==
    ASSUME OrderInv, StartPE
    PROVE  OrderInv'
  <1>1. /\ TreeOnFiles' /\ tree' = tree /\ half' = half /\ progress' = progress /\ outcome' = outcome
        /\ walk = << >> /\ ~half
        /\ walk' = IF tree["w2ksync"].is = "absent" THEN TreeOrder ELSE Append(TreeOrder, "w2ksync")
    BY DEF StartPE, Idle, OrderInv, TreeOnFiles
  <1>2. CASE progress = Off
    BY <1>1, <1>2, OutOfOrder
  <1>3. CASE progress # Off
    <2>1. walk' = IF progress < 10 THEN TreeOrder ELSE Append(TreeOrder, "w2ksync")
      <3>1. (tree["w2ksync"].is = "absent") <=> progress < 10
        BY <1>3, WholeFiles DEF OrderInv, Absent
      <3> QED
        BY <1>1, <3>1
    <2>2. WalkOnTheWay' /\ (progress < 10 => Len(walk') = 5)
      <3>1. /\ TreeOrder \in Seq(File) /\ Len(TreeOrder) = 5
            /\ \A i \in 1 .. 5 : Place[TreeOrder[i]] = i
        <4>1. TreeOrder \in Seq(File) /\ Len(TreeOrder) = 5
          BY DEF TreeOrder, File
        <4>2. ASSUME NEW i \in 1 .. 5 PROVE Place[TreeOrder[i]] = i
          <5>1. i = 1 \/ i = 2 \/ i = 3 \/ i = 4 \/ i = 5
            OBVIOUS
          <5> QED
            BY <5>1, Places DEF TreeOrder
        <4> QED
          BY <4>1, <4>2
      <3>2. CASE progress < 10
        <4>1. walk' = TreeOrder /\ Listed' = 5
          BY <1>1, <2>1, <3>2 DEF Listed
        <4> QED
          BY <3>1, <4>1, WholeTree
      <3>3. CASE ~(progress < 10)
        <4> DEFINE w == Append(TreeOrder, "w2ksync")
        <4>1. /\ w \in Seq(File) /\ Len(w) = 6 /\ w[6] = "w2ksync"
              /\ \A i \in 1 .. 5 : w[i] = TreeOrder[i]
          <5>1. "w2ksync" \in File
            BY DEF File
          <5>2. 5 + 1 = 6
            OBVIOUS
          <5> QED
            <6>1. /\ Append(TreeOrder, "w2ksync") \in Seq(File)
                  /\ Len(Append(TreeOrder, "w2ksync")) = Len(TreeOrder) + 1
                  /\ Append(TreeOrder, "w2ksync")[Len(TreeOrder) + 1] = "w2ksync"
                  /\ \A i \in 1 .. Len(TreeOrder) : Append(TreeOrder, "w2ksync")[i] = TreeOrder[i]
              BY <3>1, <5>1, OneMore
            <6> HIDE DEF w
            <6>2. /\ w \in Seq(File) /\ Len(w) = Len(TreeOrder) + 1 /\ w[Len(TreeOrder) + 1] = "w2ksync"
                  /\ \A i \in 1 .. Len(TreeOrder) : w[i] = TreeOrder[i]
              BY <6>1 DEF w
            <6> QED
              BY <3>1, <5>2, <6>2
        <4>2. \A i \in 1 .. 6 : Place[w[i]] = i
          BY <3>1, <4>1, Places
        <4>3. walk' = w /\ Listed' = 6
          BY <1>1, <2>1, <3>3 DEF w, Listed
        <4> HIDE DEF w
        <4> QED
          BY <3>3, <4>1, <4>2, <4>3, WholeTree
      <3> QED
        BY <3>2, <3>3
    <2>3. \A f \in File \ {"w2ksync"} : Held(f)' = Held(f)
      <3>1. CASE progress = 0
        <4>1. Len(walk') = 5 /\ \A f \in File : ~(Place[f] <= 5 - Len(walk'))
          <5>1. Len(walk') = 5
            BY <2>2, <3>1
          <5>2. \A f \in File : Place[f] \in 1 .. 6
            BY Places
          <5> QED
            BY <5>1, <5>2
        <4> QED
          BY <1>1, <3>1, <4>1 DEF Held
      <3>2. CASE progress # 0
        BY <1>1, <3>2 DEF Held
      <3> QED
        BY <3>1, <3>2
    <2> QED
      BY <1>1, <1>3, <2>2, <2>3 DEF OrderInv
  <1> QED
    BY <1>2, <1>3

\* The first step of the chain, file by file, leaves the others' order alone.
LEMMA VisitInOrder ==
    ASSUME OrderInv, VisitPE
    PROVE  OrderInv'
  <1> DEFINE g == Head(walk)
             n == Len(walk)
  <1>0. TreeOnFiles /\ walk # << >> /\ half' = half
    BY DEF VisitPE, OrderInv
  <1>1. TreeOnFiles'
    BY <1>0 DEF VisitPE, Killed, TreeOnFiles
  <1>2. \/ progress' = Off
        \/ /\ tree' = [tree EXCEPT ![g] = IF Changes(g) THEN Headed(@) ELSE @]
           /\ walk' = Tail(walk)
           /\ IF walk' = << >> THEN Succeed("pe") ELSE UNCHANGED << outcome, accepted, progress >>
    BY DEF VisitPE, Killed
  <1>3. CASE progress' = Off
    BY <1>1, <1>3, OutOfOrder
  <1>4. CASE progress = Off
    BY <1>1, <1>2, <1>4, OutOfOrder, ChainIs DEF Succeed, InOrder
  <1>5. CASE progress # Off /\ progress' # Off
    <2>1. /\ progress \in 0 .. 18 /\ WalkOnTheWay /\ ~half
          /\ \A f \in File \ {"w2ksync"} : tree[f] = Whole(Held(f))
          /\ tree["w2ksync"] = IF progress < 10 THEN Absent ELSE Whole({})
          /\ outcome # "refused"
      BY <1>0, <1>5 DEF OrderInv
    <2>2. /\ n \in 1 .. Listed /\ walk \in Seq(File) /\ g = walk[1] /\ g \in File
          /\ Place[g] = Listed - n + 1 /\ Listed \in {5, 6}
      <3>1. n \in Nat /\ n # 0 /\ g = walk[1] /\ g \in File /\ n <= Listed
        BY <1>0, <2>1 DEF WalkOnTheWay
      <3>2. Listed \in {5, 6}
        BY DEF Listed
      <3>3. 1 \in 1 .. n
        BY <3>1
      <3> QED
        BY <2>1, <3>1, <3>2, <3>3 DEF WalkOnTheWay
    <2>3. /\ tree' = [tree EXCEPT ![g] = IF Changes(g) THEN Headed(@) ELSE @]
          /\ walk' = Tail(walk) /\ walk' \in Seq(File) /\ Len(walk') = n - 1
          /\ \A i \in 1 .. n - 1 : walk'[i] = walk[i + 1]
          /\ (walk' = << >> <=> n = 1)
      <3>1. tree' = [tree EXCEPT ![g] = IF Changes(g) THEN Headed(@) ELSE @] /\ walk' = Tail(walk)
        BY <1>2, <1>5
      <3>2. /\ Tail(walk) \in Seq(File) /\ Len(Tail(walk)) = n - 1
            /\ \A i \in 1 .. n - 1 : Tail(walk)[i] = walk[i + 1]
        BY <1>0, <2>2, OneLess
      <3>3. Tail(walk) = << >> <=> n = 1
        BY <1>0, <2>2, OneLess
      <3> QED
        BY <3>1, <3>2, <3>3
    <2> HIDE DEF g, n
    <2>4. \A i \in 1 .. Len(walk') : Place[walk'[i]] = Listed - Len(walk') + i
      <3>1. \A i \in 1 .. n - 1 : i + 1 \in 1 .. n
        BY <2>2
      <3>2. \A i \in 1 .. n : Place[walk[i]] = Listed - n + i
        BY <2>1 DEF WalkOnTheWay, n
      <3>3. ASSUME NEW i \in 1 .. n - 1 PROVE Place[walk'[i]] = Listed - (n - 1) + i
        <4>1. Place[walk[i + 1]] = Listed - n + (i + 1)
          BY <3>1, <3>2
        <4> QED
          BY <2>2, <2>3, <4>1
      <3> QED
        BY <2>2, <2>3, <3>3
    <2>5. \A f \in {"p_cryptp", "p_ole", "pwrp"} : f \in NeedsPE /\ f \in File \ {"w2ksync"}
      BY DEF NeedsPE, File
    <2>6. \A f \in File \ {"w2ksync"} : f \in NeedsPE <=> f \in {"p_cryptp", "p_ole", "pwrp"}
      BY DEF NeedsPE
    <2>7. tree'[g] = (IF Changes(g) THEN Headed(tree[g]) ELSE tree[g])
          /\ \A f \in File \ {g} : tree'[f] = tree[f]
      BY <1>0, <2>2, <2>3 DEF TreeOnFiles
    <2>8. CASE progress = 0
      <3>1. Listed = 5 /\ g # "w2ksync" /\ Place[g] = 6 - n /\ n \in 1 .. 5
        BY <2>2, <2>8, Places DEF Listed
      <3>2. Held(g) = {} /\ tree[g] = Whole({})
        <4>1. ~(Place[g] <= 5 - n)
          BY <3>1
        <4>2. Held(g) = {}
          BY <2>8, <4>1 DEF Held, n
        <4> QED
          BY <2>1, <2>2, <3>1, <4>2
      <3>3. tree'[g] = Whole(Before(g))
        <4>1. Changes(g) <=> g \in {"p_cryptp", "p_ole", "pwrp"}
          BY <2>2, <2>6, <3>1, <3>2, WholeFiles DEF Changes
        <4>2. Headed(Whole({})) = Whole({"pe"})
          <5>1. ({} \ {"half pe"}) \cup {"pe"} = {"pe"}
            OBVIOUS
          <5> QED
            BY <5>1, WholeFiles DEF Headed
        <4> QED
          BY <2>7, <3>2, <4>1, <4>2 DEF Before
      <3>4. ASSUME NEW f \in File \ {"w2ksync"}
            PROVE  tree'[f] = Whole(IF Place[f] <= 5 - (n - 1) THEN Before(f) ELSE {})
        <4>1. CASE f = g
          BY <3>1, <3>3, <4>1
        <4>2. CASE f # g
          <5>1. Place[f] # Place[g] /\ Place[f] \in 1 .. 6 /\ Place[g] \in 1 .. 6
            BY <2>2, <4>2, Places
          <5>2. Place[f] <= 5 - n <=> Place[f] <= 5 - (n - 1)
            BY <3>1, <5>1
          <5>3. tree'[f] = Whole(Held(f))
            BY <2>1, <2>7, <4>2
          <5>4. Held(f) = IF Place[f] <= 5 - n THEN Before(f) ELSE {}
            BY <1>0, <2>8 DEF Held, n
          <5> QED
            BY <5>2, <5>3, <5>4
        <4> QED
          BY <4>1, <4>2
      <3>5. tree'["w2ksync"] = Absent /\ "w2ksync" \in File
        <4>1. "w2ksync" \in File \ {g}
          BY <3>1 DEF File
        <4> QED
          BY <2>1, <2>7, <2>8, <4>1
      <3>6. CASE n = 1
        <4>1. progress' = 1 /\ outcome' = "ok"
          BY <1>2, <1>5, <2>3, <2>8, <3>6, ChainIs DEF Succeed, InOrder
        <4>2. \A f \in File \ {"w2ksync"} : Held(f)' = Before(f)
          <5>1. ASSUME NEW f \in File \ {"w2ksync"} PROVE Prefix(f, 1) = Before(f)
            <6>1. Prefix(f, 1) = Final[f] \cap {"pe"}
              <7>1. Prefix(f, 1) = Prefix(f, 1 - 1) \cup (Final[f] \cap {Chain[1]})
                BY PrefixGrows
              <7>2. Prefix(f, 1 - 1) = {}
                BY PrefixGrows
              <7> QED
                BY <7>1, <7>2, ChainIs
            <6>2. "pe" \in Final[f] <=> f \in {"p_cryptp", "p_ole", "pwrp"}
              BY AllFinal DEF File
            <6> QED
              BY <6>1, <6>2 DEF Before
          <5> QED
            BY <1>0, <2>1, <4>1, <5>1 DEF Held
        <4>3. \A f \in File \ {"w2ksync"} : Place[f] <= 5 - (n - 1)
          BY <3>6, Places
        <4>4. WalkOnTheWay'
          BY <2>3, <3>6, <4>1 DEF WalkOnTheWay, Listed
        <4>5. \A f \in File \ {"w2ksync"} : tree'[f] = Whole(Held(f)')
          BY <3>4, <4>2, <4>3
        <4>6. 1 \in 0 .. 18 /\ 1 < 10
          OBVIOUS
        <4> QED
          BY <1>0, <1>1, <2>1, <3>5, <4>1, <4>4, <4>5, <4>6 DEF OrderInv
      <3>7. CASE n # 1
        <4>1. progress' = 0 /\ outcome' = outcome /\ walk' # << >>
          BY <1>2, <1>5, <2>3, <2>8, <3>7
        <4>2. \A f \in File \ {"w2ksync"} : Held(f)' = IF Place[f] <= 5 - (n - 1) THEN Before(f) ELSE {}
          BY <2>3, <4>1 DEF Held
        <4>3. WalkOnTheWay'
          <5>1. Listed' = Listed /\ Len(walk') <= Listed
            <6>1. Listed' = 5 /\ Listed = 5
              BY <2>8, <4>1 DEF Listed
            <6> QED
              BY <2>2, <2>3, <6>1
          <5> QED
            BY <2>3, <2>4, <5>1 DEF WalkOnTheWay
        <4>4. \A f \in File \ {"w2ksync"} : tree'[f] = Whole(Held(f)')
          BY <3>4, <4>2
        <4>5. 0 \in 0 .. 18 /\ 0 < 10
          OBVIOUS
        <4> QED
          BY <1>0, <1>1, <2>1, <3>5, <4>1, <4>3, <4>4, <4>5 DEF OrderInv
      <3> QED
        BY <3>6, <3>7
    <2>9. CASE progress # 0
      <3>1. walk' # << >> /\ progress' = progress /\ outcome' = outcome
        <4>1. ~InOrder("pe")
          <5> SUFFICES ASSUME InOrder("pe") PROVE FALSE
            OBVIOUS
          <5>1. progress + 1 \in 1 .. 18 /\ 1 \in 1 .. 18 /\ Chain[progress + 1] = Chain[1]
            BY <2>1, ChainIs DEF InOrder
          <5>2. progress + 1 = 1
            BY <5>1, ChainInjective
          <5> QED
            BY <2>1, <2>9, <5>2
        <4>2. walk' = << >> => progress' = Off
          BY <1>2, <1>5, <4>1 DEF Succeed
        <4> QED
          BY <1>2, <1>5, <4>2
      <3>2. n \in 2 .. Listed
        BY <2>2, <2>3, <3>1
      <3>3. g # "w2ksync"
        BY <2>2, <3>2, Places
      <3>4. ~Changes(g)
        <4>1. CASE g \in {"p_cryptp", "p_ole", "pwrp"}
          <5>1. "pe" \in Final[g] /\ 1 \in 1 .. 18 /\ Chain[1] = "pe"
            BY <4>1, AllFinal, ChainIs
          <5>2. "pe" \in Prefix(g, progress)
            BY <2>1, <2>9, <5>1, PrefixHas
          <5>3. tree[g] = Whole(Prefix(g, progress))
            BY <2>1, <2>2, <2>9, <3>3 DEF Held
          <5> QED
            BY <5>2, <5>3, WholeFiles DEF Changes
        <4>2. CASE g \notin {"p_cryptp", "p_ole", "pwrp"}
          BY <2>2, <2>6, <3>3, <4>2 DEF Changes
        <4> QED
          BY <4>1, <4>2
      <3>5. \A f \in File : tree'[f] = tree[f]
        BY <2>7, <3>4
      <3>6. \A f \in File \ {"w2ksync"} : Held(f)' = Held(f)
        BY <1>0, <2>9, <3>1 DEF Held
      <3>7. WalkOnTheWay'
        <4>1. Listed' = Listed /\ Len(walk') <= Listed /\ Len(walk') = n - 1
          <5>1. Listed' = Listed
            BY <3>1 DEF Listed
          <5> QED
            BY <2>2, <2>3, <5>1
        <4> QED
          BY <2>3, <2>4, <4>1 DEF WalkOnTheWay
      <3>8. "w2ksync" \in File
        BY DEF File
      <3> QED
        BY <1>0, <1>1, <2>1, <3>1, <3>5, <3>6, <3>7, <3>8 DEF OrderInv
    <2> QED
      BY <2>8, <2>9
  <1> QED
    BY <1>3, <1>4, <1>5


\* Candidate 12, from its first file to its second.
LEMMA TwelveInOrder ==
    ASSUME OrderInv, Candidate12Pwrp \/ Candidate12Chrome
    PROVE  OrderInv'
  <1>0. /\ TreeOnFiles /\ walk' = walk /\ "pwrp" \in File /\ "chrome.dll" \in File
        /\ 11 \in 1 .. 18 /\ 12 \in 1 .. 18
    BY DEF OrderInv, File, Candidate12Pwrp, Candidate12Chrome
  <1>1. progress # Off /\ InOrder("c12") => progress = 11
    <2>1. ASSUME progress # Off, InOrder("c12") PROVE progress = 11
      <3>1. progress + 1 \in 1 .. 18 /\ Chain[progress + 1] = Chain[12]
        BY <2>1, ChainIs DEF InOrder, OrderInv
      <3>2. progress + 1 = 12 /\ progress \in 0 .. 18
        BY <1>0, <2>1, <3>1, ChainInjective DEF OrderInv
      <3> QED
        BY <3>2
    <2> QED
      BY <2>1
  <1>2. progress = Off => ~InOrder("c12")
    BY ChainIs DEF InOrder
  <1>3. CASE Candidate12Pwrp
    <2>0. walk = << >> /\ ~half
      BY <1>3 DEF Candidate12Pwrp, Idle
    <2>1. CASE Refuse("c12") /\ ~(SyncValidated /\ PwrpValidated)
      <3>1. ~InOrder("c12")
        <4> SUFFICES ASSUME InOrder("c12") PROVE FALSE
          OBVIOUS
        <4>1. progress = 11 /\ progress # Off
          BY <1>1, <1>2, ChainIs
        <4>2. tree["w2ksync"] = Whole({}) /\ tree["pwrp"] = Whole(Prefix("pwrp", 11))
          BY <1>0, <2>0, <4>1 DEF OrderInv, Held
        <4> QED
          BY <2>1, <4>2, PrefixPwrp DEF SyncValidated, PwrpValidated
      <3> QED
        BY <1>0, <2>1, <3>1, OutOfOrder DEF Refuse, TreeOnFiles
    <2>2. CASE Killed("pwrp", Torn)
      BY <1>0, <2>2, OutOfOrder DEF Killed, TreeOnFiles
    <2>3. CASE /\ PwrpValidated
               /\ tree' = [tree EXCEPT !["pwrp"] = Patched(@, "c12")]
               /\ half' = TRUE /\ outcome' = outcome /\ progress' = progress
      <3>1. TreeOnFiles'
        BY <1>0, <2>3 DEF TreeOnFiles
      <3>2. CASE progress = Off
        BY <2>3, <3>1, <3>2, OutOfOrder
      <3>3. CASE progress # Off
        <4>1. /\ progress \in 0 .. 18 /\ \A f \in File \ {"w2ksync"} : tree[f] = Whole(Held(f))
              /\ tree["w2ksync"] = (IF progress < 10 THEN Absent ELSE Whole({}))
              /\ outcome # "refused" /\ WalkOnTheWay
          BY <3>3 DEF OrderInv
        <4>2. Held("pwrp") = AfterC8 \cup {"c11"}
          BY <1>0, <2>3, <4>1, WholeFiles DEF PwrpValidated
        <4>3. Held("pwrp") = Prefix("pwrp", progress)
          BY <2>0, PrefixGrows DEF Held
        <4>4. progress = 11
          <5>1. "c11" \in Prefix("pwrp", progress) /\ "c12" \notin Prefix("pwrp", progress)
            BY <4>2, <4>3 DEF AfterC8, AfterC4
          <5>2. 11 <= progress /\ ~(12 <= progress)
            BY <1>0, <4>1, <5>1, PrefixHas, ChainIs, AllFinal
          <5> QED
            BY <4>1, <5>2
        <4>5. tree'["pwrp"] = Whole(AfterC12) /\ \A f \in File \ {"pwrp"} : tree'[f] = tree[f]
          <5>1. (AfterC8 \cup {"c11"}) \cup {"c12"} = AfterC12
            BY DEF AfterC12
          <5> QED
            BY <1>0, <2>3, <5>1, WholeFiles DEF TreeOnFiles, PwrpValidated
        <4>6. ASSUME NEW f \in File \ {"w2ksync"} PROVE tree'[f] = Whole(Held(f)')
          <5>1. CASE f = "pwrp"
            <6>1. Held(f)' = Prefix("pwrp", 12)
              BY <2>3, <4>4, <5>1 DEF Held
            <6> QED
              BY <4>5, <5>1, <6>1, PrefixPwrp
          <5>2. CASE f # "pwrp"
            <6>1. Held(f)' = Held(f)
              BY <2>0, <2>3, <4>4, <5>2 DEF Held
            <6> QED
              BY <4>1, <4>5, <5>2, <6>1
          <5> QED
            BY <5>1, <5>2
        <4>7. tree'["w2ksync"] = tree["w2ksync"]
          BY <4>5 DEF File
        <4>8. WalkOnTheWay'
          BY <1>0, <2>3, <4>1 DEF WalkOnTheWay, Listed
        <4> QED
          BY <1>0, <2>0, <2>3, <3>1, <3>3, <4>1, <4>4, <4>6, <4>7, <4>8 DEF OrderInv
      <3> QED
        BY <3>2, <3>3
    <2> QED
      BY <1>3, <2>1, <2>2, <2>3 DEF Candidate12Pwrp
  <1>4. CASE Candidate12Chrome
    <2>0. half /\ half' = FALSE
      BY <1>4 DEF Candidate12Chrome
    <2>1. CASE progress = Off
      <3>1. progress' = Off /\ TreeOnFiles'
        BY <1>0, <1>2, <1>4, <2>1
           DEF Candidate12Chrome, WriteOrDie, WriteBytes, Killed, Refuse, Succeed, TreeOnFiles
      <3> QED
        BY <3>1, OutOfOrder
    <2>2. CASE progress # Off
      <3>1. /\ progress = 11 /\ walk = << >> /\ tree["w2ksync"] = Whole({}) /\ WalkOnTheWay
            /\ \A f \in File \ {"w2ksync"} : tree[f] = Whole(Held(f))
        BY <2>0, <2>2 DEF OrderInv
      <3>2. tree["chrome.dll"] = Whole({"c9"})
        <4>1. Held("chrome.dll") = Prefix("chrome.dll", 11)
          BY <3>1 DEF Held
        <4> QED
          BY <1>0, <3>1, <4>1, PrefixOthers
      <3>3. tree["chrome.dll"].is # "torn"
        BY <3>2, WholeFiles
      <3>4. CASE WriteBytes("c12", "chrome.dll")
        <4>1. /\ tree' = [tree EXCEPT !["chrome.dll"] = Patched(@, "c12")] /\ outcome' = "ok"
              /\ progress' = IF InOrder("c12") THEN 12 ELSE Off
          BY <3>1, <3>4 DEF WriteBytes, Succeed
        <4>2. InOrder("c12") /\ progress' = 12
          BY <3>1, <4>1, ChainIs DEF InOrder
        <4>3. TreeOnFiles'
          BY <1>0, <4>1 DEF TreeOnFiles
        <4>4. /\ tree'["chrome.dll"] = Whole({"c9"} \cup {"c12"})
              /\ \A f \in File \ {"chrome.dll"} : tree'[f] = tree[f]
          BY <1>0, <3>2, <4>1, WholeFiles DEF TreeOnFiles
        <4>5. ASSUME NEW f \in File \ {"w2ksync"} PROVE tree'[f] = Whole(Held(f)')
          <5>1. Held(f)' = Prefix(f, 12)
            BY <2>0, <4>2 DEF Held
          <5>2. CASE f = "chrome.dll"
            <6>1. {"c9"} \cup {"c12"} = Prefix("chrome.dll", 12)
              BY PrefixOthers
            <6> QED
              BY <4>4, <5>1, <5>2, <6>1
          <5>3. CASE f # "chrome.dll"
            <6>1. Held(f) = Prefix(f, 12)
              <7>1. CASE f = "pwrp"
                BY <2>0, <3>1, <7>1 DEF Held
              <7>2. CASE f # "pwrp"
                <8>1. Prefix(f, 12) = Prefix(f, 12 - 1) \cup (Final[f] \cap {Chain[12]})
                  BY <1>0, PrefixGrows
                <8>2. "c12" \notin Final[f]
                  BY <5>3, <7>2, AllFinal DEF File
                <8>3. Prefix(f, 12) = Prefix(f, 11)
                  BY <8>1, <8>2, ChainIs
                <8> QED
                  BY <3>1, <7>2, <8>3 DEF Held
              <7> QED
                BY <7>1, <7>2
            <6> QED
              BY <3>1, <4>4, <5>1, <5>3, <6>1
          <5> QED
            BY <5>2, <5>3
        <4>6. tree'["w2ksync"] = Whole({})
          BY <3>1, <4>4 DEF File
        <4>7. WalkOnTheWay'
          BY <1>0, <3>1, <4>2 DEF WalkOnTheWay, Listed
        <4>8. 12 # Off /\ 12 \in 0 .. 18 /\ ~(12 < 10)
          BY ChainIs
        <4> QED
          BY <2>0, <4>1, <4>2, <4>3, <4>5, <4>6, <4>7, <4>8 DEF OrderInv
      <3>5. CASE \/ \E c \in {Torn, Patched(tree["chrome.dll"], "c12")} : Killed("chrome.dll", c)
                 \/ Killed("chrome.dll", tree["chrome.dll"])
        BY <1>0, <3>5, OutOfOrder DEF Killed, TreeOnFiles
      <3> QED
        BY <1>4, <3>3, <3>4, <3>5 DEF Candidate12Chrome, WriteOrDie
    <2> QED
      BY <2>1, <2>2
  <1> QED
    BY <1>3, <1>4

\* Installing the bridge, in its turn or again.
LEMMA InstallInOrder ==
    ASSUME OrderInv, InstallSync
    PROVE  OrderInv'
  <1>1. /\ tree' = [tree EXCEPT !["w2ksync"] = Whole({})] /\ outcome' = "ok"
        /\ progress' = IF InOrder("sync") THEN progress + 1 ELSE Off
        /\ walk = << >> /\ ~half /\ walk' = walk /\ half' = half /\ TreeOnFiles
    BY DEF InstallSync, Succeed, Idle, OrderInv
  <1>2. TreeOnFiles' /\ tree'["w2ksync"] = Whole({}) /\ \A f \in File \ {"w2ksync"} : tree'[f] = tree[f]
    BY <1>1 DEF TreeOnFiles, File
  <1>3. CASE ~InOrder("sync")
    BY <1>1, <1>2, <1>3, OutOfOrder
  <1>4. CASE InOrder("sync")
    <2>1. progress # Off
      BY <1>4, ChainIs DEF InOrder
    <2>2. progress = 9
      <3>1. progress + 1 \in 1 .. 18 /\ 10 \in 1 .. 18 /\ Chain[progress + 1] = Chain[10]
            /\ progress \in 0 .. 18
        BY <1>4, <2>1, ChainIs DEF InOrder, OrderInv
      <3>2. progress + 1 = 10
        BY <3>1, ChainInjective
      <3> QED
        BY <3>1, <3>2
    <2>3. progress' = 10 /\ 10 # Off /\ 10 \in 0 .. 18 /\ ~(10 < 10)
      BY <1>1, <1>4, <2>2, ChainIs
    <2>4. ASSUME NEW f \in File \ {"w2ksync"} PROVE tree'[f] = Whole(Held(f)')
      <3>1. tree[f] = Whole(Prefix(f, 9))
        BY <1>1, <2>1, <2>2 DEF OrderInv, Held
      <3>2. Held(f)' = Prefix(f, 10)
        BY <1>1, <2>3 DEF Held
      <3>3. Prefix(f, 10) = Prefix(f, 9)
        <4>1. Prefix(f, 10) = Prefix(f, 10 - 1) \cup (Final[f] \cap {Chain[10]})
          BY PrefixGrows
        <4>2. "sync" \notin Final[f]
          BY AllFinal DEF File
        <4> QED
          BY <4>1, <4>2, ChainIs
      <3> QED
        BY <1>2, <3>1, <3>2, <3>3
    <2>5. WalkOnTheWay'
      BY <1>1, <2>3 DEF WalkOnTheWay, Listed
    <2> QED
      BY <1>1, <1>2, <2>3, <2>4, <2>5 DEF OrderInv
  <1> QED
    BY <1>3, <1>4

\* A script that tests for the hash of what the chain before it leaves.
LEMMA TestedInOrder ==
    ASSUME OrderInv, NEW k \in 2 .. 18, k # 10, k # 12, NEW g \in File \ {"w2ksync"}, NEW s, s = Chain[k],
           s \in Final[g], \A f \in File \ {"w2ksync", g} : s \notin Final[f],
           NEW input, Sha(s, g, input), input = Prefix(g, k - 1)
    PROVE  OrderInv'
  <1>1. /\ Idle /\ walk' = walk /\ half' = half
        /\ WriteOrDie(s, g) \/ (Refuse(s) /\ (InOrder(s) => tree[g] # Whole(Prefix(g, k - 1))))
    BY DEF Sha
  <1> QED
    BY <1>1, ShaInOrder

FromUpstream == tree = Upstream /\ walk = << >> /\ ~half /\ outcome = "ok" /\ progress = 0

LEMMA OrderFromUpstream == FromUpstream => OrderInv
  <1> SUFFICES ASSUME FromUpstream PROVE OrderInv
    OBVIOUS
  <1> USE DEF FromUpstream
  <1>1. TreeOnFiles /\ \A f \in File : tree[f] = IF f = "w2ksync" THEN Absent ELSE Whole({})
    BY DEF TreeOnFiles, Upstream
  <1>2. WalkOnTheWay
    BY DEF WalkOnTheWay, Listed
  <1>3. \A f : Held(f) = {}
    BY DEF Held
  <1>4. "w2ksync" \in File
    BY DEF File
  <1>5. tree["w2ksync"] = Absent /\ \A f \in File \ {"w2ksync"} : tree[f] = Whole(Held(f))
    BY <1>1, <1>3, <1>4
  <1>6. 0 < 10 /\ 0 \in 0 .. 18
    OBVIOUS
  <1> QED
    BY <1>1, <1>2, <1>5, <1>6 DEF OrderInv

LEMMA OrderInvStep == OrderInv /\ [Next]_vars => OrderInv'
  <1> SUFFICES ASSUME OrderInv, [Next]_vars PROVE OrderInv'
    OBVIOUS
  <1>0. {"pwrp", "p_cryptp", "p_ole", "chrome.dll", "chrome.exe"} \subseteq File \ {"w2ksync"}
    BY DEF File
  <1>b. /\ \A s \in {"c3", "c4", "c5", "c6", "c7", "c8", "c11", "route", "c18"} :
              s \in Final["pwrp"] /\ \A f \in File \ {"w2ksync", "pwrp"} : s \notin Final[f]
        /\ \A s \in {"c9", "c13", "c14"} :
              s \in Final["chrome.dll"] /\ \A f \in File \ {"w2ksync", "chrome.dll"} : s \notin Final[f]
        /\ "cryptp" \in Final["p_cryptp"] /\ \A f \in File \ {"w2ksync", "p_cryptp"} : "cryptp" \notin Final[f]
        /\ "c17" \in Final["p_ole"] /\ \A f \in File \ {"w2ksync", "p_ole"} : "c17" \notin Final[f]
        /\ "c19" \in Final["chrome.exe"] /\ \A f \in File \ {"w2ksync", "chrome.exe"} : "c19" \notin Final[f]
    BY AllFinal DEF File
  <1>1. CASE StartPE
    BY <1>1, StartInOrder
  <1>2. CASE VisitPE
    BY <1>2, VisitInOrder
  <1>3. CASE AlreadyCryptp
    <2>1. /\ tree' = tree /\ progress' = (IF InOrder("cryptp") THEN progress + 1 ELSE Off) /\ TreeOnFiles
          /\ tree["p_cryptp"].is = "torn" \/ "cryptp" \in tree["p_cryptp"].edits
          /\ walk = << >> /\ ~half
      BY <1>3 DEF AlreadyCryptp, Succeed, Idle, OrderInv
    <2>2. ~InOrder("cryptp")
      <3> SUFFICES ASSUME InOrder("cryptp") PROVE FALSE
        OBVIOUS
      <3>1. progress + 1 \in 1 .. 18 /\ 2 \in 1 .. 18 /\ Chain[progress + 1] = Chain[2] /\ progress # Off
            /\ progress \in 0 .. 18
        BY ChainIs DEF InOrder, OrderInv
      <3>2. progress + 1 = 2
        BY <3>1, ChainInjective
      <3>3. progress = 1
        BY <3>1, <3>2
      <3>4. tree["p_cryptp"] = Whole(Prefix("p_cryptp", 1))
        BY <1>0, <2>1, <3>1, <3>3 DEF OrderInv, Held
      <3>5. tree["p_cryptp"].is = "whole" /\ tree["p_cryptp"].edits = {"pe"}
        BY <3>4, WholeFiles, PrefixOthers
      <3> QED
        BY <2>1, <3>5
    <2> QED
      BY <2>1, <2>2, OutOfOrder DEF TreeOnFiles
  <1>4. CASE PatchCryptp
    <2>1. /\ Idle /\ walk' = walk /\ half' = half /\ 2 \in 2 .. 4 /\ "cryptp" = Chain[2]
          /\ WriteOrDie("cryptp", "p_cryptp")
             \/ (Refuse("cryptp") /\ (tree["p_cryptp"].is = "torn" \/ "cryptp" \in tree["p_cryptp"].edits))
      BY <1>4, ChainIs DEF PatchCryptp
    <2> QED
      BY <1>0, <1>b, <2>1, BytesInOrder
  <1>5. CASE GetNativeSystemInfo
    <2>1. /\ Idle /\ walk' = walk /\ half' = half /\ 3 \in 2 .. 4 /\ "c3" = Chain[3]
          /\ WriteOrDie("c3", "pwrp")
             \/ (Refuse("c3") /\ (tree["pwrp"].is = "torn" \/ "c3" \in tree["pwrp"].edits))
      BY <1>5, ChainIs DEF GetNativeSystemInfo, Bytes
    <2> QED
      BY <1>0, <1>b, <2>1, BytesInOrder
  <1>6. CASE Candidate4
    <2>1. /\ Idle /\ walk' = walk /\ half' = half /\ 4 \in 2 .. 4 /\ "c4" = Chain[4]
          /\ WriteOrDie("c4", "pwrp")
             \/ (Refuse("c4") /\ (tree["pwrp"].is = "torn" \/ "c4" \in tree["pwrp"].edits))
      BY <1>6, ChainIs DEF Candidate4, Bytes
    <2> QED
      BY <1>0, <1>b, <2>1, BytesInOrder
  <1>7. CASE Candidate5
    <2>1. AfterC4 = Prefix("pwrp", 5 - 1) /\ "c5" = Chain[5] /\ 5 \in 2 .. 18 /\ 5 # 10 /\ 5 # 12
      BY PrefixPwrp, ChainIs
    <2>2. Sha("c5", "pwrp", AfterC4)
      BY <1>7 DEF Candidate5
    <2> QED
      BY <1>0, <1>b, <2>1, <2>2, TestedInOrder
  <1>8. CASE Candidate6
    <2>1. AfterC4 \cup {"c5"} = Prefix("pwrp", 6 - 1) /\ "c6" = Chain[6] /\ 6 \in 2 .. 18 /\ 6 # 10 /\ 6 # 12
      BY PrefixPwrp, ChainIs
    <2>2. Sha("c6", "pwrp", AfterC4 \cup {"c5"})
      BY <1>8 DEF Candidate6
    <2> QED
      BY <1>0, <1>b, <2>1, <2>2, TestedInOrder
  <1>9. CASE Candidate7
    <2>1. AfterC4 \cup {"c5", "c6"} = Prefix("pwrp", 7 - 1) /\ "c7" = Chain[7] /\ 7 \in 2 .. 18 /\ 7 # 10 /\ 7 # 12
      BY PrefixPwrp, ChainIs
    <2>2. Sha("c7", "pwrp", AfterC4 \cup {"c5", "c6"})
      BY <1>9 DEF Candidate7
    <2> QED
      BY <1>0, <1>b, <2>1, <2>2, TestedInOrder
  <1>10. CASE Candidate8
    <2>1. AfterC4 \cup {"c5", "c6", "c7"} = Prefix("pwrp", 8 - 1) /\ "c8" = Chain[8] /\ 8 \in 2 .. 18 /\ 8 # 10 /\ 8 # 12
      BY PrefixPwrp, ChainIs
    <2>2. Sha("c8", "pwrp", AfterC4 \cup {"c5", "c6", "c7"})
      BY <1>10 DEF Candidate8
    <2> QED
      BY <1>0, <1>b, <2>1, <2>2, TestedInOrder
  <1>11. CASE Candidate11
    <2>1. AfterC8 = Prefix("pwrp", 11 - 1) /\ "c11" = Chain[11] /\ 11 \in 2 .. 18 /\ 11 # 10 /\ 11 # 12
      BY PrefixPwrp, ChainIs
    <2>2. Sha("c11", "pwrp", AfterC8)
      BY <1>11 DEF Candidate11
    <2> QED
      BY <1>0, <1>b, <2>1, <2>2, TestedInOrder
  <1>12. CASE Route
    <2>1. AfterC12 = Prefix("pwrp", 13 - 1) /\ "route" = Chain[13] /\ 13 \in 2 .. 18 /\ 13 # 10 /\ 13 # 12
      BY PrefixPwrp, ChainIs
    <2>2. Sha("route", "pwrp", AfterC12)
      BY <1>12 DEF Route
    <2> QED
      BY <1>0, <1>b, <2>1, <2>2, TestedInOrder
  <1>13. CASE Candidate18
    <2>1. AfterC12 \cup {"route"} = Prefix("pwrp", 17 - 1) /\ "c18" = Chain[17] /\ 17 \in 2 .. 18 /\ 17 # 10 /\ 17 # 12
      BY PrefixPwrp, ChainIs
    <2>2. Sha("c18", "pwrp", AfterC12 \cup {"route"})
      BY <1>13 DEF Candidate18
    <2> QED
      BY <1>0, <1>b, <2>1, <2>2, TestedInOrder
  <1>14. CASE Candidate9
    <2>1. {} = Prefix("chrome.dll", 9 - 1) /\ "c9" = Chain[9] /\ 9 \in 2 .. 18 /\ 9 # 10 /\ 9 # 12
      BY PrefixOthers, ChainIs
    <2>2. Sha("c9", "chrome.dll", {})
      BY <1>14 DEF Candidate9
    <2> QED
      BY <1>0, <1>b, <2>1, <2>2, TestedInOrder
  <1>15. CASE Candidate13
    <2>1. {"c9", "c12"} = Prefix("chrome.dll", 14 - 1) /\ "c13" = Chain[14] /\ 14 \in 2 .. 18 /\ 14 # 10 /\ 14 # 12
      BY PrefixOthers, ChainIs
    <2>2. Sha("c13", "chrome.dll", {"c9", "c12"})
      BY <1>15 DEF Candidate13
    <2> QED
      BY <1>0, <1>b, <2>1, <2>2, TestedInOrder
  <1>16. CASE Candidate14
    <2>1. {"c9", "c12", "c13"} = Prefix("chrome.dll", 15 - 1) /\ "c14" = Chain[15] /\ 15 \in 2 .. 18 /\ 15 # 10 /\ 15 # 12
      BY PrefixOthers, ChainIs
    <2>2. Sha("c14", "chrome.dll", {"c9", "c12", "c13"})
      BY <1>16 DEF Candidate14
    <2> QED
      BY <1>0, <1>b, <2>1, <2>2, TestedInOrder
  <1>17. CASE Candidate17
    <2>1. {"pe"} = Prefix("p_ole", 16 - 1) /\ "c17" = Chain[16] /\ 16 \in 2 .. 18 /\ 16 # 10 /\ 16 # 12
      BY PrefixOthers, ChainIs
    <2>2. Sha("c17", "p_ole", {"pe"})
      BY <1>17 DEF Candidate17
    <2> QED
      BY <1>0, <1>b, <2>1, <2>2, TestedInOrder
  <1>18. CASE Candidate19
    <2>1. {} = Prefix("chrome.exe", 18 - 1) /\ "c19" = Chain[18] /\ 18 \in 2 .. 18 /\ 18 # 10 /\ 18 # 12
      BY PrefixOthers, ChainIs
    <2>2. Sha("c19", "chrome.exe", {})
      BY <1>18 DEF Candidate19
    <2> QED
      BY <1>0, <1>b, <2>1, <2>2, TestedInOrder
  <1>19. CASE Candidate12Pwrp \/ Candidate12Chrome
    BY <1>19, TwelveInOrder
  <1>20. CASE InstallSync
    BY <1>20, InstallInOrder
  <1>21. CASE FreshCopy
    <2>1. FromUpstream'
      BY <1>21 DEF FreshCopy, Idle, FromUpstream, Upstream
    <2> QED
      BY <2>1, OrderFromUpstream, PTL
  <1>22. CASE UNCHANGED vars
    BY <1>22 DEF vars, OrderInv, TreeOnFiles, Held, WalkOnTheWay, Listed
  <1> QED
    BY <1>1, <1>2, <1>3, <1>4, <1>5, <1>6, <1>7, <1>8, <1>9, <1>10, <1>11, <1>12, <1>13, <1>14,
       <1>15, <1>16, <1>17, <1>18, <1>19, <1>20, <1>21, <1>22 DEF Next

\* On a fresh copy no script of the documented order refuses its input, and after
\* the last one every file is as the release has it.
THEOREM DocumentedOrderGoesThroughHolds == Spec => []DocumentedOrderGoesThrough
  <1>1. Init => OrderInv
    BY OrderFromUpstream DEF Init, FromUpstream
  <1>2. OrderInv => DocumentedOrderGoesThrough
    <2> SUFFICES ASSUME OrderInv, progress # Off
                 PROVE  /\ outcome # "refused"
                        /\ progress = Len(Chain) => \A f \in File : tree[f] = Whole(Final[f])
      BY DEF DocumentedOrderGoesThrough
    <2>1. ASSUME progress = Len(Chain), NEW f \in File PROVE tree[f] = Whole(Final[f])
      <3>1. progress = 18 /\ ~half
        BY <2>1, ChainIs DEF OrderInv
      <3>2. CASE f = "w2ksync"
        BY <3>1, <3>2, AllFinal DEF OrderInv
      <3>3. CASE f # "w2ksync"
        <4>1. tree[f] = Whole(Prefix(f, 18))
          BY <3>1, <3>3 DEF OrderInv, Held
        <4>2. Final[f] \subseteq {Chain[k] : k \in 1 .. 18}
          <5>1. \A s \in Script : s \in {Chain[k] : k \in 1 .. 18}
            BY DEF Script, Chain
          <5>2. Final[f] \subseteq Script
            <6>1. {Chain[k] : k \in 1 .. 18} \subseteq Script
              BY DEF Script, Chain
            <6>2. \A k \in 1 .. 18 : Chain[k] \in Script
              BY <6>1
            <6>3. \A x \in Final[f] : x \in {"pe", "cryptp", "c3", "c4", "c5", "c6", "c7", "c8", "c9",
                                             "c11", "c12", "route", "c13", "c14", "c17", "c18", "c19"}
              BY AllFinal DEF File
            <6> QED
              BY <6>2, <6>3, ChainIs
          <5> QED
            BY <5>1, <5>2
        <4>3. Prefix(f, 18) = Final[f]
          BY <4>2 DEF Prefix
        <4> QED
          BY <4>1, <4>3
      <3> QED
        BY <3>2, <3>3
    <2> QED
      BY <2>1 DEF OrderInv
  <1> QED
    BY <1>1, <1>2, OrderInvStep, PTL DEF Spec
-----------------------------------------------------------------------------
(***************************************************************************)
(* The extractor and the certificate tool, for any package, any folder and *)
(* any history of runs: what the last box and the scripts' SUCCESS mean.   *)
(***************************************************************************)

\* An extraction that goes on has shown no box yet and has its temporary file
\* on its books; past the checksum the cabinet is whole.
StageInv ==
    /\ stage # "off" => dialog = "none"
    /\ stage \in {"load", "extract", "next", "finish"} => ~damaged
    /\ stage \in {"load", "check", "ask", "prepare", "copy"} => seen = 0
    /\ stage = "extract" => seen # 0
    /\ stage \in {"off", "check", "ask", "prepare"} => temp # "there"

\* What setupapi has reported so far is in the folder.
ExtractedInv ==
    /\ stage = "extract" =>
          \A i \in 1 .. seen : cabinet[i] = cabinet[seen] \/ disk[cabinet[i]] = "new"
    /\ stage = "next" => \A i \in 1 .. seen : disk[cabinet[i]] = "new"
    /\ stage = "finish" /\ ~failed => \A n \in DOMAIN disk : disk[n] = "new"
    /\ dialog = "success" => ~damaged /\ \A n \in DOMAIN disk : disk[n] = "new"

\* One program at a time; while one runs there is no verdict.
TurnInv ==
    /\ stage # "off" => mode = "off"
    /\ stage # "off" \/ mode # "off" => exit = NoVerdict
    /\ mode # "off" => todo \subseteq Found(disk)

\* Without a failure every file the search came to is in the store.
CountInv ==
    (mode # "off" /\ failures = 0) \/ exit = 0 =>
        \A n \in Found(disk) \ todo : <<n, disk[n]>> \in store

VerdictInv == exit = 0 => files # 0

SetupInv == STypeOK /\ StageInv /\ ExtractedInv /\ TurnInv /\ CountInv /\ VerdictInv
----------------------------------------------------------------------------
LEMMA SetupInitially == SInit => SetupInv
<1>1. SUFFICES ASSUME SInit PROVE SetupInv
  OBVIOUS
<1>2. cabinet \in Seq(Seq(STRING))
  BY <1>1, CabinetsAssumption DEF SInit, IInit
<1>3. STypeOK
  <2>1. /\ cabinet \in Cabinets /\ damaged \in BOOLEAN /\ stage = "off" /\ temp = "none"
        /\ seen \in 0 .. Len(cabinet) /\ failed = FALSE /\ dialog = "none"
    BY <1>1, <1>2 DEF SInit, IInit
  <2>2. disk \in [ToSet(cabinet) -> Contents]
    BY <1>1 DEF SInit, IInit, Contents
  <2>3. store \subseteq Certificate \X Contents
    BY <1>1 DEF SInit, RInit, Contents
  <2>4. mode = "off" /\ todo = {} /\ files = 0 /\ present = 0 /\ failures = 0 /\ exit = NoVerdict
    BY <1>1 DEF SInit, RInit
  <2> QED BY <2>1, <2>2, <2>3, <2>4 DEF STypeOK
<1>4. StageInv /\ ExtractedInv /\ TurnInv /\ CountInv /\ VerdictInv
  BY <1>1 DEF SInit, IInit, RInit, StageInv, ExtractedInv, TurnInv, CountInv, VerdictInv, NoVerdict
<1> QED BY <1>3, <1>4 DEF SetupInv

\* The steps of the extractor leave the tool and the store alone.
LEMMA TypeKeptByExtractor ==
  ASSUME STypeOK, INext \/ Start, UNCHANGED <<store, mode, todo, counts>>,
         exit' \in {exit, NoVerdict}
  PROVE  STypeOK'
<1>1. cabinet \in Seq(Seq(STRING)) /\ Len(cabinet) \in Nat
  BY CabinetsAssumption DEF STypeOK
<1>2. cabinet' = cabinet /\ damaged' = damaged
  BY DEF INext, Start, Check, Cancel, Consent, MakeTemp, Copy, Continue, StepFails, Fail,
         FileInCabinet, FileExtracted, IterationEnds, Finish, Stopped
<1>3. /\ store' \subseteq Certificate \X Contents
      /\ mode' \in {"off", "install", "verify"} /\ todo' \subseteq Certificate
      /\ files' \in Nat /\ present' \in Nat /\ failures' \in Nat
      /\ exit' \in {0, 1, 2, 3, 4, NoVerdict}
  BY DEF STypeOK, counts
<1>4. stage' \in {"off", "check", "ask", "prepare", "copy", "load", "extract", "next", "finish"}
  BY DEF STypeOK, INext, Start, Check, Cancel, Consent, MakeTemp, Copy, Continue, StepFails, Fail,
         FileInCabinet, FileExtracted, IterationEnds, Finish, Stopped
<1>5. temp' \in {"none", "there", "left"} /\ dialog' \in {"none", "success", "failure"}
  BY DEF STypeOK, INext, Start, Check, Cancel, Consent, MakeTemp, Copy, Continue, StepFails, Fail,
         FileInCabinet, FileExtracted, IterationEnds, Finish, Stopped, Outcome
<1>6. seen' \in 0 .. Len(cabinet)
  <2>1. seen' \in {seen, 0} \/ (seen < Len(cabinet) /\ seen' = seen + 1)
    BY DEF INext, Start, Check, Cancel, Consent, MakeTemp, Copy, Continue, StepFails,
           Fail, FileInCabinet, FileExtracted, IterationEnds, Finish, Stopped
  <2>2. seen \in 0 .. Len(cabinet)
    BY DEF STypeOK
  <2> QED BY <1>1, <2>1, <2>2
<1>7. failed' \in BOOLEAN
  BY DEF STypeOK, INext, Start, Check, Cancel, Consent, MakeTemp, Copy, Continue, StepFails, Fail,
         FileInCabinet, FileExtracted, IterationEnds, Finish, Stopped
<1>8. disk' \in [ToSet(cabinet) -> Contents]
  BY DEF STypeOK, Contents, INext, Start, Check, Cancel, Consent, MakeTemp, Copy, Continue,
         StepFails, Fail, FileInCabinet, FileExtracted, IterationEnds, Finish, Stopped
<1> QED BY <1>2, <1>3, <1>4, <1>5, <1>6, <1>7, <1>8 DEF STypeOK

LEMMA StageKeptByExtractor ==
  ASSUME STypeOK, StageInv, INext \/ Start
  PROVE  StageInv'
<1>1. CASE Start \/ Check \/ Cancel \/ Consent \/ MakeTemp \/ Copy
  BY <1>1 DEF StageInv, Start, Check, Cancel, Consent, MakeTemp, Copy, Continue
<1>2. CASE StepFails \/ Stopped \/ Finish
  BY <1>2 DEF StageInv, StepFails, Fail, Stopped, Finish
<1>3. CASE FileInCabinet
  <2>1. seen \in Nat
    BY DEF STypeOK
  <2>2. /\ stage \in {"load", "next"} /\ stage' \in {"extract", "finish"} /\ seen' = seen + 1
        /\ UNCHANGED <<damaged, temp, dialog>>
    BY <1>3 DEF FileInCabinet
  <2> QED BY <2>1, <2>2 DEF StageInv
<1>4. CASE FileExtracted \/ IterationEnds
  <2>1. /\ stage \in {"extract", "next"} /\ stage' \in {"next", "finish"}
        /\ UNCHANGED <<damaged, temp, seen, dialog>>
    BY <1>4 DEF FileExtracted, IterationEnds
  <2> QED BY <2>1 DEF StageInv
<1> QED BY <1>1, <1>2, <1>3, <1>4 DEF INext

\* Each action of the extractor against what it knows of the folder.
LEMMA ExtractedKeptByExtractor ==
  ASSUME STypeOK, StageInv, ExtractedInv, INext \/ Start
  PROVE  ExtractedInv'
<1>1. cabinet \in Seq(Seq(STRING)) /\ Len(cabinet) \in Nat /\ seen \in 0 .. Len(cabinet)
  BY CabinetsAssumption DEF STypeOK
<1>2. DOMAIN disk = ToSet(cabinet) /\ \A i \in 1 .. Len(cabinet) : cabinet[i] \in DOMAIN disk
  BY <1>1 DEF STypeOK, ToSet
<1>3. CASE Start \/ Check \/ Cancel \/ Consent \/ MakeTemp \/ Copy \/ StepFails \/ Stopped
  BY <1>3 DEF StageInv, ExtractedInv, Start, Check, Cancel, Consent, MakeTemp, Copy, Continue,
              StepFails, Fail, Stopped
<1>4. CASE FileInCabinet
  <2>1. CASE SafeName(cabinet[seen + 1])
             /\ disk' = [disk EXCEPT ![cabinet[seen + 1]] = "partial"]
             /\ stage' = "extract"
    <3>1. seen' = seen + 1 /\ cabinet' = cabinet /\ dialog' = dialog /\ dialog = "none"
      BY <1>4, <2>1 DEF FileInCabinet, StageInv
    <3>2. ASSUME NEW i \in 1 .. seen', cabinet[i] # cabinet[seen']
          PROVE  disk'[cabinet[i]] = "new"
      <4>1. i \in 1 .. seen /\ cabinet[i] \in DOMAIN disk
        BY <1>1, <1>2, <1>4, <3>1, <3>2 DEF FileInCabinet
      <4>2. disk'[cabinet[i]] = disk[cabinet[i]]
        BY <2>1, <3>1, <3>2, <4>1
      <4>3. stage = "next"
        BY <1>4, <4>1 DEF FileInCabinet, StageInv
      <4> QED BY <4>1, <4>2, <4>3 DEF ExtractedInv
    <3> QED BY <2>1, <3>1, <3>2 DEF ExtractedInv
  <2>2. CASE failed' = TRUE /\ stage' = "finish"
    BY <1>4, <2>2 DEF FileInCabinet, StageInv, ExtractedInv
  <2> QED BY <1>4, <2>1, <2>2 DEF FileInCabinet
<1>5. CASE FileExtracted
  <2>1. CASE disk' = [disk EXCEPT ![cabinet[seen]] = "new"] /\ stage' = "next"
    <3>1. seen' = seen /\ cabinet' = cabinet /\ dialog' = "none" /\ stage = "extract"
      BY <1>5, <2>1 DEF FileExtracted, StageInv
    <3>2. ASSUME NEW i \in 1 .. seen PROVE disk'[cabinet[i]] = "new"
      BY <1>1, <1>2, <2>1, <3>1, <3>2 DEF ExtractedInv
    <3> QED BY <2>1, <3>1, <3>2 DEF ExtractedInv
  <2>2. CASE failed' = TRUE /\ stage' = "finish"
    BY <1>5, <2>2 DEF FileExtracted, StageInv, ExtractedInv
  <2> QED BY <1>5, <2>1, <2>2 DEF FileExtracted
<1>6. CASE IterationEnds
  <2>1. stage = "next" /\ stage' = "finish" /\ dialog' = "none"
        /\ UNCHANGED <<cabinet, damaged, seen, disk>>
    BY <1>6 DEF IterationEnds, StageInv
  <2>2. ASSUME ~failed', NEW n \in DOMAIN disk PROVE disk[n] = "new"
    <3>1. seen = Len(cabinet)
      BY <1>6, <2>2 DEF IterationEnds
    <3>2. PICK i \in 1 .. Len(cabinet) : n = cabinet[i]
      BY <1>1, <1>2, <2>2 DEF ToSet
    <3> QED BY <2>1, <3>1, <3>2 DEF ExtractedInv
  <2> QED BY <2>1, <2>2 DEF ExtractedInv
<1>7. CASE Finish
  BY <1>7 DEF Finish, Outcome, StageInv, ExtractedInv
<1> QED BY <1>3, <1>4, <1>5, <1>6, <1>7 DEF INext
----------------------------------------------------------------------------
\* The extractor works only while no tool runs and no verdict stands.
LEMMA ExtractorStep ==
  ASSUME SetupInv, (INext /\ UNCHANGED rvars) \/ StartExtractor
  PROVE  SetupInv'
<1>1. /\ INext \/ Start
      /\ UNCHANGED <<store, mode, todo, counts>>
      /\ exit' \in {exit, NoVerdict}
  BY DEF StartExtractor, rvars, counts
<1>2. STypeOK' /\ StageInv' /\ ExtractedInv'
  BY <1>1, TypeKeptByExtractor, StageKeptByExtractor, ExtractedKeptByExtractor DEF SetupInv
<1>3. mode' = "off" /\ mode = "off" /\ exit' = NoVerdict
  <2>1. CASE StartExtractor
    BY <2>1 DEF StartExtractor
  <2>2. CASE INext /\ UNCHANGED rvars
    <3>1. stage # "off"
      BY <2>2 DEF INext, Check, Cancel, Consent, MakeTemp, Copy, Continue, StepFails,
                  FileInCabinet, FileExtracted, IterationEnds, Finish, Stopped
    <3> QED BY <2>2, <3>1 DEF SetupInv, TurnInv, rvars
  <2> QED BY <2>1, <2>2
<1> QED BY <1>2, <1>3 DEF SetupInv, TurnInv, CountInv, VerdictInv, NoVerdict

LEMMA CmdStep ==
  ASSUME SetupInv, NEW m \in {"install", "verify"}, RunCmd(m)
  PROVE  SetupInv'
<1>1. UNCHANGED ivars /\ stage = "off" /\ mode = "off"
  BY DEF RunCmd
<1>2. StageInv' /\ ExtractedInv'
  BY <1>1 DEF SetupInv, StageInv, ExtractedInv, ivars
<1>3. CASE exit' \in {2, 3, 4} /\ UNCHANGED <<store, mode, todo, counts>>
  BY <1>1, <1>2, <1>3
     DEF SetupInv, STypeOK, TurnInv, CountInv, VerdictInv, ivars, counts, NoVerdict, Found
<1>4. CASE /\ mode' = m /\ todo' = Found(disk) /\ exit' = NoVerdict /\ UNCHANGED store
           /\ files' = 0 /\ present' = 0 /\ failures' = 0
  BY <1>1, <1>2, <1>4
     DEF SetupInv, STypeOK, TurnInv, CountInv, VerdictInv, ivars, counts, NoVerdict, Found
<1> QED BY <1>3, <1>4 DEF RunCmd, RunTool

LEMMA ToolStep ==
  ASSUME SetupInv, ProcessFile(disk) \/ SearchEnds \/ ToolStopped, UNCHANGED ivars
  PROVE  SetupInv'
<1>1. stage = "off" /\ mode # "off" /\ exit = NoVerdict
  BY DEF SetupInv, TurnInv, ProcessFile, SearchEnds, ToolStopped
<1>2. StageInv' /\ ExtractedInv'
  BY DEF SetupInv, StageInv, ExtractedInv, ivars
<1>3. CASE ProcessFile(disk)
  <2>1. PICK n \in todo :
           /\ todo' = todo \ {n} /\ files' = files + 1
           /\ \/ failures' = failures + 1 /\ UNCHANGED <<store, present>>
              \/ \E added \in MayAdd(disk[n]) :
                   /\ store' = IF added THEN store \cup {<<n, disk[n]>>} ELSE store
                   /\ present' = present + One(<<n, disk[n]>> \in store')
                   /\ failures' = failures + One(mode = "install" /\ ~added)
                                           + One(<<n, disk[n]>> \notin store')
    BY <1>3 DEF ProcessFile
  <2>2. files \in Nat /\ present \in Nat /\ failures \in Nat
    BY DEF SetupInv, STypeOK
  <2>3. present' \in Nat /\ failures' \in Nat /\ files' \in Nat
    BY <2>1, <2>2 DEF One
  <2>4. store \subseteq store'
    BY <2>1
  <2>5. failures' = 0 => failures = 0 /\ <<n, disk[n]>> \in store'
    BY <2>1, <2>2 DEF One
  <2>6. n \in Certificate /\ disk[n] \in Contents
    BY <1>1, <2>1 DEF SetupInv, STypeOK, TurnInv, Found
  <2>7. store' \subseteq Certificate \X Contents
    BY <2>1, <2>6 DEF SetupInv, STypeOK
  <2>8. STypeOK'
    BY <1>3, <2>1, <2>3, <2>7 DEF SetupInv, STypeOK, ProcessFile, ivars
  <2>9. TurnInv'
    BY <1>1, <1>3, <2>1 DEF SetupInv, TurnInv, ProcessFile, ivars, Found
  <2>10. CountInv'
    BY <1>1, <1>3, <2>1, <2>4, <2>5
       DEF SetupInv, CountInv, ProcessFile, ivars, Found, NoVerdict
  <2>11. VerdictInv'
    BY <1>1, <1>3 DEF VerdictInv, ProcessFile, NoVerdict
  <2> QED BY <1>2, <2>8, <2>9, <2>10, <2>11 DEF SetupInv
<1>4. CASE SearchEnds
  BY <1>1, <1>2, <1>4
     DEF SetupInv, STypeOK, TurnInv, CountInv, VerdictInv, SearchEnds, ExitCode, ivars, counts,
         NoVerdict, Found
<1>5. CASE ToolStopped
  BY <1>1, <1>2, <1>5
     DEF SetupInv, STypeOK, TurnInv, CountInv, VerdictInv, ToolStopped, ivars, counts, NoVerdict, Found
<1> QED BY <1>3, <1>4, <1>5

LEMMA SetupInductive == SetupInv /\ [SNext]_svars => SetupInv'
<1>1. SUFFICES ASSUME SetupInv, [SNext]_svars PROVE SetupInv'
  OBVIOUS
<1>2. CASE UNCHANGED svars
  BY <1>1, <1>2 DEF svars, ivars, rvars, counts, SetupInv, STypeOK, StageInv, ExtractedInv, TurnInv,
                    CountInv, VerdictInv, Found
<1> QED BY <1>1, <1>2, ExtractorStep, CmdStep, ToolStep DEF SNext

LEMMA SetupImplied == SetupInv => STypeOK /\ ExtractionIsSound /\ SuccessIsTrue
<1>1. ASSUME SetupInv PROVE ExtractionIsSound
  BY <1>1 DEF SetupInv, StageInv, ExtractedInv, ExtractionIsSound
<1>2. ASSUME SetupInv, exit = 0, dialog = "success", todo = {},
             NEW n \in Certificate \cap ToSet(cabinet)
      PROVE  <<n, "new">> \in store
  <2>1. DOMAIN disk = ToSet(cabinet) /\ disk[n] = "new"
    BY <1>2 DEF SetupInv, STypeOK, ExtractedInv
  <2> QED BY <1>2, <2>1 DEF SetupInv, CountInv, Found
<1>3. ASSUME SetupInv PROVE SuccessIsTrue
  BY <1>2, <1>3 DEF SetupInv, VerdictInv, CountInv, SuccessIsTrue
<1> QED BY <1>1, <1>3 DEF SetupInv

\* The state of the extractor, the tool, the folder and the store is always one of
\* those STypeOK lists.
THEOREM SetupTypeCorrect == SetupSpec => []STypeOK
<1> QED BY SetupInitially, SetupInductive, SetupImplied, PTL DEF SetupSpec

\* "Extraction completed successfully" means that the folder holds the whole,
\* undamaged package, and only a run that was stopped leaves its temporary file
\* (w2k_sfx.c:136-174, 296-371).
THEOREM ExtractionIsSoundHolds == SetupSpec => []ExtractionIsSound
<1> QED BY SetupInitially, SetupInductive, SetupImplied, PTL DEF SetupSpec

\* SUCCESS of INSTALL.cmd or VERIFY.cmd means what it says, for any package and any
\* earlier contents of the folder and the store (w2kroots.c:195-258).
THEOREM SuccessIsTrueHolds == SetupSpec => []SuccessIsTrue
<1> QED BY SetupInitially, SetupInductive, SetupImplied, PTL DEF SetupSpec
----------------------------------------------------------------------------
(* Where the extractor writes *)

\* A file is begun, and then finished, only if its name passed safe_relative_name.
NamesInv ==
    /\ stage = "extract" => SafeName(cabinet[seen])
    /\ \A n \in DOMAIN disk : disk[n] \in {"partial", "new"} => SafeName(n)

LEMMA NamesInvStep == SetupInv /\ NamesInv /\ [SNext]_svars => NamesInv'
<1> SUFFICES ASSUME SetupInv, NamesInv, [SNext]_svars PROVE NamesInv'
  OBVIOUS
<1>1. /\ cabinet \in Seq(Seq(STRING)) /\ seen \in 0 .. Len(cabinet) /\ Len(cabinet) \in Nat
      /\ disk \in [ToSet(cabinet) -> Contents] /\ (stage = "extract" => seen # 0)
  BY CabinetsAssumption DEF SetupInv, STypeOK, StageInv
<1>2. CASE FileInCabinet
  <2>1. CASE SafeName(cabinet[seen + 1]) /\ stage' = "extract"
             /\ disk' = [disk EXCEPT ![cabinet[seen + 1]] = "partial"]
    BY <1>1, <1>2, <2>1 DEF NamesInv, FileInCabinet
  <2>2. CASE stage' = "finish" /\ UNCHANGED disk
    BY <2>2 DEF NamesInv
  <2> QED BY <1>2, <2>1, <2>2 DEF FileInCabinet
<1>3. CASE FileExtracted
  <2>1. CASE stage' = "next" /\ disk' = [disk EXCEPT ![cabinet[seen]] = "new"]
    BY <1>1, <1>3, <2>1 DEF NamesInv, FileExtracted
  <2>2. CASE stage' = "finish" /\ UNCHANGED disk
    BY <2>2 DEF NamesInv
  <2> QED BY <1>3, <2>1, <2>2 DEF FileExtracted
<1>4. CASE disk' = disk /\ stage' # "extract"
  BY <1>4 DEF NamesInv
<1>5. CASE UNCHANGED ivars
  BY <1>5 DEF NamesInv, ivars
<1>6. CASE Check \/ Cancel \/ Consent \/ MakeTemp \/ Copy \/ StepFails \/ IterationEnds \/ Finish \/ Stopped
  BY <1>4, <1>6 DEF Check, Cancel, Consent, MakeTemp, Copy, Continue, StepFails, Fail,
                    IterationEnds, Finish, Stopped
<1>7. CASE StartExtractor
  BY <1>4, <1>7 DEF StartExtractor, Start
<1>8. CASE \/ \E m \in {"install", "verify"} : RunCmd(m)
           \/ (ProcessFile(disk) \/ SearchEnds \/ ToolStopped) /\ UNCHANGED ivars
  BY <1>5, <1>8 DEF RunCmd
<1>9. CASE UNCHANGED svars
  BY <1>5, <1>9 DEF svars
<1> QED BY <1>2, <1>3, <1>6, <1>7, <1>8, <1>9 DEF SNext, INext

\* Every component ends, at the next separator or at the end of the path.
LEMMA ComponentEnds ==
  ASSUME NEW n \in Seq(STRING), NEW i \in Starts(n)
  PROVE  /\ EndOf(n, i) \in i + 1 .. Len(n) + 1
         /\ EndOf(n, i) = Len(n) + 1 \/ n[EndOf(n, i)] \in {Backslash, Slash}
<1> DEFINE Sep(j) == j = Len(n) + 1 \/ n[j] \in {Backslash, Slash}
           T == {j \in i + 1 .. Len(n) + 1 : Sep(j)}
<1>1. i \in 0 .. Len(n) /\ Len(n) \in Nat
  BY DEF Starts
<1>2. Len(n) + 1 \in T /\ T \subseteq Nat
  BY <1>1
<1>3. PICK j \in T : \A k \in T : j <= k
  BY <1>2, Least
<1>4. \A k \in T : ~(k < j)
  BY <1>2, <1>3
<1>5. j \in i + 1 .. Len(n) + 1 /\ Sep(j)
  BY <1>3
<1>6. \A k \in i + 1 .. j - 1 : n[k] \notin {Backslash, Slash}
  <2>1. ASSUME NEW k \in i + 1 .. j - 1 PROVE ~Sep(k)
    <3>1. k \in i + 1 .. Len(n) + 1 /\ k < j
      BY <1>1, <1>5
    <3>2. k \notin T
      BY <1>4, <3>1
    <3> HIDE DEF Sep
    <3> QED BY <3>1, <3>2
  <2> QED BY <2>1
<1>7. \E m \in i + 1 .. Len(n) + 1 :
         /\ m = Len(n) + 1 \/ n[m] \in {Backslash, Slash}
         /\ \A k \in i + 1 .. m - 1 : n[k] \notin {Backslash, Slash}
  BY <1>5, <1>6
<1> QED BY <1>7 DEF EndOf

LEMMA PartOf ==
  ASSUME NEW n \in Seq(STRING), NEW i \in Nat, NEW j \in Nat, i <= j, j <= Len(n)
  PROVE  /\ Len(SubSeq(n, i + 1, j)) = j - i
         /\ \A k \in 1 .. j - i : SubSeq(n, i + 1, j)[k] = n[i + k]
<1>1. Len(SubSeq(n, i + 1, j)) = j - i
  OBVIOUS
<1>2. ASSUME NEW k \in 1 .. j - i PROVE SubSeq(n, i + 1, j)[k] = n[i + k]
  OBVIOUS
<1> QED BY <1>1, <1>2

\* No component of a name that safe_relative_name lets through leads up.
LEMMA SafeNeverUp ==
  ASSUME NEW n \in Seq(STRING), SafeName(n), NEW i \in Starts(n)
  PROVE  Component(n, i) # <<Dot, Dot>>
<1> SUFFICES ASSUME Component(n, i) = <<Dot, Dot>> PROVE FALSE
  OBVIOUS
<1> DEFINE e == EndOf(n, i)
<1>1. /\ i \in 0 .. Len(n) /\ Len(n) \in Nat /\ (i = 0 \/ n[i] \in {Backslash, Slash})
      /\ e \in i + 1 .. Len(n) + 1 /\ (e = Len(n) + 1 \/ n[e] \in {Backslash, Slash})
  BY ComponentEnds DEF Starts
<1> HIDE DEF e
<1> DEFINE c == SubSeq(n, i + 1, e - 1)
<1>2. c = <<Dot, Dot>>
  BY DEF Component, e
<1>3. Len(c) = e - 1 - i /\ \A k \in 1 .. e - 1 - i : c[k] = n[i + k]
  <2>1. i \in Nat /\ e - 1 \in Nat /\ i <= e - 1 /\ e - 1 <= Len(n)
    BY <1>1
  <2> QED BY <2>1, PartOf
<1> HIDE DEF c
<1>4. e = i + 3
  <2>1. Len(c) = 2
    BY <1>2
  <2>2. e - 1 - i = 2
    BY <1>3, <2>1
  <2>3. e \in Int /\ i \in Int
    BY <1>1
  <2> QED BY <2>2, <2>3
<1>5. n[i + 1] = Dot /\ n[i + 2] = Dot
  <2>1. c[1] = Dot /\ c[2] = Dot
    BY <1>2
  <2>2. 1 \in 1 .. e - 1 - i /\ 2 \in 1 .. e - 1 - i
    BY <1>1, <1>4
  <2> QED BY <1>3, <2>1, <2>2
<1>6. /\ i + 1 \in DOMAIN n /\ Begins(n, i + 1) /\ i + 1 < Len(n)
      /\ (i + 1) + 1 = Len(n) \/ n[(i + 1) + 2] \in {Backslash, Slash}
  BY <1>1, <1>4 DEF Begins
<1>7. n[(i + 1) + 1] = Dot
  BY <1>1, <1>5
<1> QED BY <1>5, <1>6, <1>7 DEF SafeName

LEMMA SafeIsInside ==
  ASSUME NEW n \in Seq(STRING), SafeName(n)
  PROVE  Inside(n)
<1>1. Colon \notin ToSet(n)
  BY DEF SafeName, ToSet
<1>2. n # <<>> => n[1] \notin {Backslash, Slash}
  BY DEF SafeName, Dot, Backslash, Slash
<1>3. ASSUME NEW i \in Starts(n) PROVE Cardinality(Ups(n, i)) <= Cardinality(Downs(n, i))
  <2>1. Ups(n, i) = {}
    BY SafeNeverUp DEF Ups
  <2>2. Downs(n, i) \subseteq 0 .. Len(n) /\ Len(n) \in Nat
    BY DEF Downs, Starts
  <2>3. IsFiniteSet(0 .. Len(n))
    BY <2>2, FS_Interval
  <2>4. Cardinality(Downs(n, i)) \in Nat
    BY <2>2, <2>3, FS_Subset, FS_CardinalityType
  <2>5. Cardinality({}) = 0
    BY FS_EmptySet
  <2> QED BY <2>1, <2>4, <2>5
<1> QED BY <1>1, <1>2, <1>3 DEF Inside

\* Whatever names a cabinet holds, and however often the extractor is run and
\* stopped, it writes no file outside the folder it was given (w2k_sfx.c:86-100,
\* 102-134).
THEOREM StaysInsideHolds == SetupSpec => []StaysInside
<1>1. SInit => NamesInv
  BY DEF SInit, IInit, NamesInv
<1>2. SetupInv /\ NamesInv => StaysInside
  <2> SUFFICES ASSUME SetupInv, NamesInv, NEW n \in DOMAIN disk, disk[n] \in {"partial", "new"}
               PROVE  Inside(n)
    BY DEF StaysInside
  <2>1. cabinet \in Seq(Seq(STRING)) /\ DOMAIN disk = ToSet(cabinet)
    BY CabinetsAssumption DEF SetupInv, STypeOK
  <2>2. n \in Seq(STRING)
    BY <2>1 DEF ToSet
  <2> QED BY <2>2, SafeIsInside DEF NamesInv
<1> QED BY <1>1, <1>2, SetupInitially, SetupInductive, NamesInvStep, PTL DEF SetupSpec
=============================================================================
