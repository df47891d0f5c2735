------------------------------- MODULE Setup --------------------------------
(***************************************************************************)
(* What a user does with the certificate package: runs the self-extractor, *)
(* perhaps several times, perhaps stopping it, and then INSTALL.cmd or     *)
(* VERIFY.cmd in the folder it left (src/certificates/), one at a time.    *)
(***************************************************************************)
EXTENDS Installer, Roots

CONSTANTS Tool           \* the name of W2KROOTS.EXE

svars == <<ivars, rvars>>

SInit == IInit /\ RInit

\* INSTALL.cmd and VERIFY.cmd: no tool, no certs folder, or they run the tool.
RunCmd(m) ==
    /\ stage = "off" /\ mode = "off"
    /\ \/ /\ Tool \in DOMAIN disk /\ disk[Tool] = "absent"
          /\ exit' = 2
          /\ UNCHANGED <<store, mode, todo, counts>>
       \/ /\ Found(disk) = {}
          /\ exit' = 3
          /\ UNCHANGED <<store, mode, todo, counts>>
       \/ /\ Tool \in DOMAIN disk /\ disk[Tool] \in {"old", "new"}
          /\ RunTool(disk, m)
    /\ UNCHANGED ivars

\* What a script said of the folder says nothing of the next extraction.
StartExtractor ==
    /\ mode = "off"
    /\ Start
    /\ exit' = NoVerdict
    /\ UNCHANGED <<store, mode, todo, counts>>

SNext ==
    \/ StartExtractor
    \/ INext /\ UNCHANGED rvars
    \/ \E m \in {"install", "verify"} : RunCmd(m)
    \/ (ProcessFile(disk) \/ SearchEnds \/ ToolStopped) /\ UNCHANGED ivars

SetupSpec == SInit /\ [][SNext]_svars
----------------------------------------------------------------------------
Contents == {"absent", "old", "partial", "new"}

STypeOK ==
    /\ cabinet \in Cabinets
    /\ damaged \in BOOLEAN
    /\ stage \in {"off", "check", "ask", "prepare", "copy", "load",
                  "extract", "next", "finish"}
    /\ temp \in {"none", "there", "left"}
    /\ seen \in 0 .. Len(cabinet) /\ failed \in BOOLEAN
    /\ disk \in [ToSet(cabinet) -> Contents]
    /\ dialog \in {"none", "success", "failure"}
    /\ store \subseteq Certificate \X Contents
    /\ mode \in {"off", "install", "verify"}
    /\ todo \subseteq Certificate
    /\ files \in Nat /\ present \in Nat /\ failures \in Nat
    /\ exit \in {0, 1, 2, 3, 4, NoVerdict}

(* When INSTALL.cmd or VERIFY.cmd says SUCCESS, at least one certificate   *)
(* was looked at and each file of the folder that the search came to is in *)
(* the store as it is in the folder; if the folder comes from an           *)
(* extraction that completed and the search came to its end, every root of *)
(* the package is there (w2kroots.c:195-258, INSTALL.cmd:15).              *)
SuccessIsTrue ==
    exit = 0 =>
       /\ files # 0
       /\ \A n \in Found(disk) \ todo : <<n, disk[n]>> \in store
       /\ dialog = "success" /\ todo = {} =>
             \A n \in Certificate \cap ToSet(cabinet) : <<n, "new">> \in store
============================================================================
