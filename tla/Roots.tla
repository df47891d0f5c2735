------------------------------- MODULE Roots --------------------------------
(***************************************************************************)
(* W2KROOTS.EXE, src/certificates/source/w2kroots.c: it goes through the   *)
(* .cer files of a folder, adds each to the machine's root store if it is  *)
(* to install, looks each up in the store, counts, and tells by its exit   *)
(* code whether all are there.  The folder and the store outlive it.       *)
(***************************************************************************)
EXTENDS Naturals

CONSTANTS Certificate    \* the names that end in .cer in the folder it is given

VARIABLES
    store,        \* LocalMachine\ROOT: the certificates, as name and content
    mode,         \* "install" or "verify", while the tool runs, or "off"
    todo,         \* files the search has yet to find
    files, present, failures,     \* files, present and failed of process_directory
    exit          \* the last exit code, or NoVerdict: it runs, was stopped, or is out of date

rvars == <<store, mode, todo, files, present, failures, exit>>
counts == <<files, present, failures>>

NoVerdict == 99

Found(folder) == {n \in Certificate \cap DOMAIN folder : folder[n] # "absent"}

RInit ==
    /\ store \in SUBSET (Certificate \X {"old"})
    /\ mode = "off"
    /\ todo = {}
    /\ files = 0 /\ present = 0 /\ failures = 0
    /\ exit = NoVerdict

\* No crypt32, no store, no search: the pattern does not fit, or FindFirstFileA
\* finds nothing or fails.  Or the search begins.
RunTool(folder, m) ==
    /\ mode = "off"
    /\ \/ /\ exit' \in {2, 3, 4}
          /\ UNCHANGED <<mode, todo, counts>>
       \/ /\ mode' = m
          /\ todo' = Found(folder)
          /\ files' = 0 /\ present' = 0 /\ failures' = 0
          /\ exit' = NoVerdict
    /\ UNCHANGED store

\* CertAddEncodedCertificateToStore: it takes only a whole certificate, and
\* may refuse that one too.
MayAdd(content) == IF mode = "install" /\ content # "partial" THEN BOOLEAN ELSE {FALSE}

One(b) == IF b THEN 1 ELSE 0

\* One turn of the loop: the file cannot be read, or it is added and looked up.
ProcessFile(folder) ==
    /\ mode # "off"
    /\ \E n \in todo :
          /\ todo' = todo \ {n}
          /\ files' = files + 1
          /\ \/ /\ failures' = failures + 1
                /\ UNCHANGED <<store, present>>
             \/ \E added \in MayAdd(folder[n]) :
                   /\ store' = IF added THEN store \cup {<<n, folder[n]>>} ELSE store
                   /\ present' = present + One(<<n, folder[n]>> \in store')
                   /\ failures' = failures + One(mode = "install" /\ ~added)
                                           + One(<<n, folder[n]>> \notin store')
    /\ UNCHANGED <<mode, exit>>

\* Mutant: the exit code goes by the failures alone.
ExitOnFailures == IF failures = 0 THEN 0 ELSE 1

\* FindNextFileA has no other file, or fails: the loop takes both for the end.
ExitCode == IF files # 0 /\ failures = 0 /\ present = files THEN 0 ELSE 1

SearchEnds ==
    /\ mode # "off"
    /\ files # 0 \/ todo = {}
    /\ mode' = "off"
    /\ exit' = ExitCode
    /\ UNCHANGED <<store, todo, counts>>

ToolStopped ==
    /\ mode # "off"
    /\ mode' = "off"
    /\ UNCHANGED <<store, todo, counts, exit>>
============================================================================
