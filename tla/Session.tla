------------------------------- MODULE Session ------------------------------
(***************************************************************************)
(* A diagnostic session of                                                 *)
(* src/diagnostics/supermium_w2k_rc1_launcher.c, from the user's consent   *)
(* to the summary: launch_browser_diagnostics with every path on which a   *)
(* step fails, the private profile it makes and removes, and the processes *)
(* it leaves behind.  Sessions run at the same time, one after the other,  *)
(* and may crash.                                                          *)
(*                                                                         *)
(* The profile is named after the process id of the launcher, which        *)
(* Windows gives to a later process once its owner has gone.  A file of    *)
(* the profile that a process has open cannot be deleted.  What the event  *)
(* trace and the media monitor do meanwhile is in BrowserTrace and         *)
(* MediaServer.                                                            *)
(***************************************************************************)
EXTENDS Naturals, FiniteSets

CONSTANTS Session,   \* the launchers ever started in diagnostic mode, numbered in
                     \* the order in which they start
          Pid,       \* the process ids they may get
          NoPid,     \* no process id
          MaxTries   \* the attempts followed by a pause, 30

ASSUME SessionAssumption ==
    /\ Session \subseteq Nat /\ IsFiniteSet(Session)
    /\ IsFiniteSet(Pid) /\ NoPid \notin Pid
    /\ MaxTries \in Nat

VARIABLES
    pc,       \* where each launcher is
    pid,      \* its process id
    files,    \* what the profile named after each process id holds
    running,  \* the browser processes of each session
    tries,    \* how often each launcher has tried to remove its profile
    removed,  \* the last attempt: "no", "gone", or "unseen" for a profile that
              \* could not be looked at and was taken for removed
    summary   \* session-summary.txt: "none", "started", of the cleanup "complete" or
              \* "incomplete", "unseen" (complete, of a profile not looked at), or
              \* "unwritten" (nothing, it could not be appended)

sessionVars == <<pc, pid, files, running, tries, removed, summary>>

Process == {"browser", "utility"}

\* A file of a session, kept open by its processes or closed.
File == Session \X {"open", "closed"}

Over == {"idle", "ended", "crashed"}

SessionTypeOK ==
    /\ pc \in [Session -> {"idle", "confirm", "directory", "profile", "command", "pipe", "spawn",
                           "wait", "stop", "delete", "summary", "ended", "crashed"}]
    /\ pid \in [Session -> Pid \cup {NoPid}]
    /\ files \in [Pid -> SUBSET File]
    /\ running \in [Session -> SUBSET Process]
    /\ tries \in [Session -> 0 .. MaxTries]
    /\ removed \in [Session -> {"no", "gone", "unseen"}]
    /\ summary \in [Session -> {"none", "started", "complete", "incomplete", "unseen", "unwritten"}]

SessionInit ==
    /\ pc = [s \in Session |-> "idle"]
    /\ pid = [s \in Session |-> NoPid]
    /\ files = [p \in Pid |-> {}]
    /\ running = [s \in Session |-> {}]
    /\ tries = [s \in Session |-> 0]
    /\ removed = [s \in Session |-> "no"]
    /\ summary = [s \in Session |-> "none"]

\* From one place in launch_browser_diagnostics to the next.
Goto(s, from, to) == pc[s] = from /\ pc' = [pc EXCEPT ![s] = to]

-----------------------------------------------------------------------------
(* The launcher *)

\* Supermium with Diagnostics.cmd: no living launcher has the same process id.
Start(s, p) ==
    /\ Goto(s, "idle", "confirm") /\ \A t \in Session : t < s => pc[t] # "idle"
    /\ \A t \in Session : pid[t] = p => pc[t] \in Over
    /\ pid' = [pid EXCEPT ![s] = p]
    /\ UNCHANGED <<files, running, tries, removed, summary>>

\* confirm_diagnostics_session: without consent the launcher ends.
Confirm(s) ==
    /\ Goto(s, "confirm", "directory") \/ Goto(s, "confirm", "ended")
    /\ UNCHANGED <<pid, files, running, tries, removed, summary>>

\* create_session_directory, write_summary_start, run_system_collector and
\* start_media_server.  Without a directory the browser starts normally.  Whether the
\* start of the summary could be written is not looked at: the end may be there alone.
CreateSession(s) ==
    /\ \/ Goto(s, "directory", "profile") /\ summary' = [summary EXCEPT ![s] = "started"]
       \/ Goto(s, "directory", "ended") /\ UNCHANGED summary
    /\ UNCHANGED <<pid, files, running, tries, removed>>

\* Mutant: one name for all profiles.
SharedProfile(s) == CHOOSE p \in Pid : TRUE

ProfileOf(s) == pid[s]

\* write_neutral_uao: a folder that exists already will do, with all it holds,
\* and a failure may leave the file behind.
PrepareProfile(s) ==
    LET prepared == [files EXCEPT ![ProfileOf(s)] = @ \cup {<<s, "closed">>}]
    IN
    /\ \/ Goto(s, "profile", "command") /\ files' = prepared
       \/ Goto(s, "profile", "stop") /\ files' \in {files, prepared}
    /\ UNCHANGED <<pid, running, tries, removed, summary>>

AllocateCommand(s) ==
    /\ Goto(s, "command", "pipe") \/ Goto(s, "command", "stop")
    /\ UNCHANGED <<pid, files, running, tries, removed, summary>>

MakePipe(s) ==
    /\ Goto(s, "pipe", "spawn") \/ Goto(s, "pipe", "stop")
    /\ UNCHANGED <<pid, files, running, tries, removed, summary>>

\* CreateProcess: the browser opens its files in the profile.
StartBrowser(s) ==
    /\ \/ /\ Goto(s, "spawn", "wait")
          /\ running' = [running EXCEPT ![s] = Process]
          /\ files' = [files EXCEPT ![ProfileOf(s)] = @ \cup {<<s, "open">>}]
       \/ Goto(s, "spawn", "stop") /\ UNCHANGED <<running, files>>
    /\ UNCHANGED <<pid, tries, removed, summary>>

\* The wait for the browser has no limit; the one for the reader has.
BrowserExited(s) ==
    /\ Goto(s, "wait", "stop")
    /\ "browser" \notin running[s]
    /\ UNCHANGED <<pid, files, running, tries, removed, summary>>

StopServer(s) ==
    /\ Goto(s, "stop", "delete")
    /\ UNCHANGED <<pid, files, running, tries, removed, summary>>

\* Mutants: attempts that are not counted, and a result that says success once
\* the attempts are used up.
NotCounted(n) == n

GivenUpIsDone(ok, n) == ok \/ n = MaxTries

LastTry(n) == n = MaxTries

NextTry(n) == n + 1

DeleteResult(ok, n) == ok

\* delete_directory_tree goes through the whole profile and deletes what it can,
\* whoever wrote it: not what is in use, nor what else Windows or the length of
\* its path keeps.  Up to MaxTries attempts are followed by a pause and another.
TryDelete(s) ==
    /\ pc[s] = "delete"
    /\ \E kept \in SUBSET files[ProfileOf(s)] :
        LET inUse == {f \in files[ProfileOf(s)] : f[2] = "open" /\ running[f[1]] # {}}
            ok    == kept \cup inUse = {}
        IN
        /\ files' = [files EXCEPT ![ProfileOf(s)] = kept \cup inUse]
        /\ removed' = [removed EXCEPT ![s] = IF DeleteResult(ok, tries[s]) THEN "gone" ELSE "no"]
        /\ \/ /\ ok \/ LastTry(tries[s])
              /\ Goto(s, "delete", "summary")
              /\ tries' = [tries EXCEPT ![s] = 0]
           \/ /\ ~ok /\ ~LastTry(tries[s])
              /\ tries' = [tries EXCEPT ![s] = NextTry(@)]
              /\ UNCHANGED pc
    /\ UNCHANGED <<pid, running, summary>>

\* It first asks for the attributes of the profile, and takes any failure to get
\* them for a profile that is not there.
OverlookProfile(s) ==
    /\ Goto(s, "delete", "summary")
    /\ removed' = [removed EXCEPT ![s] = "unseen"]
    /\ tries' = [tries EXCEPT ![s] = 0]
    /\ UNCHANGED <<pid, files, running, summary>>

\* write_summary_end, the offer to open the folder, and the end.  append_text_file
\* gives up in silence when the file cannot be opened or written.
WriteSummary(s) ==
    /\ Goto(s, "summary", "ended")
    /\ \E text \in {[no |-> "incomplete", gone |-> "complete", unseen |-> "unseen"][removed[s]],
                    "unwritten"} :
           summary' = [summary EXCEPT ![s] = text]
    /\ removed' = [removed EXCEPT ![s] = "no"]
    /\ UNCHANGED <<pid, files, running, tries>>

-----------------------------------------------------------------------------
(* What happens around it *)

\* What it had in hand is lost.
Crash(s) ==
    /\ pc[s] \notin Over
    /\ pc' = [pc EXCEPT ![s] = "crashed"]
    /\ tries' = [tries EXCEPT ![s] = 0] /\ removed' = [removed EXCEPT ![s] = "no"]
    /\ UNCHANGED <<pid, files, running, summary>>

\* The browser's main process ends, or a utility process that outlives it.
ProcessEnds(s, q) ==
    /\ q \in running[s]
    /\ q = "utility" => "browser" \notin running[s]
    /\ running' = [running EXCEPT ![s] = @ \ {q}]
    /\ UNCHANGED <<pc, pid, files, tries, removed, summary>>

-----------------------------------------------------------------------------
CleanUp(s) == BrowserExited(s) \/ StopServer(s) \/ TryDelete(s) \/ WriteSummary(s)

SessionNext ==
    \E s \in Session :
        \/ \E p \in Pid : Start(s, p)
        \/ Confirm(s) \/ CreateSession(s) \/ PrepareProfile(s) \/ AllocateCommand(s)
        \/ MakePipe(s) \/ StartBrowser(s) \/ CleanUp(s) \/ OverlookProfile(s) \/ Crash(s)
        \/ \E q \in Process : ProcessEnds(s, q)

SessionSpec == SessionInit /\ [][SessionNext]_sessionVars

\* The launcher runs; a utility process may stay for ever, and the attributes of
\* a profile can be read for ever.
SessionFairSpec == SessionSpec /\ \A s \in Session : WF_sessionVars(CleanUp(s))

-----------------------------------------------------------------------------
(* Properties *)

\* No file of the session is left in any profile.
NothingLeft(s) == \A p \in Pid : \A f \in files[p] : f[1] # s

\* The two silent failures: a profile that could not be looked at counts as removed
\* (launcher:165), and a summary that cannot be appended is not missed (launcher:257-263).
Silent(s) == summary[s] \in {"unseen", "unwritten"}

\* A finished session that left anything in its profile says so in its summary,
\* whoever wrote it and however the attempts ended, but for a silent failure.
SummaryTellsCleanup ==
    \A s \in Session :
        pc[s] = "ended" /\ summary[s] # "none" /\ ~NothingLeft(s) =>
            summary[s] = "incomplete" \/ Silent(s)

\* The profile of a session is whole as long as its browser runs under a living
\* launcher: no other session removes anything from it.
RunningKeepsProfile ==
    \A s \in Session :
        pc[s] = "wait" /\ running[s] # {} => {s} \X {"open", "closed"} \subseteq files[ProfileOf(s)]

\* A browser finds files of another session in its profile only when that one
\* crashed, reported that its cleanup was incomplete, or failed in silence.  (A
\* profile is not always a new one, as docs/DIAGNOSTICS.md:37 and
\* diagnostics/COLLECTED-DATA.txt:59 have it: launcher:921 names it after the process
\* id and write_neutral_uao takes a folder that exists.)
LeftoversExplained ==
    \A s, t \in Session :
        pc[s] = "wait" /\ t # s /\ (\E f \in files[ProfileOf(s)] : f[1] = t) =>
            pc[t] = "crashed" \/ summary[t] = "incomplete" \/ Silent(t)

\* What a session leaves in a profile is told by its own summary, and whoever comes
\* upon it finds a crash or a summary that explains it; what is left without either
\* is the work of one of the two silent failures and of nothing else.
LeftoversAreTold == SummaryTellsCleanup /\ LeftoversExplained

\* Once its browser has gone the session comes to its summary, whatever process
\* stays behind.
SummaryIsWritten ==
    \A s \in Session : pc[s] = "stop" ~> pc[s] \in {"ended", "crashed"}
=============================================================================
