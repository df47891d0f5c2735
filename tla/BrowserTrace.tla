---------------------------- MODULE BrowserTrace ----------------------------
(***************************************************************************)
(* The browser event trace of                                              *)
(* src/diagnostics/supermium_w2k_rc1_launcher.c: the browser writes its    *)
(* log into a pipe, browser_log_reader_thread cuts what it reads into      *)
(* lines and keeps one event for every line that names a category, and     *)
(* launch_browser_diagnostics waits without a limit for the browser and    *)
(* five seconds for the reader.                                            *)
(*                                                                         *)
(* The browser's processes inherit the write end of the pipe: ReadFile     *)
(* reports the end only when the last of them has gone.  A process that    *)
(* writes to a full pipe is blocked in the write.  A character is one that *)
(* names a category, a plain one, a carriage return or a line end.         *)
(***************************************************************************)
EXTENDS Integers, Sequences, FiniteSets, FiniteSetsExt

CONSTANTS Browser,      \* the browser's main process
          Writer,       \* it and the processes that outlive it for a while
          PipeSize,     \* how much the pipe holds
          ReadSize,     \* sizeof(input)
          LineSize,     \* sizeof(line)
          EventLimit,   \* how many events are kept, 20000
          MaxOutput     \* bound: how much the browser ever writes

ASSUME TraceAssumption ==
    /\ Browser \in Writer /\ IsFiniteSet(Writer)
    /\ {PipeSize, ReadSize, EventLimit} \subseteq Nat \ {0}
    /\ LineSize \in Nat /\ LineSize > 2
    /\ MaxOutput \in Nat

VARIABLES
    output,    \* everything written into the pipe so far
    taken,     \* how much of it the reader has read
    pending,   \* what each process is about to write, if anything
    holding,   \* the processes that have the write end open
    reader,    \* "none", "start", "read", "failed", "done" or "killed"
    used,      \* line_used
    hot,       \* does the line read so far name a category
    seen,      \* the lines counted
    kept,      \* the events written to the log
    launcher   \* the launcher: "launch", "wait", "join", "stop", "gone"

lineVars == <<used, hot, seen, kept>>

traceVars == <<output, taken, pending, holding, reader, lineVars, launcher>>

Char == {"event", "plain", "cr", "nl"}

TraceTypeOK ==
    /\ output \in Seq(Char) /\ Len(output) <= MaxOutput
    /\ taken \in 0 .. Len(output) /\ Len(output) - taken <= PipeSize
    /\ pending \in [Writer -> Char \cup {"nothing"}]
    /\ holding \subseteq Writer
    /\ reader \in {"none", "start", "read", "failed", "done", "killed"}
    /\ used \in 0 .. LineSize - 2 /\ hot \in BOOLEAN
    /\ seen \in Nat /\ kept \in 0 .. EventLimit
    /\ launcher \in {"launch", "wait", "join", "stop", "gone"}

TraceInit ==
    /\ output = <<>> /\ taken = 0
    /\ pending = [w \in Writer |-> "nothing"]
    /\ holding = {}
    /\ reader = "none"
    /\ used = 0 /\ hot = FALSE /\ seen = 0 /\ kept = 0
    /\ launcher = "launch"

-----------------------------------------------------------------------------
(* The browser's processes *)

\* A process decides to write: from here on it is inside the write.
StartWrite(w, c) ==
    /\ w \in holding
    /\ pending[w] = "nothing"
    /\ Len(output) + Cardinality({v \in Writer : pending[v] # "nothing"}) < MaxOutput
    /\ pending' = [pending EXCEPT ![w] = c]
    /\ UNCHANGED <<output, taken, holding, reader, lineVars, launcher>>

\* The write returns when the pipe has room, or without effect when the launcher,
\* the last to hold the read end, has gone.
FinishWrite(w) ==
    /\ pending[w] # "nothing"
    /\ \/ launcher # "gone" /\ Len(output) - taken < PipeSize /\ output' = Append(output, pending[w])
       \/ launcher = "gone" /\ UNCHANGED output
    /\ pending' = [pending EXCEPT ![w] = "nothing"]
    /\ UNCHANGED <<taken, holding, reader, lineVars, launcher>>

Exit(w) ==
    /\ w \in holding
    /\ pending[w] = "nothing"
    /\ holding' = holding \ {w}
    /\ UNCHANGED <<output, taken, pending, reader, lineVars, launcher>>

-----------------------------------------------------------------------------
(* browser_log_reader_thread *)

\* CreateFile may fail; the thread then ends and leaves the pipe as it is.
StartReader ==
    /\ reader = "start"
    /\ reader' \in {"read", "failed"}
    /\ UNCHANGED <<output, taken, pending, holding, lineVars, launcher>>

\* Mutant: the buffer is called full a character too early.
FullEarly(n) == n + 3 >= LineSize

\* write_browser_category_event: how many events are kept after this line.
KeptAfter(k, isHot) == IF isHot /\ k < EventLimit THEN k + 1 ELSE k

Full(n) == n + 2 >= LineSize

\* The line read so far is counted and the buffer emptied.
Cut(s) ==
    [used |-> 0, hot |-> FALSE, seen |-> s.seen + 1, kept |-> KeptAfter(s.kept, s.hot)]

\* One character: a line end or a full buffer ends the line.  A character that
\* overflows the buffer begins the next line, a carriage return is dropped.
Consume(s, c) ==
    LET line == IF c = "nl" \/ Full(s.used) THEN Cut(s) ELSE s
    IN  IF c \in {"nl", "cr"} THEN line
        ELSE [line EXCEPT !.used = @ + 1, !.hot = @ \/ c = "event"]

\* The loop over the characters that were read.
Scan(s, input) ==
    LET line[index \in 0 .. Len(input)] ==
            IF index = 0 THEN s ELSE Consume(line[index - 1], input[index])
    IN  line[Len(input)]

\* Mutant: a short read is taken for the end of the pipe.
FullReadsOnly(n) == n = ReadSize

\* ReadFile reports the end of the pipe when nobody can write any more.
PipeEnded == holding = {}

ReadsOn(n) == n # 0

\* ReadFile returns some of what is in the pipe, in pieces of any size, or
\* nothing at the end; then the last line is counted and the footer written.
Read(n) ==
    LET input == SubSeq(output, taken + 1, taken + n)
        s     == Scan([used |-> used, hot |-> hot, seen |-> seen, kept |-> kept], input)
        rest  == IF ~ReadsOn(n) /\ s.used # 0 THEN Cut(s) ELSE s
    IN
    /\ reader = "read"
    /\ n <= Len(output) - taken
    /\ n = 0 => taken = Len(output) /\ PipeEnded
    /\ taken' = taken + n
    /\ used' = rest.used /\ hot' = rest.hot /\ seen' = rest.seen /\ kept' = rest.kept
    /\ reader' = IF ReadsOn(n) THEN "read" ELSE "done"
    /\ UNCHANGED <<output, pending, holding, launcher>>

-----------------------------------------------------------------------------
(* launch_browser_diagnostics *)

\* CreateProcess and then CreateThread, which may fail.
Launch ==
    /\ launcher = "launch"
    /\ holding' = Writer
    /\ reader' \in {"start", "none"}
    /\ launcher' = "wait"
    /\ UNCHANGED <<output, taken, pending, lineVars>>

\* WaitForSingleObject(process.hProcess, INFINITE)
BrowserGone ==
    /\ launcher = "wait"
    /\ Browser \notin holding
    /\ launcher' = "join"
    /\ UNCHANGED <<output, taken, pending, holding, reader, lineVars>>

\* WaitForSingleObject(reader_thread, 5000) returns, or no reader was started.
ReaderJoined ==
    /\ launcher = "join"
    /\ reader \in {"none", "failed", "done"}
    /\ launcher' = "stop"
    /\ UNCHANGED <<output, taken, pending, holding, reader, lineVars>>

\* The five seconds run out.
JoinTimesOut ==
    /\ launcher = "join"
    /\ reader \in {"start", "read"}
    /\ launcher' = "stop"
    /\ UNCHANGED <<output, taken, pending, holding, reader, lineVars>>

\* The user has answered the last question: the reader ends with its process.
LauncherGoes ==
    /\ launcher = "stop"
    /\ launcher' = "gone"
    /\ reader' = IF reader \in {"start", "read"} THEN "killed" ELSE reader
    /\ UNCHANGED <<output, taken, pending, holding, lineVars>>

-----------------------------------------------------------------------------
ReaderStep == StartReader \/ \E n \in 0 .. ReadSize : Read(n)

MainStep == Launch \/ BrowserGone \/ ReaderJoined

TraceNext ==
    \/ ReaderStep \/ MainStep \/ JoinTimesOut \/ LauncherGoes
    \/ \E w \in Writer :
        \/ FinishWrite(w) \/ Exit(w)
        \/ \E c \in Char : StartWrite(w, c)

TraceSpec == TraceInit /\ [][TraceNext]_traceVars

\* Threads run, a write returns when it can, and every process ends that can.
TraceFairSpec ==
    /\ TraceSpec
    /\ WF_traceVars(ReaderStep) /\ WF_traceVars(MainStep)
    /\ \A w \in Writer : WF_traceVars(FinishWrite(w)) /\ WF_traceVars(Exit(w))

-----------------------------------------------------------------------------
(* Properties *)

\* The piece that position i of text t belongs to: the line, by the line end before it,
\* and the buffer-sized part of that line, carriage returns not counted.
LineStart(t, i) == Max({0} \cup {j \in 1 .. i : t[j] = "nl"})
Column(t, i) == Cardinality({j \in LineStart(t, i) + 1 .. i : t[j] # "cr"})
Piece(t, i) == <<LineStart(t, i), (Column(t, i) - 1) \div (LineSize - 2)>>

\* The pieces of the first n characters that name a category.
Events(t, n) == {Piece(t, i) : i \in {j \in 1 .. n : t[j] = "event"}}

\* How many events are kept for them.
Retained(pieces) == Min({EventLimit, Cardinality(pieces)})

\* The finished trace has one event for every line, or buffer-sized part of a
\* line, that names a category, up to the limit: however ReadFile cut the
\* text, no event is lost, none is counted twice.
EventsRetained ==
    reader = "done" => kept = Retained(Events(output, Len(output)))

\* The browser ends, and with it the launcher's wait, unless the reader gave up
\* and left a full pipe behind: a reader that runs never lets it block for ever.
StuckOnlyWithoutReader == <>(reader \in {"none", "failed"} /\ launcher = "wait") \/ <>(launcher = "stop")

\* A reader that runs finishes the trace once every process that holds the pipe
\* has gone, also when the launcher no longer waits for it, as long as the
\* launcher itself stays.
TraceFinished == reader = "read" ~> reader = "done" \/ launcher = "gone"

\* Nobody waits for ever on the pipe: neither the browser and the launcher, unless
\* the reader gave up, nor the reader.
PipeDrains == StuckOnlyWithoutReader /\ TraceFinished
=============================================================================
