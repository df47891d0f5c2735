---------------------------- MODULE MediaServer ----------------------------
(***************************************************************************)
(* The media monitor of                                                    *)
(* src/diagnostics/supermium_w2k_rc1_launcher.c: media_server_thread       *)
(* listens on the loopback interface, takes one request at a time and      *)
(* writes the body of an accepted one to the media log; the main thread    *)
(* starts it, stops it and waits five seconds for it to end.               *)
(*                                                                         *)
(* A request has one part, or two when it has a body: the headers and the  *)
(* body.  TCP delivers what was sent together or bit by bit.  A record is  *)
(* written in three pieces.  g_listen_socket and the socket itself are     *)
(* apart: the variable may still name a socket that is already closed.     *)
(* Closing it once more is without effect, no socket is made afterwards.   *)
(* A connection stays in the backlog, even when its client has gone, until *)
(* accept returns it or the listening socket is closed.                    *)
(***************************************************************************)
EXTENDS Naturals, FiniteSets, Sequences

CONSTANTS Client,   \* the requests, each on a connection of its own
          None      \* no client

ASSUME MediaAssumption == IsFiniteSet(Client) /\ None \notin Client

VARIABLES
    main,      \* where the main thread is
    stop,      \* g_server_stop
    named,     \* does g_listen_socket name a socket
    socket,    \* that socket: "none", "open", "listening" or "closed"
    log,       \* what the media log holds
    logOpen,   \* is g_media_log open
    lock,      \* g_media_lock: "none", "ready" or "deleted"
    server,    \* where the server thread is
    current,   \* the client it serves
    got,       \* how many parts of the request it has received
    piece,     \* the piece of the record it writes next
    kind,      \* what each client asks for
    sent,      \* how many parts of its request each client has sent
    phase,     \* each connection: "idle", "open", "closed" or "reset"
    queue,     \* the connections accept has not returned yet
    answer,    \* the status each client was sent, if it was still there
    late,      \* history: the wait for the server has timed out
    lost,      \* history: a write to the open log has failed
    broken     \* history: accept has failed on the listening socket

mainVars   == <<main, stop>>
socketVars == <<named, socket>>
logVars    == <<log, logOpen, lock>>
serverVars == <<server, current, got, piece>>
clientVars == <<kind, sent, phase, queue, answer>>
history    == <<late, lost, broken>>

vars == <<mainVars, socketVars, logVars, serverVars, clientVars, history>>

\* A post within and one beyond the length limit, one that is begun and never
\* finished, a preflight request of the extension, and anything else.
Kind == {"post", "long", "silent", "options", "other"}

HasBody(k) == k \in {"post", "long", "silent"}

Parts(k) == IF HasBody(k) THEN 2 ELSE 1

TypeOK ==
    /\ main \in {"start", "run", "test", "close", "forget", "wait", "log", "lock", "done", "gone"}
    /\ stop \in BOOLEAN /\ named \in BOOLEAN /\ logOpen \in BOOLEAN
    /\ socket \in {"none", "open", "listening", "closed"}
    /\ lock \in {"none", "ready", "deleted"}
    /\ log \in Seq(Client \X (1 .. 3))
    /\ server \in {"none", "load", "socket", "bind", "loop", "accept", "recv", "check",
                   "enter", "write", "refuse", "agree", "leave", "ended"}
    /\ current \in Client \cup {None}
    /\ got \in 0 .. 2 /\ piece \in 1 .. 3
    /\ kind \in [Client -> Kind] /\ sent \in [Client -> 0 .. 2]
    /\ phase \in [Client -> {"idle", "open", "closed", "reset"}]
    /\ queue \subseteq Client
    /\ answer \in [Client -> {"none", "204", "403"}]
    /\ late \in BOOLEAN /\ lost \in BOOLEAN /\ broken \in BOOLEAN

Init ==
    /\ main = "start" /\ stop = FALSE
    /\ named = FALSE /\ socket = "none"
    /\ log = <<>> /\ logOpen = FALSE /\ lock = "none"
    /\ server = "none" /\ current = None /\ got = 0 /\ piece = 1
    /\ kind \in [Client -> Kind]
    /\ sent = [c \in Client |-> 0]
    /\ phase = [c \in Client |-> "idle"] /\ queue = {}
    /\ answer = [c \in Client |-> "none"]
    /\ late = FALSE /\ lost = FALSE /\ broken = FALSE

-----------------------------------------------------------------------------
(* The clients: the extension in the browser, and other local programs *)

Connect(c) ==
    /\ phase[c] = "idle" /\ socket = "listening"
    /\ phase' = [phase EXCEPT ![c] = "open"]
    /\ queue' = queue \cup {c}
    /\ UNCHANGED <<mainVars, socketVars, logVars, serverVars, kind, sent, answer, history>>

SendPart(c) ==
    /\ phase[c] = "open" /\ sent[c] < Parts(kind[c])
    /\ kind[c] = "silent" => sent[c] = 0
    /\ sent' = [sent EXCEPT ![c] = @ + 1]
    /\ UNCHANGED <<mainVars, socketVars, logVars, serverVars, kind, phase, queue, answer, history>>

\* A client goes at any time, also from the backlog.  What it has sent still
\* arrives, unless it resets the connection.
HangUp(c) ==
    /\ phase[c] = "open"
    /\ \E how \in {"closed", "reset"} : phase' = [phase EXCEPT ![c] = how]
    /\ UNCHANGED <<mainVars, socketVars, logVars, serverVars, kind, sent, queue, answer, history>>

\* Connections that are cut at this end.
Disconnect(cs) ==
    phase' = [c \in Client |-> IF c \in cs /\ phase[c] = "open" THEN "reset" ELSE phase[c]]

\* closesocket on the listening socket resets what is in its backlog.
CloseListener ==
    /\ socket' = "closed"
    /\ Disconnect(queue) /\ queue' = {}

-----------------------------------------------------------------------------
(* media_server_thread *)

\* load_winsock, WSAStartup and socket: each may fail.
Load ==
    /\ server = "load"
    /\ server' \in {"socket", "ended"}
    /\ UNCHANGED <<mainVars, socketVars, logVars, current, got, piece, clientVars, history>>

MakeSocket ==
    /\ server = "socket"
    /\ named' = TRUE /\ socket' = "open"
    /\ server' = "bind"
    /\ UNCHANGED <<mainVars, logVars, current, got, piece, clientVars, history>>

\* bind and listen: they fail on a socket that was closed meanwhile, and when the
\* port is taken.
BindAndListen ==
    /\ server = "bind"
    /\ \/ /\ named /\ socket = "open"
          /\ socket' = "listening" /\ server' = "loop"
          /\ UNCHANGED named
       \/ /\ socket' = "closed" /\ named' = FALSE /\ server' = "ended"
    /\ UNCHANGED <<mainVars, logVars, current, got, piece, clientVars, history>>

\* Mutants: the loop does not look at g_server_stop; a request counts as read
\* when its headers are there, or only when its client has closed.
AcceptsAnyway == TRUE

HeadersRead(k, g) == g >= 1

ReadToTheEnd(k, g) == FALSE

LoopsOn == ~stop

LoopTest ==
    /\ server = "loop"
    /\ server' = IF LoopsOn THEN "accept" ELSE "leave"
    /\ UNCHANGED <<mainVars, socketVars, logVars, current, got, piece, clientVars, history>>

\* A client that has hung up in the backlog may be accepted all the same.
Accept(c) ==
    /\ server = "accept"
    /\ named /\ socket = "listening"
    /\ c \in queue
    /\ queue' = queue \ {c}
    /\ current' = c /\ got' = 0
    /\ server' = "recv"
    /\ UNCHANGED <<mainVars, socketVars, logVars, piece, kind, sent, phase, answer, history>>

\* accept returns with an error when the socket has been closed.
AcceptFails ==
    /\ server = "accept"
    /\ ~named \/ socket = "closed"
    /\ server' = "leave"
    /\ UNCHANGED <<mainVars, socketVars, logVars, current, got, piece, clientVars, history>>

\* It may also fail on the listening socket, for want of memory or for a client
\* that reset its connection in the backlog; any error ends the loop for all.
AcceptBreaks ==
    /\ server = "accept"
    /\ named /\ socket = "listening"
    /\ server' = "leave"
    /\ broken' = TRUE
    /\ UNCHANGED <<mainVars, socketVars, logVars, current, got, piece, clientVars, late, lost>>

\* The length is tested once, when the headers are complete; a request beyond
\* the limit is not read further.
RequestRead(k, g) == g >= 1 /\ (k = "long" \/ g >= Parts(k))

\* What handle_http_client does with what it has read.
Verdict(k, g) ==
    IF k = "options" /\ g >= 1 THEN "agree"
    ELSE IF HasBody(k) /\ g = Parts(k) THEN "check"
    ELSE "refuse"

\* One recv: it returns some of what has arrived.
Recv(g) ==
    /\ server = "recv"
    /\ got < g /\ g <= sent[current]
    /\ got' = g
    /\ server' = IF RequestRead(kind[current], g) THEN Verdict(kind[current], g) ELSE "recv"
    /\ UNCHANGED <<mainVars, socketVars, logVars, current, piece, clientVars, history>>

\* The client has closed and all it sent is read, or it has reset the connection
\* and the rest is lost.
RecvEnds ==
    /\ server = "recv"
    /\ \/ phase[current] = "closed" /\ got = sent[current]
       \/ phase[current] = "reset"
    /\ server' = Verdict(kind[current], got)
    /\ UNCHANGED <<mainVars, socketVars, logVars, current, got, piece, clientVars, history>>

\* append_media_record looks at the log and the lock before it enters the lock.
CheckLog ==
    /\ server = "check"
    /\ server' = IF logOpen /\ lock = "ready" THEN "enter" ELSE "agree"
    /\ UNCHANGED <<mainVars, socketVars, logVars, current, got, piece, clientVars, history>>

EnterLock ==
    /\ server = "enter"
    /\ piece' = 1
    /\ server' = "write"
    /\ UNCHANGED <<mainVars, socketVars, logVars, current, got, clientVars, history>>

LastPiece(p) == p = 3

\* The prefix, the sanitized body and the end of the record.  A failure is
\* ignored, and a write to the closed log is one.
WritePiece ==
    /\ server = "write"
    /\ \/ logOpen /\ log' = Append(log, <<current, piece>>) /\ UNCHANGED lost
       \/ UNCHANGED log /\ lost' = (lost \/ logOpen)
    /\ piece' = IF LastPiece(piece) THEN 1 ELSE piece + 1
    /\ server' = IF LastPiece(piece) THEN "agree" ELSE "write"
    /\ UNCHANGED <<mainVars, socketVars, logOpen, lock, current, got, clientVars, late, broken>>

\* send, shutdown and close, and on to the next client.
Answer ==
    /\ server \in {"agree", "refuse"}
    /\ answer' = [answer EXCEPT ![current] = IF server = "agree" THEN "204" ELSE "403"]
    /\ phase' = [phase EXCEPT ![current] = IF @ = "open" THEN "closed" ELSE @]
    /\ server' = "loop" /\ current' = None
    /\ UNCHANGED <<mainVars, socketVars, logVars, got, piece, kind, sent, queue, history>>

\* The socket is closed here unless g_listen_socket says it has been.
LeaveLoop ==
    /\ server = "leave"
    /\ CloseListener /\ named' = FALSE
    /\ server' = "ended"
    /\ UNCHANGED <<mainVars, logVars, current, got, piece, kind, sent, answer, history>>

-----------------------------------------------------------------------------
(* The main thread *)

\* start_media_server: the log or the thread may not be created.
StartMediaServer ==
    /\ main = "start"
    /\ lock' = "ready"
    /\ \/ logOpen' = FALSE /\ server' = "none"
       \/ logOpen' = TRUE /\ server' \in {"none", "load"}
    /\ main' = "run"
    /\ UNCHANGED <<stop, socketVars, log, current, got, piece, clientVars, history>>

\* stop_media_server begins: g_server_stop is set.
SetStop ==
    /\ main = "run"
    /\ stop' = TRUE
    /\ main' = "test"
    /\ UNCHANGED <<socketVars, logVars, serverVars, clientVars, history>>

TestSocket ==
    /\ main = "test"
    /\ main' = IF named THEN "close" ELSE "wait"
    /\ UNCHANGED <<stop, socketVars, logVars, serverVars, clientVars, history>>

CloseSocket ==
    /\ main = "close"
    /\ CloseListener
    /\ main' = "forget"
    /\ UNCHANGED <<stop, named, logVars, serverVars, kind, sent, answer, history>>

ForgetSocket ==
    /\ main = "forget"
    /\ named' = FALSE
    /\ main' = "wait"
    /\ UNCHANGED <<stop, socket, logVars, serverVars, clientVars, history>>

Ended == server \in {"none", "ended"}

\* Mutant: the thread is not waited for.
NotWaitedFor == TRUE

Joined == Ended

\* WaitForSingleObject(thread, 5000) returns when the thread has ended, at once
\* when there is none, or when the time is over.
Wait ==
    /\ main = "wait"
    /\ \/ Joined /\ UNCHANGED late
       \/ ~Ended /\ late' = TRUE
    /\ main' = "log"
    /\ UNCHANGED <<stop, socketVars, logVars, serverVars, clientVars, lost, broken>>

CloseLog ==
    /\ main = "log"
    /\ logOpen' = FALSE
    /\ main' = "lock"
    /\ UNCHANGED <<stop, socketVars, log, lock, serverVars, clientVars, history>>

DeleteLock ==
    /\ main = "lock"
    /\ lock' = "deleted"
    /\ main' = "done"
    /\ UNCHANGED <<stop, socketVars, log, logOpen, serverVars, clientVars, history>>

\* The process ends, and the server and all connections with it.
LauncherExits ==
    /\ main = "done"
    /\ main' = "gone"
    /\ server' = IF server = "none" THEN "none" ELSE "ended"
    /\ socket' = IF socket = "none" THEN "none" ELSE "closed"
    /\ Disconnect(Client) /\ queue' = {}
    /\ UNCHANGED <<stop, named, logVars, current, got, piece, kind, sent, answer, history>>

-----------------------------------------------------------------------------
ServerStep ==
    \/ Load \/ MakeSocket \/ BindAndListen \/ LoopTest \/ AcceptFails
    \/ RecvEnds \/ CheckLog \/ EnterLock \/ WritePiece \/ Answer \/ LeaveLoop
    \/ \E c \in Client : Accept(c)
    \/ \E g \in 1 .. 2 : Recv(g)

StopStep == TestSocket \/ CloseSocket \/ ForgetSocket \/ Wait \/ CloseLog \/ DeleteLock

ClientStep(c) == Connect(c) \/ SendPart(c) \/ HangUp(c)

Next ==
    \/ ServerStep \/ AcceptBreaks \/ StopStep
    \/ StartMediaServer \/ SetStop \/ LauncherExits
    \/ \E c \in Client : ClientStep(c)

Spec == Init /\ [][Next]_vars

\* The threads run, and a connected client sends its request or goes, except for
\* the silent ones.  accept need not fail on an open socket.
FairSpec ==
    /\ Spec /\ WF_vars(ServerStep) /\ WF_vars(StopStep)
    /\ \A c \in Client :
           WF_vars(kind[c] # "silent" /\ (SendPart(c) \/ (sent[c] < Parts(kind[c]) /\ HangUp(c))))

-----------------------------------------------------------------------------
(* Properties *)

\* The log is a sequence of records, each with its three pieces in order.
Whole(l) ==
    /\ Len(l) % 3 = 0
    /\ \A i \in 1 .. Len(l) :
           /\ l[i][2] = ((i - 1) % 3) + 1
           /\ (i - 1) % 3 # 0 => l[i][1] = l[i - 1][1]

\* The media log ends with a whole record whenever no record is being written,
\* and in particular once stop_media_server has closed it, as long as the server
\* ends in time and the disk takes what it writes.
WholeLog == Whole(log) \/ (server = "write" /\ logOpen) \/ late \/ lost

\* The server never works inside a critical section that has been deleted, as
\* long as it ends in time.
LockAlive == server = "write" => lock = "ready" \/ late

\* A stop that comes in the middle of a request neither cuts the record in the
\* log nor takes the lock away from under it.
RequestOutlivesStop == WholeLog /\ LockAlive

\* A post that was answered 204 is in the log exactly once, whatever happens to
\* the server meanwhile, as long as it ends in time and the disk takes what it
\* writes; one that was refused is not.
AcknowledgedIsLogged ==
    \A c \in Client :
        HasBody(kind[c]) /\ answer[c] # "none" =>
            \/ Cardinality({i \in 1 .. Len(log) : log[i] = <<c, 3>>})
                   = (IF answer[c] = "204" THEN 1 ELSE 0)
            \/ answer[c] = "204" /\ (late \/ lost)

\* A stop at any moment leaves a whole log, in which each post is that was told so.
RequestsAreWhole == RequestOutlivesStop /\ AcknowledgedIsLogged

\* The answer depends on the request and not on how TCP cut it or on when it
\* came, for requests within the length limit and connections that were not
\* reset (and then nobody is there to see an answer).
RightAnswer ==
    \A c \in Client :
        answer[c] # "none" /\ kind[c] # "long" /\ phase[c] # "reset" =>
            (answer[c] = "204" <=> kind[c] \in {"post", "options"} /\ sent[c] = Parts(kind[c]))

\* A silent client has the server.
Held == current # None /\ kind[current] = "silent"

\* The server thread ends once it was told to, wherever the flag finds it: before
\* it made its socket, between its test and accept, or inside a request; unless
\* a silent client holds it.
ServerEnds == stop ~> (Ended \/ Held)

\* While the monitor runs, a client that waits with its whole request sent is
\* answered.  Only three things end the service for all: the stop, a silent
\* client, and an accept that failed, after which the server is gone for the rest
\* of the session (launcher:816-818).
Served ==
    \A c \in Client :
        (phase[c] = "open" /\ sent[c] = Parts(kind[c])) ~>
            (phase[c] # "open" \/ stop \/ Held \/ broken)

\* stop_media_server returns, also when a client stays silent for ever.
StopReturns == main = "test" ~> main = "done"

\* A stop ends the server and comes to an end itself.
Stops == ServerEnds /\ StopReturns
=============================================================================
