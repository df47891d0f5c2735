--------------------------- MODULE Launcher_proofs ---------------------------
(***************************************************************************)
(* The diagnostics launcher: its media monitor, its sessions and the trace *)
(* of the browser's events.                                                *)
(***************************************************************************)
EXTENDS MediaServer, Session, BrowserTrace, Positions, FiniteSetTheorems, TLAPS

(***************************************************************************)
(* MediaServer, for every finite set of clients: a stop leaves whole       *)
(* records, each post that was acknowledged is in the log once, and the    *)
(* answer depends on the request alone.                                    *)
(***************************************************************************)

Busy == {"recv", "check", "enter", "write", "refuse", "agree"}

(* A client is served once: who is served or has been answered is not in   *)
(* the backlog, and who has been answered is connected no more.            *)
Serving ==
    /\ server \in Busy => current \in Client
    /\ current # None =>
          phase[current] # "idle" /\ current \notin queue /\ answer[current] = "none"
    /\ \A c \in queue : phase[c] # "idle" /\ answer[c] = "none"
    /\ \A c \in Client : answer[c] # "none" => phase[c] \in {"closed", "reset"}

(* Until the wait has timed out the log and the lock outlive the server.   *)
Outlived ==
    /\ main = "start" => server = "none"
    /\ server \notin {"none", "ended"} /\ ~late =>
          main \in {"run", "test", "close", "forget", "wait"} /\ logOpen /\ lock = "ready"

(* What the server thread has decided agrees with what has been sent.      *)
Decided ==
    /\ \A c \in Client : /\ sent[c] <= Parts(kind[c])
                         /\ kind[c] = "silent" => sent[c] <= 1
    /\ server = "recv" => got <= sent[current]
    /\ server \in {"check", "enter", "write"} =>
          kind[current] \in {"post", "long"} /\ sent[current] = 2
    /\ server = "agree" =>
          kind[current] \in {"post", "long", "options"} /\ sent[current] = Parts(kind[current])
    /\ server = "refuse" /\ kind[current] \in {"post", "options"} =>
          \/ phase[current] = "closed" /\ sent[current] < Parts(kind[current])
          \/ phase[current] = "reset"

(* Whose pieces are in the log.                                            *)
Owned ==
    \A i \in 1 .. Len(log) :
        \/ answer[log[i][1]] = "204"
        \/ log[i][1] = current /\ server \in {"write", "agree", "ended"}

(* The pieces follow each other.                                           *)
InOrder ==
    \A i \in 1 .. Len(log) :
        /\ log[i][2] = ((i - 1) % 3) + 1
        /\ (i - 1) % 3 # 0 => log[i][1] = log[i - 1][1]

(* How far the last record is.                                             *)
InProgress ==
    /\ server # "write" => Len(log) % 3 = 0
    /\ server = "write" => /\ Len(log) % 3 = piece - 1
                           /\ piece > 1 => log[Len(log)][1] = current
                           /\ \A i \in 1 .. Len(log) : log[i] # <<current, 3>>

(* Each record is there once, and for each post that was or will be told   *)
(* so.                                                                     *)
LoggedOnce ==
    /\ \A i, j \in 1 .. Len(log) : log[i] = log[j] /\ log[i][2] = 3 => i = j
    /\ \A c \in Client :
          HasBody(kind[c]) /\ (answer[c] = "204" \/ (server = "agree" /\ current = c)) =>
             \E i \in 1 .. Len(log) : log[i] = <<c, 3>>

Undisturbed == ~late /\ ~lost => InOrder /\ InProgress /\ LoggedOnce

MediaInv == TypeOK /\ Serving /\ Outlived /\ Decided /\ RightAnswer /\ Owned /\ Undisturbed
-----------------------------------------------------------------------------
(* TypeOK in two parts: where the threads are, and what the data is.       *)
ControlTyped ==
    /\ main \in {"start", "run", "test", "close", "forget", "wait", "log", "lock", "done", "gone"}
    /\ stop \in BOOLEAN /\ named \in BOOLEAN /\ logOpen \in BOOLEAN
    /\ socket \in {"none", "open", "listening", "closed"}
    /\ lock \in {"none", "ready", "deleted"}
    /\ server \in {"none", "load", "socket", "bind", "loop", "accept", "recv", "check",
                   "enter", "write", "refuse", "agree", "leave", "ended"}
    /\ current \in Client \cup {None}
    /\ got \in 0 .. 2 /\ piece \in 1 .. 3
    /\ late \in BOOLEAN /\ lost \in BOOLEAN /\ broken \in BOOLEAN

DataTyped ==
    /\ kind \in [Client -> Kind] /\ sent \in [Client -> 0 .. 2]
    /\ phase \in [Client -> {"idle", "open", "closed", "reset"}]
    /\ queue \subseteq Client
    /\ answer \in [Client -> {"none", "204", "403"}]

LogTyped == log \in Seq(Client \X (1 .. 3))

LEMMA TypeParts == TypeOK <=> ControlTyped /\ DataTyped /\ LogTyped
BY DEF TypeOK, ControlTyped, DataTyped, LogTyped

(* Before the monitor starts there is no log and nobody is served.         *)
LEMMA InitHolds == Init => MediaInv
<1> SUFFICES ASSUME Init PROVE MediaInv
  OBVIOUS
<1> USE DEF Init
<1>1. ControlTyped /\ DataTyped /\ LogTyped
  <2>1. ControlTyped
    <3>1. stop \in BOOLEAN /\ named \in BOOLEAN /\ logOpen \in BOOLEAN
      OBVIOUS
    <3>2. late \in BOOLEAN /\ lost \in BOOLEAN /\ broken \in BOOLEAN
      OBVIOUS
    <3>3. got \in 0 .. 2 /\ piece \in 1 .. 3 /\ current \in Client \cup {None}
      OBVIOUS
    <3> QED BY <3>1, <3>2, <3>3 DEF ControlTyped
  <2>2. DataTyped
    BY DEF DataTyped
  <2>3. LogTyped
    BY DEF LogTyped
  <2> QED BY <2>1, <2>2, <2>3
<1>2. Serving /\ Outlived /\ RightAnswer
  BY DEF Serving, Outlived, RightAnswer, Busy
<1>3. Decided /\ Owned
  BY DEF Decided, Owned, Parts
<1>4. Undisturbed
  BY DEF Undisturbed, InOrder, InProgress, LoggedOnce
<1> QED BY <1>1, <1>2, <1>3, <1>4, TypeParts DEF MediaInv

LEMMA ControlHolds == ControlTyped /\ [Next]_vars => ControlTyped'
<1> SUFFICES ASSUME ControlTyped, [Next]_vars PROVE ControlTyped'
  OBVIOUS
<1> USE DEF ControlTyped, mainVars, socketVars, logVars, serverVars, clientVars, history
<1>1. ASSUME NEW c \in Client, Connect(c) \/ SendPart(c) \/ HangUp(c) PROVE ControlTyped'
  BY <1>1 DEF Connect, SendPart, HangUp
<1>2. CASE Load \/ MakeSocket \/ BindAndListen
  BY <1>2 DEF Load, MakeSocket, BindAndListen
<1>3. CASE LoopTest \/ AcceptFails \/ AcceptBreaks \/ \E c \in Client : Accept(c)
  <2>1. CASE LoopTest \/ AcceptFails \/ AcceptBreaks
    BY <2>1 DEF LoopTest, AcceptFails, AcceptBreaks
  <2>2. ASSUME NEW c \in Client, Accept(c) PROVE ControlTyped'
    BY <2>2 DEF Accept
  <2> QED BY <1>3, <2>1, <2>2
<1>4. ASSUME NEW g \in 1 .. 2, Recv(g) PROVE ControlTyped'
  <2>1. server' \in {"recv", "agree", "check", "refuse"}
    BY <1>4 DEF Recv, Verdict
  <2> QED BY <1>4, <2>1 DEF Recv
<1>5. CASE RecvEnds \/ CheckLog
  <2>1. server' \in {"agree", "check", "refuse", "enter"}
    BY <1>5 DEF RecvEnds, CheckLog, Verdict
  <2> QED BY <1>5, <2>1 DEF RecvEnds, CheckLog
<1>6. CASE EnterLock \/ LeaveLoop \/ Answer
  <2>1. CASE EnterLock
    BY <2>1 DEF EnterLock
  <2>2. CASE LeaveLoop \/ Answer
    BY <2>2 DEF LeaveLoop, CloseListener, Answer
  <2> QED BY <1>6, <2>1, <2>2
<1>7. CASE WritePiece
  <2>1. piece' \in 1 .. 3 /\ server' \in {"write", "agree"} /\ lost' \in BOOLEAN
    BY <1>7 DEF WritePiece, LastPiece
  <2> QED BY <1>7, <2>1 DEF WritePiece
<1>8. CASE TestSocket \/ CloseSocket \/ ForgetSocket
  BY <1>8 DEF TestSocket, CloseSocket, CloseListener, ForgetSocket
<1>9. CASE Wait \/ CloseLog \/ DeleteLock
  <2>1. CASE Wait
    <3>1. late' \in BOOLEAN /\ main' = "log"
      BY <2>1 DEF Wait
    <3> QED BY <2>1, <3>1 DEF Wait
  <2>2. CASE CloseLog \/ DeleteLock
    BY <2>2 DEF CloseLog, DeleteLock
  <2> QED BY <1>9, <2>1, <2>2
<1>10. CASE StartMediaServer \/ SetStop
  BY <1>10 DEF StartMediaServer, SetStop
<1>11. CASE LauncherExits
  BY <1>11 DEF LauncherExits
<1>12. CASE UNCHANGED vars
  BY <1>12 DEF vars
<1>13. CASE ServerStep
  BY <1>2, <1>3, <1>4, <1>5, <1>6, <1>7, <1>13 DEF ServerStep
<1>14. CASE StopStep
  BY <1>8, <1>9, <1>14 DEF StopStep
<1> QED
  BY <1>1, <1>3, <1>10, <1>11, <1>12, <1>13, <1>14 DEF Next, ClientStep

(* Connections that are cut were open; nothing else happens to any.        *)
LEMMA Disconnected ==
    ASSUME DataTyped, NEW cs, Disconnect(cs)
    PROVE  /\ phase' \in [Client -> {"idle", "open", "closed", "reset"}]
           /\ \A c \in Client : phase'[c] = phase[c] \/ (phase[c] = "open" /\ phase'[c] = "reset")
<1>1. phase' = [c \in Client |-> IF c \in cs /\ phase[c] = "open" THEN "reset" ELSE phase[c]]
  BY DEF Disconnect
<1>2. \A c \in Client : phase[c] \in {"idle", "open", "closed", "reset"}
  BY DEF DataTyped
<1>3. phase' \in [Client -> {"idle", "open", "closed", "reset"}]
  BY <1>1, <1>2
<1>4. \A c \in Client : phase'[c] = phase[c] \/ (phase[c] = "open" /\ phase'[c] = "reset")
  BY <1>1
<1> QED BY <1>3, <1>4

LEMMA DataHolds == DataTyped /\ [Next]_vars => DataTyped'
<1> SUFFICES ASSUME DataTyped, [Next]_vars PROVE DataTyped'
  OBVIOUS
<1> USE DEF DataTyped
<1>1. ASSUME NEW c \in Client, Connect(c) \/ HangUp(c) \/ Accept(c) PROVE DataTyped'
  BY <1>1 DEF Connect, HangUp, Accept
<1>2. ASSUME NEW c \in Client, SendPart(c) PROVE DataTyped'
  <2>1. sent[c] + 1 \in 0 .. 2
    BY <1>2 DEF SendPart, Parts, HasBody
  <2> QED BY <1>2, <2>1 DEF SendPart
<1>3. CASE Answer
  BY <1>3 DEF Answer
<1>4. CASE UNCHANGED clientVars
  BY <1>4 DEF clientVars
<1>5. CASE CloseSocket \/ LeaveLoop \/ LauncherExits
  <2>1. PICK cs \in {queue, Client} :
           Disconnect(cs) /\ queue' = {} /\ UNCHANGED <<kind, sent, answer>>
    BY <1>5 DEF CloseSocket, LeaveLoop, LauncherExits, CloseListener
  <2> QED BY <2>1, Disconnected
<1> QED
  BY <1>1, <1>2, <1>3, <1>4, <1>5
  DEF Next, ServerStep, StopStep, ClientStep, Load, MakeSocket, BindAndListen, LoopTest,
      AcceptFails, AcceptBreaks, Recv, RecvEnds, CheckLog, EnterLock, WritePiece, TestSocket,
      ForgetSocket, Wait, CloseLog, DeleteLock, StartMediaServer, SetStop, clientVars, vars

LEMMA LogHolds == ControlTyped /\ LogTyped /\ Serving /\ [Next]_vars => LogTyped'
<1> SUFFICES ASSUME ControlTyped, LogTyped, Serving, [Next]_vars PROVE LogTyped'
  OBVIOUS
<1>1. CASE WritePiece
  <2>1. current \in Client /\ piece \in 1 .. 3
    BY <1>1 DEF WritePiece, Serving, Busy, ControlTyped
  <2>2. log' = log \/ log' = Append(log, <<current, piece>>)
    BY <1>1 DEF WritePiece
  <2>3. <<current, piece>> \in Client \X (1 .. 3)
    BY <2>1
  <2> DEFINE p == <<current, piece>>
  <2>4. p \in Client \X (1 .. 3) /\ (log' = log \/ log' = Append(log, p))
    BY <2>2, <2>3
  <2> HIDE DEF p
  <2> QED BY <2>4 DEF LogTyped
<1>2. CASE UNCHANGED log
  BY <1>2 DEF LogTyped
<1> QED
  BY <1>1, <1>2
  DEF Next, ServerStep, StopStep, ClientStep, Connect, SendPart, HangUp, Load, MakeSocket,
      BindAndListen, LoopTest, Accept, AcceptFails, AcceptBreaks, Recv, RecvEnds, CheckLog, EnterLock, Answer,
      LeaveLoop, TestSocket, CloseSocket, ForgetSocket, Wait, CloseLog, DeleteLock,
      StartMediaServer, SetStop, LauncherExits, logVars, vars

(* Who is served is not answered yet, and who is answered has no            *)
(* connection.                                                             *)
LEMMA ServingHolds == ControlTyped /\ DataTyped /\ Serving /\ [Next]_vars => Serving'
<1> SUFFICES ASSUME ControlTyped, DataTyped, Serving, [Next]_vars PROVE Serving'
  OBVIOUS
<1> USE MediaAssumption DEF ControlTyped, DataTyped, Serving, Busy, mainVars, socketVars, logVars, serverVars, clientVars, history
<1>1. ASSUME NEW c \in Client, Connect(c) \/ SendPart(c) \/ HangUp(c) PROVE Serving'
  BY <1>1 DEF Connect, SendPart, HangUp
<1>2. CASE Load \/ MakeSocket \/ BindAndListen \/ LoopTest \/ AcceptFails \/ AcceptBreaks
  BY <1>2 DEF Load, MakeSocket, BindAndListen, LoopTest, AcceptFails, AcceptBreaks
<1>3. ASSUME NEW c \in Client, Accept(c) PROVE Serving'
  BY <1>3 DEF Accept
<1>4. ASSUME NEW g \in 1 .. 2, Recv(g) PROVE Serving'
  BY <1>4 DEF Recv
<1>5. CASE RecvEnds \/ CheckLog \/ EnterLock \/ WritePiece
  BY <1>5 DEF RecvEnds, CheckLog, EnterLock, WritePiece
<1>6. CASE Answer
  BY <1>6 DEF Answer
<1>7. CASE CloseSocket \/ LeaveLoop \/ LauncherExits
  <2>1. PICK cs \in {queue, Client} :
           /\ Disconnect(cs) /\ queue' = {} /\ UNCHANGED <<answer, current>>
           /\ server' = server \/ server' \in {"none", "ended"}
    BY <1>7 DEF CloseSocket, LeaveLoop, LauncherExits, CloseListener
  <2>2. \A c \in Client : phase'[c] = phase[c] \/ (phase[c] = "open" /\ phase'[c] = "reset")
    BY <2>1, Disconnected
  <2> QED BY <2>1, <2>2
<1>8. CASE TestSocket \/ ForgetSocket \/ Wait \/ CloseLog \/ DeleteLock
  BY <1>8 DEF TestSocket, ForgetSocket, Wait, CloseLog, DeleteLock
<1>9. CASE StartMediaServer \/ SetStop
  BY <1>9 DEF StartMediaServer, SetStop
<1>10. CASE UNCHANGED vars
  BY <1>10 DEF vars
<1> QED
  BY <1>1, <1>2, <1>3, <1>4, <1>5, <1>6, <1>7, <1>8, <1>9, <1>10
  DEF Next, ServerStep, StopStep, ClientStep

(* The main thread closes nothing before the server has ended or the wait  *)
(* has timed out.                                                          *)
LEMMA OutlivedHolds == ControlTyped /\ Outlived /\ [Next]_vars => Outlived'
<1> SUFFICES ASSUME ControlTyped, Outlived, [Next]_vars PROVE Outlived'
  OBVIOUS
<1> USE DEF ControlTyped, Outlived, mainVars, socketVars, logVars, serverVars, clientVars, history
<1>1. ASSUME NEW c \in Client, Connect(c) \/ SendPart(c) \/ HangUp(c) PROVE Outlived'
  BY <1>1 DEF Connect, SendPart, HangUp
<1>2. CASE Load \/ MakeSocket \/ BindAndListen \/ LoopTest \/ AcceptFails \/ AcceptBreaks
  BY <1>2 DEF Load, MakeSocket, BindAndListen, LoopTest, AcceptFails, AcceptBreaks
<1>3. CASE (\E c \in Client : Accept(c)) \/ (\E g \in 1 .. 2 : Recv(g))
  BY <1>3 DEF Accept, Recv
<1>4. CASE RecvEnds \/ CheckLog \/ EnterLock \/ LeaveLoop \/ WritePiece \/ Answer
  BY <1>4 DEF RecvEnds, CheckLog, EnterLock, LeaveLoop, WritePiece, Answer
<1>5. CASE StopStep
  BY <1>5 DEF StopStep, TestSocket, CloseSocket, ForgetSocket, Wait, CloseLog, DeleteLock, Joined, Ended
<1>6. CASE StartMediaServer \/ SetStop \/ LauncherExits
  BY <1>6 DEF StartMediaServer, SetStop, LauncherExits
<1>7. CASE UNCHANGED vars
  BY <1>7 DEF vars
<1> QED
  BY <1>1, <1>2, <1>3, <1>4, <1>5, <1>6, <1>7 DEF Next, ServerStep, ClientStep

(* The answer follows from what was sent: a decision is made only when the *)
(* request is complete or its client has hung up, and then nothing is sent. *)
LEMMA DecidedHolds ==
    ControlTyped /\ DataTyped /\ Serving /\ Decided /\ [Next]_vars => Decided'
<1> SUFFICES ASSUME ControlTyped, DataTyped, Serving, Decided, [Next]_vars PROVE Decided'
  OBVIOUS
<1> USE MediaAssumption DEF Decided
<1>1. ASSUME NEW c \in Client, Connect(c) \/ HangUp(c) PROVE Decided'
  <2>1. UNCHANGED <<kind, sent, server, got, current>>
    BY <1>1 DEF Connect, HangUp, serverVars
  <2>2. server = "refuse" /\ phase[current] \in {"closed", "reset"} =>
           phase'[current] = phase[current]
    BY <1>1 DEF Connect, HangUp, Serving, Busy, DataTyped
  <2> QED BY <2>1, <2>2
<1>2. ASSUME NEW c \in Client, SendPart(c) PROVE Decided'
  <2> USE <1>2 DEF SendPart, serverVars, DataTyped, Serving, Busy, Parts, HasBody
  <2>1. UNCHANGED <<kind, server, got, current, phase>>
    OBVIOUS
  <2>2. \A d \in Client : sent'[d] = IF d = c THEN sent[d] + 1 ELSE sent[d]
    OBVIOUS
  <2>3. sent'[c] <= Parts(kind[c]) /\ (kind[c] = "silent" => sent'[c] <= 1)
    BY <2>2
  <2>4. server \in {"check", "enter", "write", "agree"} => current # c
    <3>1. server \in {"check", "enter", "write", "agree"} => sent[current] = Parts(kind[current])
      OBVIOUS
    <3> QED BY <3>1
  <2>5. server = "refuse" /\ kind[current] \in {"post", "options"} => current # c
    OBVIOUS
  <2>6. \A d \in Client : sent[d] \in Nat /\ sent[d] <= sent'[d]
    BY <2>2
  <2> QED BY <2>1, <2>2, <2>3, <2>4, <2>5, <2>6 DEF ControlTyped
<1>3. ASSUME NEW c \in Client, Accept(c) PROVE Decided'
  BY <1>3 DEF Accept, DataTyped
<1>4. ASSUME NEW g \in 1 .. 2, Recv(g) PROVE Decided'
  <2>1. /\ g <= sent[current] /\ current \in Client /\ UNCHANGED <<kind, sent, current>> /\ got' = g
        /\ server' = IF RequestRead(kind[current], g) THEN Verdict(kind[current], g) ELSE "recv"
    BY <1>4 DEF Recv, clientVars, Serving, Busy
  <2>2. sent[current] \in 0 .. 2 /\ kind[current] \in Kind
    BY <2>1 DEF DataTyped
  <2>3. sent[current] <= Parts(kind[current])
    <3>1. current \in Client
      BY <2>1
    <3> QED BY <3>1
  <2> QED BY <2>1, <2>2, <2>3 DEF RequestRead, Verdict, Parts, HasBody, Kind
<1>5. CASE RecvEnds
  <2>1. /\ current \in Client /\ UNCHANGED <<kind, sent, current, got, phase>>
        /\ \/ phase[current] = "closed" /\ got = sent[current]
           \/ phase[current] = "reset"
        /\ got \in 0 .. 2 /\ got <= sent[current]
        /\ server' = Verdict(kind[current], got)
    BY <1>5 DEF RecvEnds, clientVars, Serving, Busy, ControlTyped
  <2>2. sent[current] \in 0 .. 2 /\ kind[current] \in Kind
    BY <2>1 DEF DataTyped
  <2>3. /\ sent[current] <= Parts(kind[current])
        /\ kind[current] = "silent" => sent[current] <= 1
    <3>1. current \in Client
      BY <2>1
    <3> QED BY <3>1
  <2>4. CASE kind[current] = "options"
    BY <2>1, <2>2, <2>3, <2>4 DEF Verdict, Parts, HasBody
  <2>5. CASE HasBody(kind[current])
    BY <2>1, <2>2, <2>3, <2>5 DEF Verdict, Parts, HasBody
  <2>6. CASE kind[current] = "other"
    BY <2>1, <2>6 DEF Verdict, Parts, HasBody
  <2> QED BY <2>2, <2>4, <2>5, <2>6 DEF Kind, HasBody
<1>6. CASE CheckLog \/ EnterLock \/ WritePiece
  <2>1. UNCHANGED <<kind, sent, current>> /\ server' \in {"enter", "agree", "write"}
        /\ server \in {"check", "enter", "write"}
    BY <1>6 DEF CheckLog, EnterLock, WritePiece, clientVars
  <2> QED BY <2>1 DEF Parts, HasBody
<1>7. CASE UNCHANGED <<kind, sent>> /\ server' \in {"none", "load", "socket", "bind", "loop", "accept", "leave", "ended"}
  BY <1>7
<1>8. CASE UNCHANGED clientVars /\ UNCHANGED serverVars
  BY <1>8 DEF clientVars, serverVars
<1>9. CASE ServerStep
  <2>1. CASE Load \/ MakeSocket \/ BindAndListen \/ LoopTest
    BY <2>1, <1>7 DEF Load, MakeSocket, BindAndListen, LoopTest, clientVars
  <2>2. CASE AcceptFails \/ Answer \/ LeaveLoop
    BY <2>2, <1>7 DEF AcceptFails, Answer, LeaveLoop, clientVars
  <2> QED BY <1>9, <2>1, <2>2, <1>3, <1>4, <1>5, <1>6 DEF ServerStep
<1>10. CASE StopStep \/ SetStop
  <2>1. CASE CloseSocket
    <3>1. /\ Disconnect(queue) /\ UNCHANGED <<kind, sent>> /\ UNCHANGED serverVars
      BY <2>1 DEF CloseSocket, CloseListener
    <3>2. \A c \in Client : phase'[c] = phase[c] \/ (phase[c] = "open" /\ phase'[c] = "reset")
      BY <3>1, Disconnected
    <3>3. server = "refuse" => current \in Client
      BY DEF Serving, Busy
    <3> QED BY <3>1, <3>2, <3>3 DEF serverVars
  <2>2. CASE TestSocket \/ ForgetSocket \/ Wait \/ CloseLog \/ DeleteLock \/ SetStop
    BY <2>2, <1>8 DEF TestSocket, ForgetSocket, Wait, CloseLog, DeleteLock, SetStop
  <2> QED BY <1>10, <2>1, <2>2 DEF StopStep
<1>11. CASE StartMediaServer \/ LauncherExits \/ AcceptBreaks
  BY <1>11, <1>7 DEF StartMediaServer, LauncherExits, AcceptBreaks, clientVars
<1>12. CASE UNCHANGED vars
  BY <1>12, <1>8 DEF vars
<1> QED BY <1>1, <1>2, <1>9, <1>10, <1>11, <1>12 DEF Next, ClientStep

(* Nobody who was answered sends any more.                                 *)
LEMMA RightHolds ==
    ControlTyped /\ DataTyped /\ Serving /\ Decided /\ RightAnswer /\ [Next]_vars => RightAnswer'
<1> SUFFICES ASSUME ControlTyped, DataTyped, Serving, Decided, RightAnswer, [Next]_vars
             PROVE  RightAnswer'
  OBVIOUS
<1>1. CASE Answer
  <2>1. /\ current \in Client /\ UNCHANGED <<kind, sent>> /\ server \in {"agree", "refuse"}
        /\ answer' = [answer EXCEPT ![current] = IF server = "agree" THEN "204" ELSE "403"]
    BY <1>1 DEF Answer, Serving, Busy
  <2>2. sent[current] \in 0 .. 2
    BY <2>1 DEF DataTyped
  <2>3. kind[current] # "long" =>
           \/ phase[current] = "reset"
           \/ server = "agree" <=> /\ kind[current] \in {"post", "options"}
                                   /\ sent[current] = Parts(kind[current])
    BY <2>1, <2>2 DEF Decided, Parts, HasBody
  <2>4. answer'[current] = "204" <=> server = "agree"
    BY <2>1 DEF DataTyped
  <2>5. /\ \A c \in Client \ {current} : answer'[c] = answer[c] /\ phase'[c] = phase[c]
        /\ phase[current] = "reset" => phase'[current] = "reset"
    BY <1>1, <2>1 DEF Answer, DataTyped
  <2> QED BY <2>1, <2>3, <2>4, <2>5 DEF RightAnswer
<1>2. ASSUME NEW d \in Client, SendPart(d) PROVE RightAnswer'
  <2>1. /\ answer[d] = "none" /\ UNCHANGED <<kind, phase, answer>>
        /\ \A c \in Client \ {d} : sent'[c] = sent[c]
    BY <1>2 DEF SendPart, Serving, DataTyped
  <2> QED BY <2>1 DEF RightAnswer
<1>3. ASSUME UNCHANGED <<kind, sent, answer>>,
             \A c \in Client : phase[c] \in {"closed", "reset"} => phase'[c] = phase[c]
      PROVE  RightAnswer'
  <2>1. \A c \in Client : answer[c] # "none" => phase'[c] = phase[c]
    BY <1>3 DEF Serving
  <2> QED BY <1>3, <2>1 DEF RightAnswer
<1>4. CASE \E d \in Client : Connect(d) \/ HangUp(d)
  BY <1>3, <1>4 DEF Connect, HangUp, DataTyped
<1>5. CASE CloseSocket \/ LeaveLoop \/ LauncherExits
  <2>1. PICK cs \in {queue, Client} : Disconnect(cs) /\ UNCHANGED <<kind, sent, answer>>
    BY <1>5 DEF CloseSocket, LeaveLoop, LauncherExits, CloseListener
  <2>2. \A c \in Client : phase'[c] = phase[c] \/ (phase[c] = "open" /\ phase'[c] = "reset")
    BY <2>1, Disconnected
  <2> QED BY <1>3, <2>1, <2>2
<1>6. CASE UNCHANGED <<kind, sent, phase, answer>>
  BY <1>3, <1>6
<1> QED
  BY <1>1, <1>2, <1>4, <1>5, <1>6
  DEF Next, ServerStep, StopStep, ClientStep, Load, MakeSocket, BindAndListen, LoopTest,
      Accept, AcceptFails, AcceptBreaks, Recv, RecvEnds, CheckLog, EnterLock, WritePiece,
      TestSocket, ForgetSocket, Wait, CloseLog, DeleteLock, StartMediaServer, SetStop,
      clientVars, vars

(* What a step of the log is: one piece more, of the client that is served. *)
LEMMA PieceStep ==
    ASSUME ControlTyped, LogTyped, Serving, WritePiece, log' # log
    PROVE  /\ current \in Client /\ piece \in 1 .. 3
           /\ Len(log) \in Nat /\ Len(log') = Len(log) + 1
           /\ log'[Len(log')] = <<current, piece>>
           /\ \A i \in 1 .. Len(log) : log'[i] = log[i]
<1>1. current \in Client /\ piece \in 1 .. 3
  BY DEF WritePiece, Serving, Busy, ControlTyped
<1> DEFINE p == <<current, piece>>
<1>2. p \in Client \X (1 .. 3)
  BY <1>1
<1>3. log' = Append(log, p)
  BY DEF WritePiece
<1> HIDE DEF p
<1>4. /\ Len(log) \in Nat /\ Len(log') = Len(log) + 1
      /\ log'[Len(log')] = p
      /\ \A i \in 1 .. Len(log) : log'[i] = log[i]
  BY <1>2, <1>3 DEF LogTyped
<1> QED BY <1>1, <1>4 DEF p

(* An entry of the log is a client and a number.                           *)
LEMMA EntryTyped ==
    ASSUME LogTyped, NEW i \in 1 .. Len(log)
    PROVE  log[i][1] \in Client
<1> DEFINE E == Client \X (1 .. 3)
<1>1. \A e \in E : e[1] \in Client
  OBVIOUS
<1>2. log \in Seq(E)
  BY DEF LogTyped
<1> HIDE DEF E
<1>3. log[i] \in E
  BY <1>2
<1> QED BY <1>1, <1>3

(* Only the client that is served is written for, and it is answered 204.  *)
LEMMA OwnedHolds ==
    /\ ControlTyped /\ DataTyped /\ LogTyped
    /\ Serving /\ Outlived /\ Owned /\ [Next]_vars
    => Owned'
<1> SUFFICES ASSUME ControlTyped, DataTyped, LogTyped, Serving, Outlived, Owned, [Next]_vars
             PROVE  Owned'
  OBVIOUS
<1>1. CASE WritePiece
  <2>1. server = "write" /\ server' \in {"write", "agree"} /\ UNCHANGED <<current, answer>>
    BY <1>1 DEF WritePiece, clientVars
  <2>2. CASE log' = log
    BY <2>1, <2>2 DEF Owned
  <2>3. CASE log' # log
    <3>1. /\ Len(log) \in Nat /\ Len(log') = Len(log) + 1
          /\ log'[Len(log')][1] = current
          /\ \A i \in 1 .. Len(log) : log'[i] = log[i]
      BY <1>1, <2>3, PieceStep
    <3> SUFFICES ASSUME NEW i \in 1 .. Len(log')
                 PROVE  answer'[log'[i][1]] = "204" \/ log'[i][1] = current
      BY <2>1 DEF Owned
    <3>2. CASE i = Len(log')
      BY <3>1, <3>2
    <3>3. CASE i \in 1 .. Len(log)
      BY <2>1, <3>1, <3>3 DEF Owned
    <3> QED BY <3>1, <3>2, <3>3
  <2> QED BY <2>2, <2>3
<1>2. CASE Answer
  <2>1. /\ current \in Client /\ server \in {"agree", "refuse"} /\ UNCHANGED log
        /\ answer' = [answer EXCEPT ![current] = IF server = "agree" THEN "204" ELSE "403"]
    BY <1>2 DEF Answer, Serving, Busy, logVars
  <2>2. answer[current] = "none"
    BY <2>1, MediaAssumption DEF Serving
  <2> SUFFICES ASSUME NEW i \in 1 .. Len(log)
               PROVE  answer'[log[i][1]] = "204"
    BY <2>1 DEF Owned
  <2>3. log[i][1] \in Client
    BY EntryTyped
  <2> QED BY <2>1, <2>2, <2>3 DEF Owned, DataTyped
<1>3. CASE /\ UNCHANGED <<log, answer>> /\ server \notin {"write", "agree"}
           /\ server = "ended" => UNCHANGED <<current, server>>
  BY <1>3 DEF Owned
<1>4. CASE /\ UNCHANGED <<log, answer, current>>
           /\ server' = server \/ server' = "ended"
  BY <1>4 DEF Owned
<1>5. CASE ServerStep
  <2>1. CASE Load \/ MakeSocket \/ BindAndListen \/ LoopTest
    BY <2>1, <1>3 DEF Load, MakeSocket, BindAndListen, LoopTest, logVars, clientVars
  <2>2. CASE AcceptFails \/ LeaveLoop \/ \E c \in Client : Accept(c)
    BY <2>2, <1>3 DEF AcceptFails, LeaveLoop, CloseListener, Accept, logVars, clientVars
  <2>3. CASE RecvEnds \/ CheckLog \/ EnterLock \/ \E g \in 1 .. 2 : Recv(g)
    BY <2>3, <1>3 DEF RecvEnds, CheckLog, EnterLock, Recv, logVars, clientVars
  <2> QED BY <1>1, <1>2, <1>5, <2>1, <2>2, <2>3 DEF ServerStep
<1>6. CASE StopStep \/ SetStop
  BY <1>4, <1>6 DEF StopStep, TestSocket, CloseSocket, ForgetSocket, Wait, CloseLog, DeleteLock,
                    SetStop, CloseListener, serverVars, clientVars, logVars
<1>7. CASE StartMediaServer
  BY <1>3, <1>7 DEF StartMediaServer, Outlived, clientVars
<1>8. CASE LauncherExits
  BY <1>4, <1>3, <1>8 DEF LauncherExits, logVars
<1>9. CASE AcceptBreaks
  BY <1>3, <1>9 DEF AcceptBreaks, logVars, clientVars
<1>10. CASE (\E c \in Client : ClientStep(c)) \/ UNCHANGED vars
  BY <1>4, <1>10 DEF ClientStep, Connect, SendPart, HangUp, vars, serverVars, clientVars, logVars
<1> QED BY <1>5, <1>6, <1>7, <1>8, <1>9, <1>10 DEF Next

(* The pieces stay in order: a record is begun where one has ended, and    *)
(* until it is whole nobody else writes.                                   *)
LEMMA UndisturbedHolds ==
    MediaInv /\ [Next]_vars => Undisturbed'
<1> SUFFICES ASSUME MediaInv, [Next]_vars, ~late', ~lost'
             PROVE  InOrder' /\ InProgress' /\ LoggedOnce'
  BY DEF Undisturbed
<1>0. ControlTyped /\ DataTyped /\ LogTyped /\ Serving /\ Outlived /\ Decided /\ Owned
  BY TypeParts DEF MediaInv
<1>1. ~late /\ ~lost
  <2>1. late \in BOOLEAN /\ lost \in BOOLEAN /\ logOpen \in BOOLEAN
    BY <1>0 DEF ControlTyped
  <2>2. CASE UNCHANGED history
    BY <2>2 DEF history
  <2>3. CASE Wait
    BY <2>1, <2>3 DEF Wait
  <2>4. CASE WritePiece
    BY <2>1, <2>4 DEF WritePiece
  <2> QED
    BY <2>2, <2>3, <2>4
    DEF Next, ServerStep, StopStep, ClientStep, Connect, SendPart, HangUp, Load, MakeSocket,
        BindAndListen, LoopTest, Accept, AcceptFails, AcceptBreaks, Recv, RecvEnds, CheckLog, EnterLock,
        Answer, LeaveLoop, TestSocket, CloseSocket, ForgetSocket, CloseLog, DeleteLock,
        StartMediaServer, SetStop, LauncherExits, vars
<1>2. InOrder /\ InProgress /\ LoggedOnce
  BY <1>1 DEF MediaInv, Undisturbed
<1>3. CASE UNCHANGED <<log, answer, kind>> /\ server # "write" /\ server' \notin {"write", "agree"}
  BY <1>2, <1>3 DEF InOrder, InProgress, LoggedOnce
<1>4. CASE UNCHANGED <<log, answer, kind, current, piece, server>>
  <2>1. InOrder' /\ InProgress'
    BY <1>2, <1>4 DEF InOrder, InProgress
  <2>2. LoggedOnce'
    BY <1>2, <1>4 DEF LoggedOnce
  <2> QED BY <2>1, <2>2
<1>5. CASE WritePiece
  <2>1. server = "write" /\ logOpen
    BY <1>0, <1>1, <1>5 DEF WritePiece, Outlived
  <2>2. log' # log
    <3>1. log' = Append(log, <<current, piece>>)
      BY <1>1, <1>5, <2>1 DEF WritePiece
    <3>2. Len(log') = Len(log) + 1 /\ Len(log) \in Nat
      BY <1>0, <3>1 DEF LogTyped
    <3> QED BY <3>2
  <2>3. /\ current \in Client /\ piece \in 1 .. 3
        /\ Len(log) \in Nat /\ Len(log') = Len(log) + 1
        /\ log'[Len(log')] = <<current, piece>>
        /\ \A i \in 1 .. Len(log) : log'[i] = log[i]
    BY <1>0, <1>5, <2>2, PieceStep
  <2>4. /\ UNCHANGED <<current, kind, answer>>
        /\ piece' = IF piece = 3 THEN 1 ELSE piece + 1
        /\ server' = IF piece = 3 THEN "agree" ELSE "write"
    BY <1>5 DEF WritePiece, LastPiece, clientVars
  <2>5. /\ Len(log) % 3 = piece - 1
        /\ piece > 1 => log[Len(log)][1] = current
        /\ \A i \in 1 .. Len(log) : log[i] # <<current, 3>>
    BY <1>2, <2>1 DEF InProgress
  <2>6. InOrder'
    <3> SUFFICES ASSUME NEW i \in 1 .. Len(log')
                 PROVE  /\ log'[i][2] = ((i - 1) % 3) + 1
                        /\ (i - 1) % 3 # 0 => log'[i][1] = log'[i - 1][1]
      BY DEF InOrder
    <3>1. CASE i \in 1 .. Len(log)
      <4>1. /\ log[i][2] = ((i - 1) % 3) + 1
            /\ (i - 1) % 3 # 0 => log[i][1] = log[i - 1][1]
        BY <1>2, <3>1 DEF InOrder
      <4>2. (i - 1) % 3 # 0 => i - 1 \in 1 .. Len(log)
        BY <2>3, <3>1
      <4> QED BY <2>3, <3>1, <4>1, <4>2
    <3>2. CASE i = Len(log')
      <4>1. (i - 1) % 3 = piece - 1 /\ i - 1 = Len(log)
        BY <2>3, <2>5, <3>2
      <4>2. piece > 1 => Len(log) \in 1 .. Len(log)
        BY <2>3, <2>5
      <4> QED BY <2>3, <2>5, <3>2, <4>1, <4>2
    <3> QED BY <2>3, <3>1, <3>2
  <2>7. InProgress'
    <3>1. piece = 3 => Len(log') % 3 = 0
      BY <2>3, <2>5
    <3>2. piece # 3 => Len(log') % 3 = piece
      BY <2>3, <2>5
    <3>3. piece # 3 => \A i \in 1 .. Len(log') : log'[i] # <<current, 3>>
      BY <2>3, <2>5
    <3> QED BY <2>3, <2>4, <3>1, <3>2, <3>3 DEF InProgress
  <2>8. LoggedOnce'
    <3>1. \A i, j \in 1 .. Len(log') : log'[i] = log'[j] /\ log'[i][2] = 3 => i = j
      <4> SUFFICES ASSUME NEW i \in 1 .. Len(log'), NEW j \in 1 .. Len(log'),
                          log'[i] = log'[j], log'[i][2] = 3, i < j
                   PROVE  FALSE
        BY <2>3
      <4>1. i \in 1 .. Len(log) /\ log'[i] = log[i]
        BY <2>3
      <4>2. CASE j \in 1 .. Len(log)
        <5>1. log[i] = log[j] /\ log[i][2] = 3
          BY <2>3, <4>1, <4>2
        <5>2. i = j
          BY <1>2, <4>1, <4>2, <5>1 DEF LoggedOnce
        <5> QED BY <5>2
      <4>3. CASE j = Len(log')
        <5>1. log[i] = <<current, piece>> /\ piece = 3
          <6>1. log[i] = <<current, piece>>
            BY <2>3, <4>1, <4>3
          <6>2. log[i][2] = 3
            BY <4>1
          <6> QED BY <6>1, <6>2
        <5> QED BY <2>5, <4>1, <5>1
      <4> QED BY <2>3, <4>2, <4>3
    <3>2. ASSUME NEW c \in Client, HasBody(kind[c]),
                 answer[c] = "204" \/ (server' = "agree" /\ current = c)
          PROVE  \E i \in 1 .. Len(log') : log'[i] = <<c, 3>>
      <4>1. CASE answer[c] = "204"
        <5>1. PICK i \in 1 .. Len(log) : log[i] = <<c, 3>>
          BY <1>2, <3>2, <4>1 DEF LoggedOnce
        <5> QED BY <2>3, <5>1
      <4>2. CASE server' = "agree" /\ current = c
        BY <2>3, <2>4, <4>2
      <4> QED BY <3>2, <4>1, <4>2
    <3> QED BY <2>4, <3>1, <3>2 DEF LoggedOnce
  <2> QED BY <2>6, <2>7, <2>8
<1>6. CASE Answer
  <2>1. /\ current \in Client /\ server \in {"agree", "refuse"} /\ server' = "loop"
        /\ UNCHANGED <<log, kind>>
        /\ answer' = [answer EXCEPT ![current] = IF server = "agree" THEN "204" ELSE "403"]
    BY <1>0, <1>6 DEF Answer, Serving, Busy, logVars
  <2>2. InOrder' /\ InProgress'
    BY <1>2, <2>1 DEF InOrder, InProgress
  <2>3. \A c \in Client : answer'[c] = "204" =>
                             answer[c] = "204" \/ (server = "agree" /\ current = c)
    BY <1>0, <2>1 DEF DataTyped
  <2>4. LoggedOnce'
    <3>1. \A c \in Client : HasBody(kind[c]) /\ answer'[c] = "204" =>
             \E i \in 1 .. Len(log) : log[i] = <<c, 3>>
      BY <1>2, <2>3 DEF LoggedOnce
    <3>2. \A i, j \in 1 .. Len(log) : log[i] = log[j] /\ log[i][2] = 3 => i = j
      BY <1>2 DEF LoggedOnce
    <3> QED BY <2>1, <3>1, <3>2 DEF LoggedOnce
  <2> QED BY <2>2, <2>4
<1>7. CASE CheckLog
  <2>1. server = "check" /\ server' = "enter" /\ UNCHANGED <<log, answer, kind>>
    BY <1>0, <1>1, <1>7 DEF CheckLog, Outlived, logVars, clientVars
  <2> QED BY <1>3, <2>1
<1>8. CASE EnterLock
  <2>1. /\ server = "enter" /\ server' = "write" /\ piece' = 1
        /\ UNCHANGED <<log, answer, kind, current>>
    BY <1>8 DEF EnterLock, logVars, clientVars
  <2>2. current \in Client /\ answer[current] = "none"
    BY <1>0, <2>1, MediaAssumption DEF Serving, Busy
  <2>3. \A i \in 1 .. Len(log) : log[i] # <<current, 3>>
    BY <1>0, <2>1, <2>2 DEF Owned
  <2>4. InProgress'
    BY <1>2, <2>1, <2>3 DEF InProgress
  <2> QED BY <1>2, <2>1, <2>4 DEF InOrder, LoggedOnce
<1>9. ASSUME NEW g, server' = Verdict(kind[current], g) \/ server' = "recv",
             server = "recv", UNCHANGED <<log, answer, kind, current>>
      PROVE  InOrder' /\ InProgress' /\ LoggedOnce'
  <2>1. server' \in {"agree", "check", "refuse", "recv"}
    BY <1>9 DEF Verdict
  <2>2. server' = "agree" => ~HasBody(kind[current])
    BY <1>9 DEF Verdict, HasBody
  <2>3. InOrder' /\ InProgress'
    BY <1>2, <1>9, <2>1 DEF InOrder, InProgress
  <2>4. LoggedOnce'
    BY <1>2, <1>9, <2>2 DEF LoggedOnce
  <2> QED BY <2>3, <2>4
<1>10. CASE RecvEnds
  BY <1>9, <1>10 DEF RecvEnds, logVars, clientVars
<1>11. ASSUME NEW g \in 1 .. 2, Recv(g) PROVE InOrder' /\ InProgress' /\ LoggedOnce'
  BY <1>9, <1>11 DEF Recv, logVars, clientVars
<1>12. CASE ServerStep
  <2>1. CASE Load \/ MakeSocket \/ BindAndListen \/ LoopTest
    BY <2>1, <1>3 DEF Load, MakeSocket, BindAndListen, LoopTest, logVars, clientVars
  <2>2. CASE AcceptFails \/ LeaveLoop \/ \E c \in Client : Accept(c)
    BY <2>2, <1>3 DEF AcceptFails, LeaveLoop, CloseListener, Accept, logVars, clientVars
  <2> QED BY <1>5, <1>6, <1>7, <1>8, <1>10, <1>11, <1>12, <2>1, <2>2 DEF ServerStep
<1>13. CASE StopStep \/ SetStop
  BY <1>4, <1>13 DEF StopStep, TestSocket, CloseSocket, ForgetSocket, Wait, CloseLog, DeleteLock,
                     SetStop, CloseListener, serverVars, clientVars, logVars
<1>14. CASE StartMediaServer
  BY <1>0, <1>3, <1>14 DEF StartMediaServer, Outlived, clientVars
<1>15. CASE LauncherExits
  BY <1>0, <1>1, <1>3, <1>15 DEF LauncherExits, Outlived, logVars
<1>16. CASE AcceptBreaks
  BY <1>3, <1>16 DEF AcceptBreaks, logVars, clientVars
<1>17. CASE (\E c \in Client : ClientStep(c)) \/ UNCHANGED vars
  BY <1>4, <1>17 DEF ClientStep, Connect, SendPart, HangUp, vars, serverVars, clientVars, logVars
<1> QED BY <1>12, <1>13, <1>14, <1>15, <1>16, <1>17 DEF Next

(* Every reachable state satisfies the invariant.                          *)
THEOREM MediaInvHolds == Spec => []MediaInv
<1>1. ASSUME MediaInv, [Next]_vars PROVE MediaInv'
  <2>1. ControlTyped /\ DataTyped /\ LogTyped
    BY <1>1, TypeParts DEF MediaInv
  <2>2. ControlTyped' /\ DataTyped' /\ LogTyped'
    BY <1>1, <2>1, ControlHolds, DataHolds, LogHolds DEF MediaInv
  <2>3. TypeOK'
    BY <2>2 DEF TypeOK, ControlTyped, DataTyped, LogTyped
  <2>4. Serving' /\ Outlived' /\ Decided' /\ RightAnswer' /\ Owned' /\ Undisturbed'
    BY <1>1, <2>1, ServingHolds, OutlivedHolds, DecidedHolds, RightHolds, OwnedHolds,
       UndisturbedHolds DEF MediaInv
  <2> QED BY <2>3, <2>4 DEF MediaInv
<1> QED BY InitHolds, <1>1, PTL DEF Spec

(* The variables have their types.                                         *)
THEOREM TypeCorrect == Spec => []TypeOK
<1>1. MediaInv => TypeOK
  BY DEF MediaInv
<1> QED BY MediaInvHolds, <1>1, PTL
-----------------------------------------------------------------------------
(* The answer depends on the request, however it was cut up and whenever   *)
(* it came.                                                                *)
THEOREM RightAnswerHolds == Spec => []RightAnswer
<1>1. MediaInv => RightAnswer
  BY DEF MediaInv
<1> QED BY MediaInvHolds, <1>1, PTL

(* How many entries are the last piece of c's record.                      *)
LEMMA LastPieces ==
    ASSUME MediaInv, NEW c \in Client, HasBody(kind[c]), answer[c] # "none"
    PROVE  LET n == Cardinality({i \in 1 .. Len(log) : log[i] = <<c, 3>>})
           IN  \/ n = (IF answer[c] = "204" THEN 1 ELSE 0)
               \/ answer[c] = "204" /\ (late \/ lost)
<1> DEFINE L == {i \in 1 .. Len(log) : log[i] = <<c, 3>>}
<1>1. answer[c] \in {"204", "403"}
  BY TypeParts DEF MediaInv, DataTyped
<1>2. CASE answer[c] = "403"
  <2>1. L = {}
    <3>1. c # current
      BY <1>2, MediaAssumption DEF MediaInv, Serving
    <3>2. \A i \in 1 .. Len(log) : log[i] = <<c, 3>> => log[i][1] = c
      OBVIOUS
    <3> QED BY <1>2, <3>1, <3>2 DEF MediaInv, Owned
  <2> QED BY <1>2, <2>1, FS_EmptySet
<1>3. CASE answer[c] = "204" /\ ~late /\ ~lost
  <2>1. LoggedOnce
    BY <1>3 DEF MediaInv, Undisturbed
  <2>2. PICK i \in 1 .. Len(log) : log[i] = <<c, 3>>
    BY <1>3, <2>1 DEF LoggedOnce
  <2>3. \A j \in 1 .. Len(log) : log[j] = <<c, 3>> => i = j
    BY <2>1, <2>2 DEF LoggedOnce
  <2>4. L = {i}
    BY <2>2, <2>3
  <2> QED BY <1>3, <2>4, FS_Singleton
<1> QED BY <1>1, <1>2, <1>3

(* A stop at any moment leaves whole records and no use of the deleted     *)
(* lock, and each post is in the log once if and only if it was told so.   *)
THEOREM RequestsAreWholeHolds == Spec => []RequestsAreWhole
<1>1. ASSUME MediaInv PROVE RequestsAreWhole
  <2>1. WholeLog
    <3>1. CASE ~late /\ ~lost
      <4>1. InOrder /\ InProgress /\ Outlived
        BY <1>1, <3>1 DEF MediaInv, Undisturbed
      <4> QED BY <3>1, <4>1 DEF InOrder, InProgress, Outlived, WholeLog, Whole
    <3> QED BY <3>1 DEF WholeLog
  <2>2. LockAlive
    BY <1>1 DEF MediaInv, Outlived, LockAlive
  <2>3. AcknowledgedIsLogged
    BY <1>1, LastPieces DEF AcknowledgedIsLogged
  <2> QED BY <2>1, <2>2, <2>3 DEF RequestsAreWhole, RequestOutlivesStop
<1> QED BY MediaInvHolds, <1>1, PTL

(***************************************************************************)
(* Session: no session removes anything from under the browser of another, *)
(* and what a session leaves behind is told, with any number of sessions   *)
(* and of process ids, any crashes and any number of attempts at the       *)
(* cleanup.                                                                *)
(***************************************************************************)

Living(s) == pc[s] \notin Over

\* A process id has one living owner at most, and a profile holds only files of those
\* who had or have its process id.
OwnersInv ==
    /\ \A s \in Session : pc[s] = "idle" <=> pid[s] = NoPid
    /\ \A s, t \in Session : Living(s) /\ Living(t) /\ pid[s] = pid[t] => s = t
    /\ \A p \in Pid, f \in File : f \in files[p] => pid[f[1]] = p

\* From the preparation of its profile to the cleanup a session finds its files there.
ProfileKept(s) ==
    /\ pc[s] \in {"command", "pipe", "spawn", "wait"} => <<s, "closed">> \in files[pid[s]]
    /\ pc[s] = "wait" => <<s, "open">> \in files[pid[s]]

\* What the summary says, or is going to say, of the cleanup.
SummaryTrue(s) ==
    /\ pc[s] \in {"idle", "confirm", "directory"} => summary[s] = "none"
    /\ pc[s] \notin {"idle", "confirm", "directory", "ended", "crashed"} => summary[s] = "started"
    /\ pc[s] = "ended" => summary[s] # "started"
    /\ \/ pc[s] \in {"idle", "confirm", "directory"}
       \/ pc[s] = "summary" /\ removed[s] = "gone"
       \/ pc[s] = "ended" /\ summary[s] # "incomplete" /\ ~Silent(s)
       => NothingLeft(s)

SessionInv == SessionTypeOK /\ OwnersInv /\ \A s \in Session : ProfileKept(s) /\ SummaryTrue(s)

LEMMA TypeStep == SessionTypeOK /\ [SessionNext]_sessionVars => SessionTypeOK'
<1> SUFFICES ASSUME SessionTypeOK, [SessionNext]_sessionVars PROVE SessionTypeOK'
  OBVIOUS
<1>1. CASE UNCHANGED sessionVars
  BY <1>1 DEF SessionTypeOK, sessionVars
<1> SUFFICES ASSUME NEW s \in Session,
                    \/ \E p \in Pid : Start(s, p)
                    \/ Confirm(s) \/ CreateSession(s) \/ PrepareProfile(s) \/ AllocateCommand(s)
                    \/ MakePipe(s) \/ StartBrowser(s) \/ CleanUp(s) \/ OverlookProfile(s) \/ Crash(s)
                    \/ \E q \in Process : ProcessEnds(s, q)
             PROVE  SessionTypeOK'
  BY <1>1 DEF SessionNext
<1>2. ASSUME NEW p \in Pid, Start(s, p) PROVE SessionTypeOK'
  BY <1>2 DEF Start, Goto, SessionTypeOK
<1>3. CASE Confirm(s) \/ AllocateCommand(s) \/ MakePipe(s)
  BY <1>3 DEF Confirm, AllocateCommand, MakePipe, Goto, SessionTypeOK
<1>4. CASE CreateSession(s)
  BY <1>4 DEF CreateSession, Goto, SessionTypeOK
<1>5. ASSUME NEW g \in SUBSET File, files' = [files EXCEPT ![pid[s]] = @ \cup g]
      PROVE  files' \in [Pid -> SUBSET File]
  BY <1>5 DEF SessionTypeOK
<1>6. {<<s, "closed">>} \in SUBSET File /\ {<<s, "open">>} \in SUBSET File
  BY DEF File
<1>7. CASE PrepareProfile(s)
  <2>1. files' \in [Pid -> SUBSET File]
    BY <1>5, <1>6, <1>7 DEF PrepareProfile, ProfileOf, SessionTypeOK
  <2> QED BY <1>7, <2>1 DEF PrepareProfile, Goto, SessionTypeOK
<1>8. CASE StartBrowser(s)
  <2>1. files' \in [Pid -> SUBSET File]
    BY <1>5, <1>6, <1>8 DEF StartBrowser, ProfileOf, SessionTypeOK
  <2> QED BY <1>8, <2>1 DEF StartBrowser, Goto, SessionTypeOK
<1>9. CASE BrowserExited(s) \/ StopServer(s) \/ Crash(s)
  BY <1>9, SessionAssumption DEF BrowserExited, StopServer, Crash, Goto, SessionTypeOK
<1>10. CASE TryDelete(s)
  <2>1. PICK left \in SUBSET files[pid[s]] :
          LET inUse == {f \in files[pid[s]] : f[2] = "open" /\ running[f[1]] # {}}
              ok    == left \cup inUse = {}
          IN  /\ files' = [files EXCEPT ![pid[s]] = left \cup inUse]
              /\ removed' = [removed EXCEPT ![s] = IF ok THEN "gone" ELSE "no"]
    BY <1>10 DEF TryDelete, ProfileOf, DeleteResult
  <2>2. files' \in [Pid -> SUBSET File] /\ removed' \in [Session -> {"no", "gone", "unseen"}]
    BY <2>1 DEF SessionTypeOK
  <2>3. tries' \in [Session -> 0 .. MaxTries] /\ pc' \in [Session ->
           {"idle", "confirm", "directory", "profile", "command", "pipe", "spawn",
            "wait", "stop", "delete", "summary", "ended", "crashed"}]
    BY <1>10, SessionAssumption DEF TryDelete, Goto, LastTry, NextTry, SessionTypeOK
  <2> QED BY <1>10, <2>2, <2>3 DEF TryDelete, SessionTypeOK
<1>11. CASE WriteSummary(s) \/ OverlookProfile(s)
  <2>1. CASE OverlookProfile(s)
    <3>1. tries' \in [Session -> 0 .. MaxTries]
      BY <2>1, SessionAssumption DEF OverlookProfile, SessionTypeOK
    <3> QED BY <2>1, <3>1 DEF OverlookProfile, Goto, SessionTypeOK
  <2>2. CASE WriteSummary(s)
    <3>1. PICK text \in {[no |-> "incomplete", gone |-> "complete", unseen |-> "unseen"][removed[s]],
                         "unwritten"} :
             summary' = [summary EXCEPT ![s] = text]
      BY <2>2 DEF WriteSummary
    <3>2. text \in {"complete", "incomplete", "unseen", "unwritten"}
      <4>1. removed[s] \in {"no", "gone", "unseen"}
        BY DEF SessionTypeOK
      <4> QED BY <3>1, <4>1
    <3>3. summary' \in [Session ->
             {"none", "started", "complete", "incomplete", "unseen", "unwritten"}]
      BY <3>1, <3>2 DEF SessionTypeOK
    <3> QED BY <2>2, <3>3 DEF WriteSummary, Goto, SessionTypeOK
  <2> QED BY <1>11, <2>1, <2>2
<1>12. ASSUME NEW q \in Process, ProcessEnds(s, q) PROVE SessionTypeOK'
  BY <1>12 DEF ProcessEnds, SessionTypeOK
<1> QED BY <1>2, <1>3, <1>4, <1>7, <1>8, <1>9, <1>10, <1>11, <1>12 DEF CleanUp

\* A step of a living launcher after its start.
Own(s) ==
    \/ Confirm(s) \/ CreateSession(s) \/ PrepareProfile(s) \/ AllocateCommand(s)
    \/ MakePipe(s) \/ StartBrowser(s) \/ CleanUp(s) \/ OverlookProfile(s) \/ Crash(s)

\* It disturbs no other launcher, and no profile but its own.
Frame(s) ==
    /\ UNCHANGED pid /\ Living(s) /\ pc'[s] # "idle"
    /\ \A u \in Session \ {s} :
          pc'[u] = pc[u] /\ summary'[u] = summary[u] /\ removed'[u] = removed[u]
    /\ \A p \in Pid \ {pid[s]} : files'[p] = files[p]
    /\ \A f \in files'[pid[s]] : f \in files[pid[s]] \/ f[1] = s

LEMMA OwnFrame == ASSUME SessionTypeOK, OwnersInv, NEW s \in Session, Own(s) PROVE Frame(s)
<1>1. pid[s] \in Pid \/ pc[s] = "idle"
  BY DEF SessionTypeOK, OwnersInv
<1>2. CASE Confirm(s) \/ CreateSession(s) \/ AllocateCommand(s) \/ MakePipe(s)
  BY <1>2 DEF Confirm, CreateSession, AllocateCommand, MakePipe, Goto, Frame, Living, Over, SessionTypeOK
<1>3. CASE PrepareProfile(s)
  <2>1. pid[s] \in Pid /\ Living(s)
    BY <1>1, <1>3 DEF PrepareProfile, Goto, Living, Over
  <2>2. files' \in {files, [files EXCEPT ![pid[s]] = @ \cup {<<s, "closed">>}]}
    BY <1>3 DEF PrepareProfile, ProfileOf
  <2> QED BY <1>3, <2>1, <2>2 DEF PrepareProfile, Goto, Frame, SessionTypeOK
<1>4. CASE StartBrowser(s)
  <2>1. pid[s] \in Pid /\ Living(s)
    BY <1>1, <1>4 DEF StartBrowser, Goto, Living, Over
  <2>2. files' \in {files, [files EXCEPT ![pid[s]] = @ \cup {<<s, "open">>}]}
    BY <1>4 DEF StartBrowser, ProfileOf
  <2> QED BY <1>4, <2>1, <2>2 DEF StartBrowser, Goto, Frame, SessionTypeOK
<1>5. CASE BrowserExited(s) \/ StopServer(s) \/ OverlookProfile(s) \/ WriteSummary(s) \/ Crash(s)
  BY <1>5 DEF BrowserExited, StopServer, OverlookProfile, WriteSummary, Crash, Goto, Frame, Living,
              Over, SessionTypeOK
<1>6. CASE TryDelete(s)
  <2>1. pid[s] \in Pid /\ Living(s) /\ UNCHANGED <<pid, summary>>
    BY <1>1, <1>6 DEF TryDelete, Living, Over
  <2>2. PICK G \in SUBSET files[pid[s]] : files' = [files EXCEPT ![pid[s]] = G]
    BY <1>6 DEF TryDelete, ProfileOf
  <2>3. /\ pc'[s] # "idle"
        /\ \A u \in Session \ {s} : pc'[u] = pc[u] /\ removed'[u] = removed[u]
    BY <1>6 DEF TryDelete, Goto, SessionTypeOK
  <2> QED BY <2>1, <2>2, <2>3 DEF Frame, SessionTypeOK
<1> QED BY <1>2, <1>3, <1>4, <1>5, <1>6 DEF Own, CleanUp

\* So what holds of the others goes on holding.
LEMMA OthersKeep ==
  ASSUME SessionInv, NEW s \in Session, Frame(s)
  PROVE  /\ OwnersInv'
         /\ \A u \in Session \ {s} : ProfileKept(u)' /\ SummaryTrue(u)'
<1>1. OwnersInv'
  <2>1. \A u \in Session : (pc[u] = "idle" <=> pid[u] = NoPid) /\ (Living(u)' => Living(u))
                            /\ (pc'[u] = "idle" <=> pc[u] = "idle")
    BY DEF SessionInv, OwnersInv, Frame, Living, Over
  <2>2. ASSUME NEW p \in Pid, NEW f \in File, f \in files'[p] PROVE pid[f[1]] = p
    BY <2>2 DEF SessionInv, OwnersInv, Frame
  <2> QED BY <2>1, <2>2 DEF SessionInv, OwnersInv, Frame
<1>2. ASSUME NEW u \in Session \ {s} PROVE ProfileKept(u)' /\ SummaryTrue(u)'
  <2>1. ProfileKept(u) /\ SummaryTrue(u)
    BY DEF SessionInv
  <2>2. pc'[u] = pc[u] /\ summary'[u] = summary[u] /\ removed'[u] = removed[u] /\ pid' = pid
    BY DEF Frame
  <2>3. Living(u) => files'[pid[u]] = files[pid[u]]
    BY DEF SessionInv, OwnersInv, Frame, Living, Over, SessionTypeOK
  <2>4. ProfileKept(u)'
    BY <2>1, <2>2, <2>3 DEF ProfileKept, Living, Over
  <2>5. NothingLeft(u) => NothingLeft(u)'
    BY DEF NothingLeft, Frame, SessionInv, SessionTypeOK
  <2> QED BY <2>1, <2>2, <2>4, <2>5 DEF SummaryTrue, Silent
<1> QED BY <1>1, <1>2

\* A profile that was emptied holds nothing of its session: its files are nowhere else.
LEMMA EmptiedHoldsNothing ==
  ASSUME SessionTypeOK, OwnersInv, NEW s \in Session, files[pid[s]] = {} PROVE NothingLeft(s)
BY DEF SessionTypeOK, OwnersInv, NothingLeft

LEMMA OwnKept ==
  ASSUME SessionInv, SessionTypeOK', NEW s \in Session, Own(s), OwnersInv'
  PROVE  ProfileKept(s)' /\ SummaryTrue(s)'
<1> USE DEF SessionInv
<1>1. ProfileKept(s) /\ SummaryTrue(s) /\ (pc[s] # "idle" => pid[s] \in Pid)
  BY DEF OwnersInv, SessionTypeOK
<1>2. CASE Confirm(s) \/ CreateSession(s) \/ AllocateCommand(s) \/ MakePipe(s)
  BY <1>1, <1>2 DEF Confirm, CreateSession, AllocateCommand, MakePipe, Goto, ProfileKept,
                    SummaryTrue, NothingLeft, SessionTypeOK
<1>3. CASE PrepareProfile(s)
  <2>1. pc[s] = "profile" /\ UNCHANGED <<pid, summary, removed>> /\ pid[s] \in Pid
    BY <1>1, <1>3 DEF PrepareProfile, Goto
  <2>2. \/ /\ pc' = [pc EXCEPT ![s] = "command"]
           /\ files' = [files EXCEPT ![pid[s]] = @ \cup {<<s, "closed">>}]
        \/ pc' = [pc EXCEPT ![s] = "stop"]
    BY <1>3 DEF PrepareProfile, Goto, ProfileOf
  <2> QED BY <1>1, <2>1, <2>2 DEF ProfileKept, SummaryTrue, SessionTypeOK
<1>4. CASE StartBrowser(s)
  <2>1. pc[s] = "spawn" /\ UNCHANGED <<pid, summary, removed>> /\ pid[s] \in Pid
    BY <1>1, <1>4 DEF StartBrowser, Goto
  <2>2. \/ /\ pc' = [pc EXCEPT ![s] = "wait"]
           /\ files' = [files EXCEPT ![pid[s]] = @ \cup {<<s, "open">>}]
        \/ pc' = [pc EXCEPT ![s] = "stop"]
    BY <1>4 DEF StartBrowser, Goto, ProfileOf
  <2> QED BY <1>1, <2>1, <2>2 DEF ProfileKept, SummaryTrue, SessionTypeOK
<1>5. CASE BrowserExited(s) \/ StopServer(s)
  BY <1>1, <1>5 DEF BrowserExited, StopServer, Goto, ProfileKept, SummaryTrue, SessionTypeOK
<1>6. CASE TryDelete(s)
  <2>1. pc[s] = "delete" /\ UNCHANGED <<pid, summary>> /\ pid[s] \in Pid
    BY <1>1, <1>6 DEF TryDelete
  <2>2. pc' = pc \/ pc' = [pc EXCEPT ![s] = "summary"]
    BY <1>6 DEF TryDelete, Goto
  <2>3. removed'[s] = "gone" => files'[pid[s]] = {}
    BY <1>6, <2>1 DEF TryDelete, ProfileOf, DeleteResult, SessionTypeOK
  <2>4. removed'[s] = "gone" => NothingLeft(s)'
    <3>1. ASSUME removed'[s] = "gone", NEW p \in Pid, NEW f \in files'[p], f[1] = s PROVE FALSE
      <4>1. p = pid'[s]
        BY <3>1 DEF OwnersInv, SessionTypeOK
      <4> QED BY <2>1, <2>3, <3>1, <4>1
    <3> QED BY <3>1 DEF NothingLeft
  <2> QED BY <1>1, <2>1, <2>2, <2>4 DEF ProfileKept, SummaryTrue, SessionTypeOK
<1>7. CASE WriteSummary(s)
  <2>1. NothingLeft(s) => NothingLeft(s)'
    BY <1>7 DEF WriteSummary, NothingLeft
  <2>2. /\ pc[s] = "summary" /\ pc'[s] = "ended" /\ UNCHANGED <<pid, files>>
        /\ removed[s] \in {"no", "gone", "unseen"}
        /\ \/ summary'[s] = "unwritten"
           \/ removed[s] = "no" /\ summary'[s] = "incomplete"
           \/ removed[s] = "gone" /\ summary'[s] = "complete"
           \/ removed[s] = "unseen" /\ summary'[s] = "unseen"
    BY <1>7 DEF WriteSummary, Goto, SessionTypeOK
  <2> QED BY <1>1, <2>1, <2>2 DEF ProfileKept, SummaryTrue, Silent
<1>9. CASE OverlookProfile(s)
  BY <1>1, <1>9 DEF OverlookProfile, Goto, ProfileKept, SummaryTrue, SessionTypeOK
<1>8. CASE Crash(s)
  BY <1>1, <1>8 DEF Crash, ProfileKept, SummaryTrue, SessionTypeOK
<1> QED BY <1>2, <1>3, <1>4, <1>5, <1>6, <1>7, <1>8, <1>9 DEF Own, CleanUp

LEMMA StartKeeps ==
  ASSUME SessionInv, NEW s \in Session, NEW p \in Pid, Start(s, p) PROVE SessionInv'
<1> USE DEF SessionInv
<1>1. /\ pc[s] = "idle" /\ pc' = [pc EXCEPT ![s] = "confirm"] /\ pid' = [pid EXCEPT ![s] = p]
      /\ UNCHANGED <<files, running, tries, removed, summary>>
      /\ \A u \in Session : pid[u] = p => ~Living(u)
  BY DEF Start, Goto, Living
<1>2. SessionTypeOK'
  BY <1>1 DEF SessionTypeOK
<1>3. NothingLeft(s) /\ pid[s] = NoPid
  BY <1>1 DEF SummaryTrue, OwnersInv
<1>4. OwnersInv'
  <2>1. \A u \in Session : pc'[u] = "idle" <=> pid'[u] = NoPid
    BY <1>1, SessionAssumption DEF OwnersInv, SessionTypeOK
  <2>2. \A u, v \in Session : Living(u)' /\ Living(v)' /\ pid'[u] = pid'[v] => u = v
    BY <1>1 DEF OwnersInv, Living, SessionTypeOK
  <2>3. ASSUME NEW q \in Pid, NEW f \in File, f \in files'[q] PROVE pid'[f[1]] = q
    <3>1. f[1] # s /\ f[1] \in Session
      BY <1>1, <1>3, <2>3 DEF NothingLeft, File
    <3> QED BY <1>1, <2>3, <3>1 DEF OwnersInv, SessionTypeOK
  <2> QED BY <2>1, <2>2, <2>3 DEF OwnersInv
<1>5. ASSUME NEW u \in Session PROVE ProfileKept(u)' /\ SummaryTrue(u)'
  <2>1. CASE u = s
    BY <1>1, <1>3, <2>1 DEF ProfileKept, SummaryTrue, NothingLeft, Silent, SessionTypeOK
  <2>2. CASE u # s
    BY <1>1, <2>2 DEF ProfileKept, SummaryTrue, NothingLeft, Silent, SessionTypeOK
  <2> QED BY <2>1, <2>2
<1> QED BY <1>2, <1>4, <1>5

LEMMA Invariance == SessionSpec => []SessionInv
<1>1. SessionInit => SessionInv
  BY SessionAssumption
     DEF SessionInit, SessionInv, SessionTypeOK, OwnersInv, ProfileKept, SummaryTrue, NothingLeft, Living, Over
<1>2. SessionInv /\ [SessionNext]_sessionVars => SessionInv'
  <2> SUFFICES ASSUME SessionInv, [SessionNext]_sessionVars PROVE SessionInv'
    OBVIOUS
  <2>1. SessionTypeOK'
    BY TypeStep DEF SessionInv
  <2>2. ASSUME UNCHANGED <<pc, pid, files, removed, summary>> PROVE SessionInv'
    BY <2>1, <2>2 DEF SessionInv, OwnersInv, ProfileKept, SummaryTrue, NothingLeft, Silent, Living
  <2>3. ASSUME NEW s \in Session, Own(s) PROVE SessionInv'
    BY <2>1, <2>3, OwnFrame, OthersKeep, OwnKept DEF SessionInv
  <2>4. ASSUME NEW s \in Session, NEW q \in Process, ProcessEnds(s, q) PROVE SessionInv'
    BY <2>2, <2>4 DEF ProcessEnds
  <2> QED BY <2>2, <2>3, <2>4, StartKeeps DEF SessionNext, Own, sessionVars
<1> QED BY <1>1, <1>2, PTL DEF SessionSpec
----------------------------------------------------------------------------
\* Removing a profile takes nothing from a browser that runs under a living launcher
\* (launcher:921, 970-977): no two living launchers have one process id.
THEOREM RunningKeepsProfileHolds == SessionSpec => []RunningKeepsProfile
<1>1. SessionInv => RunningKeepsProfile
  <2> SUFFICES ASSUME SessionInv, NEW s \in Session, pc[s] = "wait"
               PROVE  {s} \X {"open", "closed"} \subseteq files[pid[s]]
    BY DEF RunningKeepsProfile, ProfileOf
  <2>1. {<<s, "open">>, <<s, "closed">>} \subseteq files[pid[s]]
    BY DEF SessionInv, ProfileKept
  <2> QED BY <2>1
<1> QED BY <1>1, Invariance, PTL

\* A session that left something says so, and what a later browser finds in its profile
\* is explained by a crash or by such a summary; nothing but the two silent failures,
\* of the look at the profile and of the append to the summary, makes an exception
\* (launcher:158-225, 257-263, 559-575, 970-1001).
THEOREM LeftoversAreToldHolds == SessionSpec => []LeftoversAreTold
<1>1. SessionInv => SummaryTellsCleanup
  BY DEF SessionInv, SummaryTrue, SummaryTellsCleanup
<1>2. SessionInv => LeftoversExplained
  <2> SUFFICES ASSUME SessionInv, NEW s \in Session, NEW t \in Session, pc[s] = "wait", t # s,
                      NEW f \in files[pid[s]], f[1] = t
               PROVE  pc[t] = "crashed" \/ summary[t] = "incomplete" \/ Silent(t)
    BY DEF LeftoversExplained, ProfileOf
  <2>1. pid[s] \in Pid /\ pid[t] = pid[s]
    BY DEF SessionInv, OwnersInv, SessionTypeOK
  <2>2. ~Living(t) /\ pc[t] # "idle"
    BY <2>1, SessionAssumption DEF SessionInv, OwnersInv, Living, Over
  <2>3. ~NothingLeft(t)
    BY <2>1 DEF NothingLeft
  <2> QED BY <2>2, <2>3 DEF SessionInv, SummaryTrue, Living, Over
<1> QED BY <1>1, <1>2, Invariance, PTL DEF LeftoversAreTold

(***************************************************************************)
(* BrowserTrace: the reader keeps an event for every piece of the text     *)
(* that names a category, whatever the browser writes and however the      *)
(* pipe hands it over, for buffers, reads and limits of any size.          *)
(***************************************************************************)

\* The characters of a line that fit into the buffer beside the last place.
Width == LineSize - 2

\* A piece is at most Width characters long, the buffer less its last two
\* places.
LEMMA WidthIs == Width \in Nat /\ Width >= 1 /\ LineSize = Width + 2
BY TraceAssumption DEF Width

\* Which whole multiple of w a number lies above.
LEMMA Quotient ==
  ASSUME NEW w \in Nat, w >= 1, NEW q \in Nat, NEW x \in Nat, q * w <= x, x < q * w + w
  PROVE  x \div w = q
BY SMTT(30)

\* And which it does not.
LEMMA NotBelow ==
  ASSUME NEW w \in Nat, w >= 1, NEW q \in Nat, NEW x \in Nat, x < q * w
  PROVE  x \div w # q
<1>1. x \div w \in Int /\ x % w \in 0 .. w - 1 /\ x = (x \div w) * w + (x % w)
  BY SMTT(30)
<1> QED BY <1>1, SMTT(30)

\* The line ends among the first i characters.
Ends(t, i) == {0} \cup {j \in 1 .. i : t[j] = "nl"}

\* LineStart is the last line end up to i, or 0.
LEMMA StartIs ==
  ASSUME NEW t, NEW i \in Nat
  PROVE  /\ LineStart(t, i) \in Ends(t, i) /\ LineStart(t, i) \in 0 .. i
         /\ \A j \in Ends(t, i) : LineStart(t, i) >= j
<1> DEFINE T == Ends(t, i)
<1>1. T \subseteq 0 .. i /\ T # {}
  BY DEF Ends
<1>2. LineStart(t, i) = Max(T)
  BY DEF LineStart, Ends
<1> HIDE DEF T
<1>3. \E x \in T : \A y \in T : x >= y
  BY <1>1, Greatest
<1>4. Max(T) \in T /\ \A y \in T : Max(T) >= y
  BY <1>3 DEF Max
<1> QED BY <1>1, <1>2, <1>4 DEF T

\* A line end starts a line.
LEMMA StartAtEnd ==
  ASSUME NEW t, NEW i \in Nat, i >= 1, t[i] = "nl"
  PROVE  LineStart(t, i) = i
<1>1. i \in Ends(t, i)
  BY DEF Ends
<1> QED BY <1>1, StartIs

\* Any other character goes on with the line.
LEMMA StartGoesOn ==
  ASSUME NEW t, NEW i \in Nat, i >= 1, t[i] # "nl"
  PROVE  LineStart(t, i) = LineStart(t, i - 1)
<1>1. \A j \in 1 .. i : t[j] = "nl" => j \in 1 .. i - 1
  OBVIOUS
<1>2. {j \in 1 .. i : t[j] = "nl"} = {j \in 1 .. i - 1 : t[j] = "nl"}
  BY <1>1
<1> QED BY <1>2 DEF LineStart

\* The places of the current line whose characters are put into the buffer.
InLine(t, i) == {j \in LineStart(t, i) + 1 .. i : t[j] # "cr"}

\* Column counts the characters of the line up to i, carriage returns apart.
LEMMA ColumnIs ==
  ASSUME NEW t, NEW i \in Nat
  PROVE  /\ InLine(t, i) \subseteq 1 .. i /\ IsFiniteSet(InLine(t, i))
         /\ Column(t, i) = Cardinality(InLine(t, i)) /\ Column(t, i) \in Nat
<1>1. LineStart(t, i) \in 0 .. i
  BY StartIs
<1>2. InLine(t, i) \subseteq 1 .. i
  BY <1>1 DEF InLine
<1>3. IsFiniteSet(1 .. i)
  BY FS_Interval
<1>4. IsFiniteSet(InLine(t, i))
  BY <1>2, <1>3, FS_Subset
<1>5. Column(t, i) = Cardinality(InLine(t, i))
  BY DEF Column, InLine
<1> QED BY <1>2, <1>4, <1>5, FS_CardinalityType

\* A line end has no column.
LEMMA ColumnAtEnd ==
  ASSUME NEW t, NEW i \in Nat, i >= 1, t[i] = "nl"
  PROVE  Column(t, i) = 0
<1>1. LineStart(t, i) = i
  BY StartAtEnd
<1>2. InLine(t, i) = {}
  BY <1>1 DEF InLine
<1> QED BY <1>2, ColumnIs, FS_EmptySet

\* Nor has the beginning of the text.
LEMMA ColumnAtZero == ASSUME NEW t PROVE Column(t, 0) = 0
<1>1. InLine(t, 0) = {}
  BY ColumnIs
<1> QED BY <1>1, ColumnIs, FS_EmptySet

\* A character of the line moves the column by one, a carriage return not at
\* all.
LEMMA ColumnGoesOn ==
  ASSUME NEW t, NEW i \in Nat, i >= 1, t[i] # "nl"
  PROVE  Column(t, i) = IF t[i] = "cr" THEN Column(t, i - 1) ELSE Column(t, i - 1) + 1
<1>1. i - 1 \in Nat /\ LineStart(t, i) = LineStart(t, i - 1) /\ LineStart(t, i) \in 0 .. i - 1
  BY StartGoesOn, StartIs
<1> DEFINE L == LineStart(t, i)
<1>2. L + 1 .. i = (L + 1 .. i - 1) \cup {i} /\ i \notin L + 1 .. i - 1
  BY <1>1
<1>3. CASE t[i] = "cr"
  <2>1. InLine(t, i) = InLine(t, i - 1)
    BY <1>1, <1>2, <1>3 DEF InLine
  <2> QED BY <1>1, <1>3, <2>1, ColumnIs
<1>4. CASE t[i] # "cr"
  <2>1. InLine(t, i) = InLine(t, i - 1) \cup {i} /\ i \notin InLine(t, i - 1)
    BY <1>1, <1>2, <1>4 DEF InLine
  <2>2. /\ Column(t, i) = Cardinality(InLine(t, i))
        /\ IsFiniteSet(InLine(t, i - 1)) /\ Column(t, i - 1) = Cardinality(InLine(t, i - 1))
    BY <1>1, ColumnIs
  <2>3. Cardinality(InLine(t, i - 1) \cup {i}) = Cardinality(InLine(t, i - 1)) + 1
    BY <2>1, <2>2, FS_AddElement
  <2> QED BY <1>4, <2>1, <2>2, <2>3
<1> QED BY <1>3, <1>4

\* Along a line the column never falls.
LEMMA ColumnGrows ==
  ASSUME NEW t, NEW i \in Nat, NEW j \in Nat, j <= i, LineStart(t, j) = LineStart(t, i)
  PROVE  Column(t, j) <= Column(t, i)
<1>1. LineStart(t, j) \in 0 .. j
  BY StartIs
<1>2. InLine(t, j) \subseteq InLine(t, i)
  BY <1>1 DEF InLine
<1> QED BY <1>2, ColumnIs, FS_Subset

\* A category is named by a character that counts.
LEMMA ColumnOfEvent ==
  ASSUME NEW t, NEW i \in Nat, i >= 1, t[i] = "event"
  PROVE  Column(t, i) >= 1
<1>1. i - 1 \in Nat /\ Column(t, i) = Column(t, i - 1) + 1
  BY ColumnGoesOn
<1> QED BY <1>1, ColumnIs

\* A piece is named by its line and its number in the line.
LEMMA PieceIs ==
  ASSUME NEW t, NEW i \in Nat, NEW q \in Nat, NEW r \in 1 .. Width, Column(t, i) = q * Width + r
  PROVE  Piece(t, i) = <<LineStart(t, i), q>>
<1> DEFINE c == Column(t, i) - 1
           p == q * Width
<1>1. Width \in Nat /\ Width >= 1 /\ p \in Nat
  BY WidthIs
<1>2. c = p + (r - 1) /\ c \in Nat
  BY <1>1
<1>3. p <= c /\ c < p + Width
  <2> HIDE DEF c, p
  <2> QED BY <1>1, <1>2
<1>4. c \div Width = q
  <2> HIDE DEF c
  <2> QED BY <1>1, <1>2, <1>3, Quotient
<1> QED BY <1>4 DEF Piece, Width

\* The pieces with an event up to k are those up to k - 1, and the one of k
\* if k names a category.
LEMMA EventsGoOn ==
  ASSUME NEW t, NEW i \in Nat, i >= 1
  PROVE  Events(t, i) = IF t[i] = "event" THEN Events(t, i - 1) \cup {Piece(t, i)} ELSE Events(t, i - 1)
<1>1. 1 .. i = (1 .. i - 1) \cup {i}
  OBVIOUS
<1>2. CASE t[i] = "event"
  <2>1. {j \in 1 .. i : t[j] = "event"} = {j \in 1 .. i - 1 : t[j] = "event"} \cup {i}
    BY <1>1, <1>2
  <2> QED BY <1>2, <2>1 DEF Events
<1>3. CASE t[i] # "event"
  <2>1. {j \in 1 .. i : t[j] = "event"} = {j \in 1 .. i - 1 : t[j] = "event"}
    BY <1>1, <1>3
  <2> QED BY <1>3, <2>1 DEF Events
<1> QED BY <1>2, <1>3

\* A piece that begins after a full one, or with a line, is not one of those before.
LEMMA PieceIsNew ==
  ASSUME NEW t, NEW i \in Nat, i >= 1, t[i] # "nl", NEW q \in Nat, Column(t, i - 1) = q * Width
  PROVE  <<LineStart(t, i), q>> \notin Events(t, i - 1)
<1> SUFFICES ASSUME NEW j \in 1 .. i - 1, t[j] = "event", Piece(t, j) = <<LineStart(t, i), q>>
             PROVE  FALSE
  BY DEF Events
<1>1. i - 1 \in Nat /\ j \in Nat /\ j >= 1 /\ j <= i - 1
  OBVIOUS
<1>2. LineStart(t, j) = LineStart(t, i - 1) /\ (Column(t, j) - 1) \div Width = q
  BY StartGoesOn DEF Piece, Width
<1>3. Column(t, j) <= q * Width
  BY <1>1, <1>2, ColumnGrows
<1>4. Column(t, j) \in Nat /\ Column(t, j) >= 1
  BY <1>1, ColumnIs, ColumnOfEvent
<1> DEFINE c == Column(t, j) - 1
           p == q * Width
<1>5. c \in Nat /\ c < p
  <2>1. p \in Nat
    BY WidthIs
  <2> HIDE DEF p
  <2>2. Column(t, j) <= p
    BY <1>3 DEF p
  <2> QED BY <1>4, <2>1, <2>2
<1> HIDE DEF c
<1>6. c \div Width # q
  BY <1>5, WidthIs, NotBelow
<1> QED BY <1>2, <1>6 DEF c

\* What is retained of a finite set of pieces.
LEMMA RetainedIs ==
  ASSUME NEW E, IsFiniteSet(E)
  PROVE  /\ Retained(E) \in Nat
         /\ Retained(E) = IF Cardinality(E) < EventLimit THEN Cardinality(E) ELSE EventLimit
<1>1. Cardinality(E) \in Nat /\ EventLimit \in Nat
  BY FS_CardinalityType, TraceAssumption
<1> DEFINE c == Cardinality(E)
<1>2. Retained(E) = Min({EventLimit, c})
  BY DEF Retained
<1> HIDE DEF c
<1>3. c \in Nat
  BY <1>1 DEF c
<1>4. Min({EventLimit, c}) = IF c < EventLimit THEN c ELSE EventLimit
  BY <1>1, <1>3 DEF Min
<1> QED BY <1>1, <1>2, <1>4 DEF c

\* One more event is retained unless the limit is reached.
LEMMA RetainedGrows ==
  ASSUME NEW E, IsFiniteSet(E), NEW p, p \notin E
  PROVE  IsFiniteSet(E \cup {p}) /\ Retained(E \cup {p}) = KeptAfter(Retained(E), TRUE)
<1> DEFINE F == E \cup {p}
<1>1. IsFiniteSet(F) /\ Cardinality(F) = Cardinality(E) + 1
  BY FS_AddElement
<1>2. Cardinality(E) \in Nat /\ EventLimit \in Nat
  BY FS_CardinalityType, TraceAssumption
<1> HIDE DEF F
<1>3. Retained(F) = IF Cardinality(F) < EventLimit THEN Cardinality(F) ELSE EventLimit
  BY <1>1, RetainedIs
<1>4. Retained(E) = IF Cardinality(E) < EventLimit THEN Cardinality(E) ELSE EventLimit
  BY RetainedIs
<1>5. Retained(F) = KeptAfter(Retained(E), TRUE)
  BY <1>1, <1>2, <1>3, <1>4 DEF KeptAfter
<1> QED BY <1>1, <1>5 DEF F

\* What the buffer and the counters can be.
BufferState == [used : 0 .. Width, hot : BOOLEAN, seen : Nat, kept : Nat]

\* What the reader's variables say after the first k characters of t.
Scanned(s, t, k) ==
    /\ IsFiniteSet(Events(t, k))
    /\ \E q \in Nat : Column(t, k) = q * Width + s.used
    /\ s.used = 0 => s.hot = FALSE /\ s.kept = Retained(Events(t, k))
    /\ s.used # 0 => /\ s.hot = (Piece(t, k) \in Events(t, k))
                     /\ s.kept = Retained(Events(t, k) \ {Piece(t, k)})

\* Cutting the buffer finishes its piece.
LEMMA CutIs ==
  ASSUME NEW s \in BufferState, NEW t, NEW k \in Nat, Scanned(s, t, k)
  PROVE  /\ Cut(s) \in BufferState
         /\ Cut(s).used = 0 /\ Cut(s).hot = FALSE /\ Cut(s).kept = Retained(Events(t, k))
<1> DEFINE E == Events(t, k)
           p == Piece(t, k)
<1>1. /\ IsFiniteSet(E)
      /\ s.used = 0 => s.hot = FALSE /\ s.kept = Retained(E)
      /\ s.used # 0 => s.hot = (p \in E) /\ s.kept = Retained(E \ {p})
  BY DEF Scanned
<1>2. s.hot \in BOOLEAN /\ s.seen \in Nat /\ s.kept \in Nat /\ s.used \in 0 .. Width /\ 0 \in 0 .. Width
  BY WidthIs DEF BufferState
<1> HIDE DEF E, p
<1>3. KeptAfter(s.kept, s.hot) = Retained(E)
  <2>1. CASE s.hot = FALSE
    <3>1. E \ {p} = E \/ s.used = 0
      BY <1>1, <2>1
    <3>2. s.kept = Retained(E)
      BY <1>1, <3>1
    <3> QED BY <2>1, <3>2 DEF KeptAfter
  <2>2. CASE s.hot = TRUE
    <3>1. p \in E /\ s.kept = Retained(E \ {p})
      BY <1>1, <2>2
    <3>2. (E \ {p}) \cup {p} = E /\ p \notin E \ {p}
      BY <3>1
    <3>3. IsFiniteSet(E \ {p})
      BY <1>1, FS_RemoveElement
    <3>4. Retained((E \ {p}) \cup {p}) = KeptAfter(Retained(E \ {p}), TRUE)
      BY <3>2, <3>3, RetainedGrows
    <3> QED BY <2>2, <3>1, <3>2, <3>4
  <2> QED BY <1>2, <2>1, <2>2
<1>4. Retained(E) \in Nat
  BY <1>1, RetainedIs
<1>5. Cut(s) = [used |-> 0, hot |-> FALSE, seen |-> s.seen + 1, kept |-> Retained(E)]
  BY <1>3 DEF Cut
<1>6. s.seen + 1 \in Nat
  BY <1>2
<1> QED BY <1>2, <1>4, <1>5, <1>6 DEF E, BufferState

\* A line end.
LEMMA EndStep ==
  ASSUME NEW s \in BufferState, NEW t, NEW k \in Nat, k >= 1, t[k] = "nl", Scanned(s, t, k - 1)
  PROVE  Consume(s, t[k]) \in BufferState /\ Scanned(Consume(s, t[k]), t, k)
<1> DEFINE r == Cut(s)
<1>1. Consume(s, t[k]) = r
  BY DEF Consume
<1>2. r \in BufferState /\ r.used = 0 /\ r.hot = FALSE /\ r.kept = Retained(Events(t, k - 1))
  <2>1. k - 1 \in Nat
    OBVIOUS
  <2> QED BY <2>1, CutIs
<1>3. Events(t, k) = Events(t, k - 1)
  BY EventsGoOn
<1>4. Column(t, k) = 0 * Width + 0
  <2>1. 0 * Width + 0 = 0
    BY WidthIs
  <2> QED BY <2>1, ColumnAtEnd
<1>5. IsFiniteSet(Events(t, k))
  BY <1>3 DEF Scanned
<1> HIDE DEF r
<1>6. Scanned(r, t, k)
  BY <1>2, <1>3, <1>4, <1>5 DEF Scanned
<1> QED BY <1>1, <1>2, <1>6

\* A full buffer is cut before a character of the line: what it held was one piece.
LEMMA FullStep ==
  ASSUME NEW s \in BufferState, NEW t, NEW k \in Nat, Scanned(s, t, k)
  PROVE  \E r \in BufferState :
            /\ r = IF Full(s.used) THEN Cut(s) ELSE s
            /\ Scanned(r, t, k) /\ r.used # Width
<1>0. s.used \in 0 .. Width /\ Width >= 1 /\ Width \in Nat
  BY WidthIs DEF BufferState
<1>1. Full(s.used) <=> s.used = Width
  BY <1>0, WidthIs DEF Full
<1>2. CASE s.used # Width
  BY <1>1, <1>2
<1>3. CASE s.used = Width
  <2> DEFINE r == Cut(s)
  <2>1. r \in BufferState /\ r.used = 0 /\ r.hot = FALSE /\ r.kept = Retained(Events(t, k))
    BY CutIs
  <2>2. PICK q \in Nat : Column(t, k) = q * Width + Width
    BY <1>3 DEF Scanned
  <2>3. Column(t, k) = (q + 1) * Width + 0 /\ q + 1 \in Nat
    BY <1>0, <2>2
  <2>4. IsFiniteSet(Events(t, k))
    BY DEF Scanned
  <2>5. r = IF Full(s.used) THEN Cut(s) ELSE s
    BY <1>1, <1>3
  <2> HIDE DEF r
  <2>6. Scanned(r, t, k)
    BY <2>1, <2>3, <2>4 DEF Scanned
  <2>7. r.used # Width
    BY <1>0, <2>1
  <2> QED BY <2>1, <2>5, <2>6, <2>7
<1> QED BY <1>2, <1>3

\* A carriage return is dropped.
LEMMA ReturnStep ==
  ASSUME NEW r \in BufferState, NEW t, NEW k \in Nat, k >= 1, t[k] = "cr", Scanned(r, t, k - 1)
  PROVE  Scanned(r, t, k)
<1>1. Events(t, k) = Events(t, k - 1)
  BY EventsGoOn
<1>2. Column(t, k) = Column(t, k - 1) /\ LineStart(t, k) = LineStart(t, k - 1)
  BY ColumnGoesOn, StartGoesOn
<1>3. Piece(t, k) = Piece(t, k - 1)
  BY <1>2 DEF Piece
<1> QED BY <1>1, <1>2, <1>3 DEF Scanned

\* A character is put into the buffer, which is not full.
LEMMA PutStep ==
  ASSUME NEW r \in BufferState, NEW t, NEW k \in Nat, k >= 1, t[k] \in {"event", "plain"},
         Scanned(r, t, k - 1), r.used # Width,
         NEW x, x = [r EXCEPT !.used = @ + 1, !.hot = @ \/ t[k] = "event"]
  PROVE  x \in BufferState /\ Scanned(x, t, k)
<1>0. /\ r.used \in 0 .. Width /\ r.hot \in BOOLEAN /\ r.seen \in Nat /\ r.kept \in Nat
      /\ r = [used |-> r.used, hot |-> r.hot, seen |-> r.seen, kept |-> r.kept]
      /\ Width \in Nat
  BY WidthIs DEF BufferState
<1>1. x = [used |-> r.used + 1, hot |-> (r.hot \/ t[k] = "event"), seen |-> r.seen, kept |-> r.kept]
  BY <1>0
<1>2. /\ x.used = r.used + 1 /\ x.used \in 1 .. Width /\ x.hot \in BOOLEAN
      /\ x.hot = (r.hot \/ t[k] = "event") /\ x.seen \in Nat /\ x.kept = r.kept
  BY <1>0, <1>1
<1>3. x \in BufferState
  <2> DEFINE h == r.hot \/ t[k] = "event"
  <2>1. x = [used |-> x.used, hot |-> h, seen |-> r.seen, kept |-> r.kept]
    BY <1>1
  <2>2. h \in BOOLEAN /\ x.used \in 0 .. Width
    BY <1>0, <1>2
  <2> HIDE DEF h
  <2> QED BY <1>0, <2>1, <2>2 DEF BufferState
<1> DEFINE E == Events(t, k - 1)
           F == Events(t, k)
           p == Piece(t, k)
<1>4. PICK q \in Nat : Column(t, k - 1) = q * Width + r.used
  BY DEF Scanned
<1>5. Column(t, k) = q * Width + x.used
  <2>1. Column(t, k) = Column(t, k - 1) + 1
    BY ColumnGoesOn
  <2> DEFINE m == q * Width
  <2>2. m \in Nat
    BY <1>0
  <2>3. Column(t, k - 1) = m + r.used
    BY <1>4
  <2> HIDE DEF m
  <2>4. Column(t, k) = m + x.used
    BY <1>0, <1>2, <2>1, <2>2, <2>3
  <2> QED BY <2>4 DEF m
<1>6. p = <<LineStart(t, k), q>>
  BY <1>2, <1>5, PieceIs
<1>7. F = (IF t[k] = "event" THEN E \cup {p} ELSE E) /\ IsFiniteSet(E)
  BY EventsGoOn DEF Scanned
<1>8. IsFiniteSet(F)
  BY <1>7, FS_AddElement
<1>9. x.hot = (p \in F) /\ x.kept = Retained(F \ {p})
  <2>1. CASE r.used = 0
    <3>1. r.hot = FALSE /\ r.kept = Retained(E)
      BY <2>1 DEF Scanned
    <3>2. Column(t, k - 1) = q * Width
      <4> DEFINE m == q * Width
      <4>1. m \in Nat /\ Column(t, k - 1) = m + 0
        BY <1>0, <1>4, <2>1
      <4> HIDE DEF m
      <4>2. Column(t, k - 1) = m
        BY <4>1
      <4> QED BY <4>2 DEF m
    <3>3. p \notin E
      BY <1>6, <3>2, PieceIsNew
    <3> HIDE DEF E, F, p
    <3>4. F \ {p} = E /\ (p \in F <=> t[k] = "event")
      BY <1>7, <3>3
    <3>5. x.kept = Retained(F \ {p})
      BY <1>2, <3>1, <3>4
    <3>6. x.hot = (t[k] = "event")
      BY <1>2, <3>1, Zenon
    <3>7. CASE p \in F
      BY <3>4, <3>5, <3>6, <3>7, Zenon
    <3>8. CASE p \notin F
      <4>1. ~x.hot
        BY <3>4, <3>6, <3>8
      <4>2. x.hot \in BOOLEAN
        BY <1>2
      <4>3. x.hot = FALSE
        BY <4>1, <4>2
      <4>4. (p \in F) = FALSE
        BY <3>8
      <4> QED BY <3>5, <4>3, <4>4
    <3> QED BY <3>7, <3>8, Zenon
  <2>2. CASE r.used # 0
    <3>1. Piece(t, k - 1) = <<LineStart(t, k - 1), q>>
      <4>1. r.used \in 1 .. Width /\ k - 1 \in Nat
        BY <1>0, <2>2
      <4> QED BY <1>4, <4>1, PieceIs
    <3>2. Piece(t, k - 1) = p
      BY <1>6, <3>1, StartGoesOn
    <3>3. r.hot = (p \in E) /\ r.kept = Retained(E \ {p})
      BY <2>2, <3>2 DEF Scanned
    <3> HIDE DEF E, F, p
    <3>4. F \ {p} = E \ {p} /\ (p \in F <=> p \in E \/ t[k] = "event")
      BY <1>7
    <3>5. x.kept = Retained(F \ {p})
      BY <1>2, <3>3, <3>4
    <3>6. x.hot = (p \in E \/ t[k] = "event")
      BY <1>2, <3>3, Zenon
    <3>7. CASE p \in F
      BY <3>4, <3>5, <3>6, <3>7, Zenon
    <3>8. CASE p \notin F
      <4>1. ~x.hot
        BY <3>4, <3>6, <3>8
      <4>2. x.hot \in BOOLEAN
        BY <1>2
      <4>3. x.hot = FALSE
        BY <4>1, <4>2
      <4>4. (p \in F) = FALSE
        BY <3>8
      <4> QED BY <3>5, <4>3, <4>4
    <3> QED BY <3>7, <3>8, Zenon
  <2> QED BY <2>1, <2>2
<1>10. x.used # 0
  BY <1>2
<1> QED BY <1>3, <1>5, <1>8, <1>9, <1>10 DEF Scanned

\* So the buffer stays a scan of the text, whichever character comes.
LEMMA ConsumeStep ==
  ASSUME NEW s \in BufferState, NEW t, NEW k \in Nat, k >= 1, t[k] \in Char, Scanned(s, t, k - 1)
  PROVE  Consume(s, t[k]) \in BufferState /\ Scanned(Consume(s, t[k]), t, k)
<1>1. CASE t[k] = "nl"
  BY <1>1, EndStep
<1>2. CASE t[k] # "nl"
  <2>1. PICK r \in BufferState : r = (IF Full(s.used) THEN Cut(s) ELSE s)
                                 /\ Scanned(r, t, k - 1) /\ r.used # Width
    <3>1. k - 1 \in Nat
      OBVIOUS
    <3> QED BY <3>1, FullStep
  <2>2. CASE t[k] = "cr"
    <3>1. Consume(s, t[k]) = r
      BY <2>1, <2>2 DEF Consume
    <3> QED BY <2>1, <2>2, <3>1, ReturnStep
  <2>3. CASE t[k] # "cr"
    <3>1. t[k] \in {"event", "plain"}
      BY <1>2, <2>3 DEF Char
    <3>2. Consume(s, t[k]) = [r EXCEPT !.used = @ + 1, !.hot = @ \/ t[k] = "event"]
      BY <2>1, <3>1 DEF Consume
    <3> QED BY <2>1, <3>1, <3>2, PutStep
  <2> QED BY <2>2, <2>3
<1> QED BY <1>1, <1>2

\* A character leaves a buffer with values of their types.
LEMMA ConsumeClosed ==
  ASSUME NEW s \in BufferState, NEW c \in Char
  PROVE  Consume(s, c) \in BufferState
<1>1. /\ s.used \in 0 .. Width /\ s.hot \in BOOLEAN /\ s.seen \in Nat /\ s.kept \in Nat
      /\ s = [used |-> s.used, hot |-> s.hot, seen |-> s.seen, kept |-> s.kept]
      /\ Width \in Nat /\ Width >= 1
  BY WidthIs DEF BufferState
<1>2. Cut(s) \in BufferState /\ Cut(s).used = 0
  <2>1. KeptAfter(s.kept, s.hot) \in Nat
    BY <1>1 DEF KeptAfter
  <2> DEFINE k == KeptAfter(s.kept, s.hot)
  <2>2. Cut(s) = [used |-> 0, hot |-> FALSE, seen |-> s.seen + 1, kept |-> k]
    BY DEF Cut
  <2> HIDE DEF k
  <2>3. s.seen + 1 \in Nat /\ k \in Nat
    BY <1>1, <2>1 DEF k
  <2> QED BY <1>1, <2>2, <2>3 DEF BufferState
<1> DEFINE r == IF c = "nl" \/ Full(s.used) THEN Cut(s) ELSE s
<1>3. r \in BufferState
  BY <1>2
<1>4. CASE c \in {"nl", "cr"}
  BY <1>3, <1>4 DEF Consume
<1>5. CASE c \notin {"nl", "cr"}
  <2>1. r.used + 1 \in 0 .. Width
    <3>1. CASE Full(s.used)
      BY <1>1, <1>2, <3>1
    <3>2. CASE ~Full(s.used)
      <4>1. ~(s.used + 2 >= Width + 2)
        BY <3>2, WidthIs DEF Full
      <4>2. r = s
        BY <1>5, <3>2
      <4> HIDE DEF r
      <4> QED BY <1>1, <4>1, <4>2
    <3> QED BY <3>1, <3>2
  <2> DEFINE h == r.hot \/ c = "event"
  <2>2. Consume(s, c) = [r EXCEPT !.used = @ + 1, !.hot = @ \/ c = "event"]
    BY <1>5 DEF Consume
  <2> HIDE DEF r
  <2>3. r = [used |-> r.used, hot |-> r.hot, seen |-> r.seen, kept |-> r.kept]
        /\ r.seen \in Nat /\ r.kept \in Nat
    BY <1>3 DEF BufferState
  <2>4. Consume(s, c) = [used |-> r.used + 1, hot |-> h, seen |-> r.seen, kept |-> r.kept]
    BY <2>2, <2>3
  <2>5. h \in BOOLEAN
    OBVIOUS
  <2> HIDE DEF h
  <2> QED BY <2>1, <2>3, <2>4, <2>5 DEF BufferState
<1> QED BY <1>4, <1>5

\* A read is a run of Consume over the characters that were read.
LEMMA ScanRuns ==
  ASSUME NEW u \in Seq(Char), NEW s \in BufferState
  PROVE  \E v \in [0 .. Len(u) -> BufferState] :
            /\ v[0] = s
            /\ \A k \in 1 .. Len(u) : v[k] = Consume(v[k - 1], u[k])
            /\ Scan(s, u) = v[Len(u)]
<1> DEFINE g == [p \in BufferState \X (1 .. Len(u)) |-> Consume(p[1], u[p[2]])]
           Step(v) == [k \in 0 .. Len(u) |-> IF k = 0 THEN s ELSE Consume(v[k - 1], u[k])]
<1>0. Len(u) \in Nat /\ \A k \in 1 .. Len(u) : u[k] \in Char
  OBVIOUS
<1>2. \A r \in BufferState, k \in 1 .. Len(u) : g[<<r, k>>] = Consume(r, u[k])
  BY <1>0
<1>3. g \in [BufferState \X (1 .. Len(u)) -> BufferState]
  BY <1>0, ConsumeClosed
<1>4. PICK f \in [0 .. Len(u) -> BufferState] : IsRun(f, Len(u), s, g)
  <2> DEFINE n == Len(u)
  <2>1. n \in Nat /\ g \in [BufferState \X (1 .. n) -> BufferState]
    BY <1>0, <1>3
  <2> HIDE DEF g, n
  <2> QED BY <2>1, Recursion DEF n
<1>5. ASSUME NEW k \in 1 .. Len(u) PROVE f[k] = Consume(f[k - 1], u[k])
  <2>1. k - 1 \in 0 .. Len(u)
    BY <1>0
  <2> HIDE DEF g
  <2> QED BY <1>2, <1>4, <2>1 DEF IsRun
<1>6. f[0] = s
  BY <1>4 DEF IsRun
<1>7. f = Step(f)
  BY <1>0, <1>4, <1>5, <1>6
<1> DEFINE v == CHOOSE v : v = Step(v)
<1>8. v = Step(v)
  BY <1>7
<1>9. Scan(s, u) = v[Len(u)]
  BY DEF Scan
<1> HIDE DEF v
<1>10. v[0] = s /\ \A k \in 1 .. Len(u) : v[k] = Consume(v[k - 1], u[k])
  BY <1>0, <1>8
<1>11. v \in [0 .. Len(u) -> BufferState]
  <2> DEFINE P == {k \in 0 .. Len(u) : v[k] \in BufferState}
  <2>1. 0 \in P
    BY <1>0, <1>10
  <2>2. ASSUME NEW k \in 1 .. Len(u), k - 1 \in P PROVE k \in P
    <3>1. v[k] = Consume(v[k - 1], u[k]) /\ v[k - 1] \in BufferState /\ u[k] \in Char
      BY <1>0, <1>10, <2>2
    <3> QED BY <1>0, <3>1, ConsumeClosed
  <2> DEFINE n == Len(u)
  <2>3. n \in Nat /\ \A k \in 1 .. n : k - 1 \in P => k \in P
    BY <1>0, <2>2
  <2> HIDE DEF P, n
  <2>4. \A k \in 0 .. n : k \in P
    BY <2>1, <2>3, Induction
  <2>5. \A k \in 0 .. Len(u) : v[k] \in BufferState
    BY <2>4 DEF P, n
  <2> QED BY <1>8, <2>5
<1> QED BY <1>9, <1>10, <1>11

\* A scan of the first taken characters becomes, by a read of n more, a scan
\* of taken + n.
LEMMA ScanStep ==
  ASSUME NEW t \in Seq(Char), NEW k \in Nat, NEW n \in Nat, k + n <= Len(t),
         NEW s \in BufferState, Scanned(s, t, k),
         NEW u, u = SubSeq(t, k + 1, k + n)
  PROVE  Scan(s, u) \in BufferState /\ Scanned(Scan(s, u), t, k + n)
<1>1. u \in Seq(Char) /\ Len(u) = n /\ \A i \in 1 .. n : u[i] = t[k + i]
  <2> DEFINE m == k + n
  <2>1. m \in k .. Len(t) /\ m - k = n /\ k \in 0 .. Len(t) /\ u = SubSeq(t, k + 1, m)
    OBVIOUS
  <2> HIDE DEF m
  <2> QED BY <2>1, Part
<1>2. PICK v \in [0 .. n -> BufferState] :
            /\ v[0] = s
            /\ \A i \in 1 .. n : v[i] = Consume(v[i - 1], u[i])
            /\ Scan(s, u) = v[n]
  <2>1. \E v \in [0 .. Len(u) -> BufferState] :
            /\ v[0] = s
            /\ \A i \in 1 .. Len(u) : v[i] = Consume(v[i - 1], u[i])
            /\ Scan(s, u) = v[Len(u)]
    BY <1>1, ScanRuns
  <2> QED BY <1>1, <2>1
<1> DEFINE P == {i \in 0 .. n : Scanned(v[i], t, k + i)}
<1>3. 0 \in P
  BY <1>2
<1>4. ASSUME NEW i \in 1 .. n, i - 1 \in P PROVE i \in P
  <2>1. v[i - 1] \in BufferState /\ v[i] = Consume(v[i - 1], t[k + i])
    BY <1>1, <1>2
  <2>2. k + i \in Nat /\ k + i >= 1 /\ (k + i) - 1 = k + (i - 1) /\ k + i \in 1 .. Len(t)
    OBVIOUS
  <2>3. t[k + i] \in Char /\ Scanned(v[i - 1], t, (k + i) - 1)
    BY <1>4, <2>2
  <2> DEFINE j == k + i
  <2> HIDE DEF j
  <2>4. Scanned(Consume(v[i - 1], t[j]), t, j)
    BY <2>1, <2>2, <2>3, ConsumeStep DEF j
  <2> QED BY <2>1, <2>4 DEF j
<1> HIDE DEF P
<1>5. \A i \in 0 .. n : i \in P
  BY <1>3, <1>4, Induction
<1>6. n \in P
  BY <1>5
<1>7. Scanned(v[n], t, k + n) /\ v[n] \in BufferState
  BY <1>2, <1>6 DEF P
<1> QED BY <1>2, <1>7

\* What was said of the first n characters stays so when more are written.
LEMMA SameText ==
  ASSUME NEW t, NEW u, NEW n \in Nat, \A j \in 1 .. n : t[j] = u[j], NEW s
  PROVE  Events(u, n) = Events(t, n) /\ (Scanned(s, t, n) => Scanned(s, u, n))
<1>1. \A i \in 0 .. n : Piece(t, i) = Piece(u, i) /\ Column(t, i) = Column(u, i)
  <2> SUFFICES ASSUME NEW i \in 0 .. n
               PROVE  Piece(t, i) = Piece(u, i) /\ Column(t, i) = Column(u, i)
    OBVIOUS
  <2>1. {j \in 1 .. i : t[j] = "nl"} = {j \in 1 .. i : u[j] = "nl"}
    OBVIOUS
  <2>2. LineStart(t, i) = LineStart(u, i) /\ LineStart(t, i) \in Nat
    <3>1. LineStart(t, i) \in 0 .. i
      BY StartIs
    <3>2. LineStart(t, i) = LineStart(u, i)
      BY <2>1 DEF LineStart
    <3> QED BY <3>1, <3>2
  <2>3. \A j \in LineStart(t, i) + 1 .. i : t[j] = u[j]
    BY <2>2
  <2>4. InLine(t, i) = InLine(u, i)
    BY <2>2, <2>3 DEF InLine
  <2>5. Column(t, i) = Column(u, i)
    BY <2>4 DEF Column, InLine
  <2> QED BY <2>2, <2>5 DEF Piece
<1>2. {j \in 1 .. n : t[j] = "event"} = {j \in 1 .. n : u[j] = "event"}
  OBVIOUS
<1>3. Events(t, n) = Events(u, n)
  BY <1>1, <1>2 DEF Events
<1>4. Piece(t, n) = Piece(u, n) /\ Column(t, n) = Column(u, n)
  BY <1>1
<1> QED BY <1>3, <1>4 DEF Scanned

\* What they are.
Buffer == [used |-> used, hot |-> hot, seen |-> seen, kept |-> kept]

\* They say of the text that was read what it is, and the text is read before the
\* reader ends.
TraceInv ==
    /\ output \in Seq(Char) /\ taken \in 0 .. Len(output)
    /\ pending \in [Writer -> Char \cup {"nothing"}]
    /\ \A w \in Writer : pending[w] # "nothing" => w \in holding
    /\ reader # "none" => launcher # "launch"
    /\ Buffer \in BufferState
    /\ reader \in {"none", "start"} =>
          taken = 0 /\ Buffer = [used |-> 0, hot |-> FALSE, seen |-> 0, kept |-> 0]
    /\ reader = "read" => Scanned(Buffer, output, taken)
    /\ reader = "done" =>
          holding = {} /\ taken = Len(output) /\ kept = Retained(Events(output, taken))

\* The empty buffer scans the empty text.
LEMMA EmptyScanned ==
  ASSUME NEW t, NEW s, s = [used |-> 0, hot |-> FALSE, seen |-> 0, kept |-> 0]
  PROVE  s \in BufferState /\ Scanned(s, t, 0)
<1>1. Events(t, 0) = {} /\ IsFiniteSet(Events(t, 0)) /\ Cardinality(Events(t, 0)) = 0
  <2>1. Events(t, 0) = {}
    BY DEF Events
  <2> QED BY <2>1, FS_EmptySet
<1>2. Retained(Events(t, 0)) = 0
  <2>1. EventLimit \in Nat /\ EventLimit # 0
    BY TraceAssumption
  <2> QED BY <1>1, <2>1, RetainedIs
<1>3. Column(t, 0) = 0 * Width + 0
  <2>1. 0 * Width + 0 = 0
    BY WidthIs
  <2> QED BY <2>1, ColumnAtZero
<1>4. s.used = 0 /\ s.hot = FALSE /\ s.kept = 0
  OBVIOUS
<1>5. s \in BufferState
  BY WidthIs DEF BufferState
<1>6. \E q \in Nat : Column(t, 0) = q * Width + s.used
  BY <1>3, <1>4
<1> QED BY <1>1, <1>2, <1>4, <1>5, <1>6 DEF Scanned

\* A process ends a write: more is in the pipe, nothing that was read changes.
LEMMA WriteStep ==
  ASSUME TraceInv, NEW w \in Writer, FinishWrite(w)
  PROVE  TraceInv'
<1>1. /\ pending[w] # "nothing" /\ pending' = [pending EXCEPT ![w] = "nothing"]
      /\ output' = output \/ output' = Append(output, pending[w])
      /\ UNCHANGED <<taken, holding, reader, used, hot, seen, kept, launcher>>
  BY DEF FinishWrite, lineVars
<1>2. w \in holding /\ pending[w] \in Char /\ reader # "done"
  BY <1>1 DEF TraceInv
<1>3. output' \in Seq(Char) /\ Len(output') >= Len(output) /\ Len(output') \in Nat /\ Len(output) \in Nat
      /\ \A j \in 1 .. Len(output) : output'[j] = output[j]
  <2>1. output \in Seq(Char) /\ pending[w] \in Char
    BY <1>2 DEF TraceInv
  <2>2. CASE output' = output
    BY <2>1, <2>2
  <2>3. CASE output' = Append(output, pending[w])
    BY <2>1, <2>3
  <2> QED BY <1>1, <2>2, <2>3
<1>4. taken \in Nat /\ taken <= Len(output) /\ \A j \in 1 .. taken : output[j] = output'[j]
  BY <1>3 DEF TraceInv
<1>5. Scanned(Buffer, output, taken) => Scanned(Buffer, output', taken)
  BY <1>4, SameText
<1>6. Buffer' = Buffer
  BY <1>1 DEF Buffer
<1>7. pending' \in [Writer -> Char \cup {"nothing"}]
      /\ \A v \in Writer : pending'[v] # "nothing" => v \in holding'
  BY <1>1 DEF TraceInv
<1>8. taken' \in 0 .. Len(output')
  BY <1>1, <1>3, <1>4
<1>9. reader' = "read" => Scanned(Buffer', output', taken')
  BY <1>1, <1>5, <1>6 DEF TraceInv
<1> QED BY <1>1, <1>2, <1>3, <1>6, <1>7, <1>8, <1>9 DEF TraceInv

\* A read takes characters and leaves the buffer a scan of all that was
\* taken; the last read ends the last piece.
LEMMA ReadStep ==
  ASSUME TraceInv, NEW n \in 0 .. ReadSize, Read(n)
  PROVE  TraceInv'
<1> DEFINE u == SubSeq(output, taken + 1, taken + n)
           s == Scan(Buffer, u)
           rest == IF ~ReadsOn(n) /\ s.used # 0 THEN Cut(s) ELSE s
<1>1. /\ reader = "read" /\ n <= Len(output) - taken
      /\ n = 0 => taken = Len(output) /\ holding = {}
      /\ taken' = taken + n
      /\ used' = rest.used /\ hot' = rest.hot /\ seen' = rest.seen /\ kept' = rest.kept
      /\ reader' = (IF n # 0 THEN "read" ELSE "done")
      /\ UNCHANGED <<output, pending, holding, launcher>>
  BY DEF Read, Buffer, PipeEnded, ReadsOn
<1>2. /\ output \in Seq(Char) /\ taken \in Nat /\ n \in Nat /\ taken + n <= Len(output)
      /\ Buffer \in BufferState /\ Scanned(Buffer, output, taken)
  BY <1>1, TraceAssumption DEF TraceInv
<1>3. s \in BufferState /\ Scanned(s, output, taken + n)
  BY <1>2, ScanStep
<1> HIDE DEF s
<1>4. /\ rest \in BufferState
      /\ n # 0 => Scanned(rest, output, taken + n)
      /\ n = 0 => rest.kept = Retained(Events(output, taken + n))
  <2>1. CASE n # 0
    <3>1. rest = s
      BY <2>1 DEF ReadsOn
    <3> HIDE DEF rest
    <3> QED BY <1>3, <2>1, <3>1
  <2>2. CASE n = 0 /\ s.used = 0
    <3>1. rest = s
      BY <2>2
    <3> HIDE DEF rest
    <3> QED BY <1>3, <2>2, <3>1 DEF Scanned
  <2>3. CASE n = 0 /\ s.used # 0
    <3>1. rest = Cut(s)
      BY <2>3 DEF ReadsOn
    <3> HIDE DEF rest
    <3>2. taken + n \in Nat
      BY <1>2
    <3> QED BY <1>3, <2>3, <3>1, <3>2, CutIs
  <2> QED BY <2>1, <2>2, <2>3
<1>5. Buffer' = rest
  <2>1. rest = [used |-> rest.used, hot |-> rest.hot, seen |-> rest.seen, kept |-> rest.kept]
    <3> HIDE DEF rest
    <3> QED BY <1>4 DEF BufferState
  <2> HIDE DEF rest
  <2> QED BY <1>1, <2>1 DEF Buffer
<1> HIDE DEF rest
<1>6. taken' \in 0 .. Len(output')
  BY <1>1, <1>2
<1>7. reader' = "read" => Scanned(Buffer', output', taken')
  BY <1>1, <1>4, <1>5
<1>8. reader' = "done" =>
         holding' = {} /\ taken' = Len(output') /\ kept' = Retained(Events(output', taken'))
  <2> SUFFICES ASSUME reader' = "done"
               PROVE  holding' = {} /\ taken' = Len(output') /\ kept' = Retained(Events(output', taken'))
    OBVIOUS
  <2>1. n = 0
    BY <1>1
  <2>2. taken' = taken
    BY <1>1, <1>2, <2>1
  <2> QED BY <1>1, <1>4, <2>1, <2>2
<1>9. reader' \in {"read", "done"}
  BY <1>1
<1> QED BY <1>1, <1>2, <1>4, <1>5, <1>6, <1>7, <1>8, <1>9 DEF TraceInv

\* Every step keeps the invariant.
LEMMA TraceStep == TraceInv /\ [TraceNext]_traceVars => TraceInv'
<1> SUFFICES ASSUME TraceInv, [TraceNext]_traceVars PROVE TraceInv'
  OBVIOUS
<1>1. ASSUME NEW n \in 0 .. ReadSize, Read(n) PROVE TraceInv'
  BY <1>1, ReadStep
<1>2. ASSUME NEW w \in Writer, FinishWrite(w) PROVE TraceInv'
  BY <1>2, WriteStep
<1>3. CASE StartReader
  <2>1. reader' \in {"read", "failed"} /\ reader = "start"
        /\ UNCHANGED <<output, taken, pending, holding, used, hot, seen, kept, launcher>>
    BY <1>3 DEF StartReader, lineVars
  <2>2. Buffer' = Buffer /\ taken = 0 /\ Buffer = [used |-> 0, hot |-> FALSE, seen |-> 0, kept |-> 0]
    BY <2>1 DEF Buffer, TraceInv
  <2>3. Scanned(Buffer, output, 0)
    BY <2>2, EmptyScanned
  <2> QED BY <2>1, <2>2, <2>3 DEF TraceInv
<1>4. CASE Launch
  <2>1. holding' = Writer /\ reader' \in {"start", "none"} /\ launcher' = "wait" /\ reader = "none"
        /\ UNCHANGED <<output, taken, pending, used, hot, seen, kept>>
    BY <1>4 DEF Launch, lineVars, TraceInv
  <2>2. Buffer' = Buffer
    BY <2>1 DEF Buffer
  <2> QED BY <2>1, <2>2 DEF TraceInv
<1>5. CASE BrowserGone \/ ReaderJoined \/ JoinTimesOut
  <2>1. launcher # "launch" /\ launcher' # "launch"
        /\ UNCHANGED <<output, taken, pending, holding, reader, used, hot, seen, kept>>
    BY <1>5 DEF BrowserGone, ReaderJoined, JoinTimesOut, lineVars
  <2>2. Buffer' = Buffer
    BY <2>1 DEF Buffer
  <2> QED BY <2>1, <2>2 DEF TraceInv
<1>6. CASE LauncherGoes
  <2>1. launcher' # "launch" /\ reader' = (IF reader \in {"start", "read"} THEN "killed" ELSE reader)
        /\ UNCHANGED <<output, taken, pending, holding, used, hot, seen, kept>>
    BY <1>6 DEF LauncherGoes, lineVars
  <2>2. Buffer' = Buffer
    BY <2>1 DEF Buffer
  <2> QED BY <2>1, <2>2 DEF TraceInv
<1>7. ASSUME NEW w \in Writer, Exit(w) PROVE TraceInv'
  <2>1. pending[w] = "nothing" /\ holding' = holding \ {w}
        /\ UNCHANGED <<output, taken, pending, reader, used, hot, seen, kept, launcher>>
    BY <1>7 DEF Exit, lineVars
  <2>2. Buffer' = Buffer
    BY <2>1 DEF Buffer
  <2> QED BY <2>1, <2>2 DEF TraceInv
<1>8. ASSUME NEW w \in Writer, NEW c \in Char, StartWrite(w, c) PROVE TraceInv'
  <2>1. w \in holding /\ pending' = [pending EXCEPT ![w] = c]
        /\ UNCHANGED <<output, taken, holding, reader, used, hot, seen, kept, launcher>>
    BY <1>8 DEF StartWrite, lineVars
  <2>2. Buffer' = Buffer
    BY <2>1 DEF Buffer
  <2>3. pending' \in [Writer -> Char \cup {"nothing"}]
        /\ \A v \in Writer : pending'[v] # "nothing" => v \in holding'
    BY <2>1 DEF TraceInv
  <2> QED BY <2>1, <2>2, <2>3 DEF TraceInv
<1>9. CASE UNCHANGED traceVars
  <2>1. UNCHANGED <<output, taken, pending, holding, reader, used, hot, seen, kept, launcher>>
    BY <1>9 DEF traceVars, lineVars
  <2>2. Buffer' = Buffer
    BY <2>1 DEF Buffer
  <2> QED BY <2>1, <2>2 DEF TraceInv
<1> QED BY <1>1, <1>2, <1>3, <1>4, <1>5, <1>6, <1>7, <1>8, <1>9 DEF TraceNext, ReaderStep, MainStep

\* When the reader has closed the pipe at the end of the text, it has kept one
\* event for each piece of a line that names a category, up to the limit
\* (launcher:593-684): however the browser's writes fall, however many
\* characters each read returns, and for a buffer and a limit of any size.
THEOREM EventsRetainedHolds == TraceSpec => []EventsRetained
<1>1. TraceInit => TraceInv
  <2> SUFFICES ASSUME TraceInit PROVE TraceInv
    OBVIOUS
  <2>1. Buffer = [used |-> 0, hot |-> FALSE, seen |-> 0, kept |-> 0]
    BY DEF TraceInit, Buffer
  <2>2. Buffer \in BufferState
    BY <2>1, EmptyScanned
  <2>3. output = <<>> /\ taken = 0 /\ output \in Seq(Char) /\ Len(output) = 0
    BY DEF TraceInit
  <2> QED BY <2>1, <2>2, <2>3 DEF TraceInit, TraceInv
<1>2. TraceInv => EventsRetained
  BY DEF TraceInv, EventsRetained
<1> QED BY <1>1, <1>2, TraceStep, PTL DEF TraceSpec
============================================================================
