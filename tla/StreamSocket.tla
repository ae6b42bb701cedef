---------------------------- MODULE StreamSocket ----------------------------
(***************************************************************************)
(* ipc/srv.c, ipc/minsrv.c and ipc/cli.c, which are ipc/soc/tcp's too.  The*)
(* server answers one connection after another; every client binds itself  *)
(* to the same file, connects, sends a line and looks at the answer.       *)
(* Writing to a connection whose other end is closed raises SIGPIPE, which *)
(* ends the writer before any of the code's tests can see it.              *)
(***************************************************************************)
EXTENDS Integers, Sequences, SequencesExt

CONSTANTS
  Callers,     \* the runs of cli.c
  Backlog,     \* connections that wait to be accepted, less one (10)
  MaxServers   \* bound: how often the server is started

VARIABLES
  srv,        \* the server: where it is, whom it serves, vic, its runs and kills
  backlog,    \* the connections it has not accepted yet
  file,       \* whether CLIENT_PATH exists
  caller,     \* where each client is, or how it ended
  link,       \* the state of its connection
  came,       \* auxiliary: the clients that connected to this run, in order
  answered    \* auxiliary: those that were sent an answer, in order

stream == <<srv, backlog, file, caller, link, came, answered>>

Nobody == "nobody"

BoundsOK == Backlog \in Nat /\ MaxServers \in Nat /\ Nobody \notin Callers

Init ==
  /\ srv = [at |-> "off", listens |-> FALSE, client |-> Nobody, vic |-> FALSE,
            runs |-> 0, kills |-> 0]
  /\ backlog = <<>> /\ file \in BOOLEAN /\ came = <<>> /\ answered = <<>>
  /\ caller = [c \in Callers |-> "new"] /\ link = [c \in Callers |-> "none"]

-----------------------------------------------------------------------------
(* The server.                                                             *)

\* socket, unlink and bind.  vic is not initialised: the loop may never start.
StartServer ==
  /\ srv.at = "off" /\ srv.runs < MaxServers
  /\ \E q \in BOOLEAN :
       srv' = [srv EXCEPT !.at = "loop", !.vic = q, !.runs = @ + 1]
  /\ came' = <<>> /\ answered' = <<>>
  /\ UNCHANGED <<backlog, file, caller, link>>

\* The server is gone.  Whoever was not accepted is reset, and so is whoever
\* sent a line that was not read; who was accepted sees an end of file.
Cut(c) == IF c \in {backlog[k] : k \in DOMAIN backlog} THEN "reset"
          ELSE IF c = srv.client /\ link[c] = "line" THEN "reset"
          ELSE IF c = srv.client /\ link[c] \in {"open", "read"} THEN "closed"
          ELSE link[c]
Gone(kills) ==
  /\ srv' = [srv EXCEPT !.at = "off", !.listens = FALSE, !.client = Nobody,
                        !.kills = kills]
  /\ link' = [c \in Callers |-> Cut(c)] /\ backlog' = <<>>
  /\ UNCHANGED <<file, caller, came, answered>>

Listen ==
  /\ srv.at = "loop" /\ ~srv.vic
  /\ srv' = [srv EXCEPT !.at = "accept", !.listens = TRUE]
  /\ UNCHANGED <<backlog, file, caller, link, came, answered>>

LoopEnds == srv.at = "loop" /\ srv.vic /\ Gone(srv.kills)

Accept ==
  /\ srv.at = "accept" /\ backlog # <<>>
  /\ srv' = [srv EXCEPT !.at = "recv", !.client = Head(backlog)]
  /\ backlog' = Tail(backlog)
  /\ UNCHANGED <<file, caller, link, came, answered>>

\* A line, or the end of the file.
Recv_LineOnly ==   \* mutant: waits for a line, whether or not one can come
  /\ srv.at = "recv" /\ link[srv.client] = "line"
  /\ srv' = [srv EXCEPT !.at = "send"]
  /\ link' = [link EXCEPT ![srv.client] = "read"]
  /\ UNCHANGED <<backlog, file, caller, came, answered>>
Recv_Hangup ==   \* mutant: closes when the line is read
  /\ srv.at = "recv" /\ link[srv.client] \in {"line", "dead"}
  /\ srv' = [srv EXCEPT !.at = "close"]
  /\ link' = [link EXCEPT ![srv.client] = IF @ = "line" THEN "closed" ELSE @]
  /\ UNCHANGED <<backlog, file, caller, came, answered>>
Recv ==
  /\ srv.at = "recv" /\ link[srv.client] \in {"line", "dead"}
  /\ srv' = [srv EXCEPT !.at = "send"]
  /\ link' = [link EXCEPT ![srv.client] = IF @ = "line" THEN "read" ELSE @]
  /\ UNCHANGED <<backlog, file, caller, came, answered>>

SendAnswer ==
  /\ srv.at = "send" /\ link[srv.client] # "dead"
  /\ srv' = [srv EXCEPT !.at = "close"]
  /\ link' = [link EXCEPT ![srv.client] = "answered"]
  /\ answered' = Append(answered, srv.client)
  /\ UNCHANGED <<backlog, file, caller, came>>

SigPipe == srv.at = "send" /\ link[srv.client] = "dead" /\ Gone(srv.kills)

Close ==
  /\ srv.at = "close" /\ srv' = [srv EXCEPT !.at = "loop", !.client = Nobody]
  /\ UNCHANGED <<backlog, file, caller, link, came, answered>>

KillServer == srv.at # "off" /\ Gone(srv.kills + 1)

Server == \/ Listen \/ LoopEnds \/ Accept \/ Recv \/ SendAnswer
          \/ SigPipe \/ Close

-----------------------------------------------------------------------------
(* A client.                                                               *)

Go(c, from, to) == caller[c] = from /\ caller' = [caller EXCEPT ![c] = to]

Unlink(c) ==
  /\ Go(c, "new", "bind") /\ file' = FALSE
  /\ UNCHANGED <<srv, backlog, link, came, answered>>

\* Another client may have bound itself since.
Bind(c) ==
  /\ Go(c, "bind", IF file THEN "bind error" ELSE "connect") /\ file' = TRUE
  /\ UNCHANGED <<srv, backlog, link, came, answered>>

\* connect waits while the backlog is full.
Connect(c) ==
  /\ srv.listens /\ Len(backlog) <= Backlog
  /\ Go(c, "connect", "send")
  /\ backlog' = Append(backlog, c) /\ link' = [link EXCEPT ![c] = "open"]
  /\ came' = Append(came, c)
  /\ UNCHANGED <<srv, file, answered>>

\* Nobody listens, whether or not the file is there.
Refused(c) ==
  /\ ~srv.listens /\ Go(c, "connect", "refused")
  /\ UNCHANGED <<srv, backlog, file, link, came, answered>>

SendLine(c) ==
  /\ Go(c, "send", IF link[c] = "open" THEN "recv" ELSE "broken")
  /\ link' = [link EXCEPT ![c] = IF @ = "open" THEN "line" ELSE @]
  /\ UNCHANGED <<srv, backlog, file, came, answered>>

\* recv gives the answer, an error, or nothing, which is printed as an answer.
Outcome(l) == CASE l = "answered" -> "data"
                [] l = "closed"   -> "empty"
                [] l = "reset"    -> "reset"

Look(c) ==
  /\ link[c] \in {"answered", "closed", "reset"}
  /\ Go(c, "recv", Outcome(link[c]))
  /\ UNCHANGED <<srv, backlog, file, link, came, answered>>

Busy(c) == caller[c] \in {"bind", "connect", "send", "recv"}

KillCaller(c) ==
  /\ Busy(c) /\ caller' = [caller EXCEPT ![c] = "killed"]
  /\ link' = [link EXCEPT ![c] = IF @ \in {"open", "line", "read"} THEN "dead" ELSE @]
  /\ UNCHANGED <<srv, backlog, file, came, answered>>

Caller(c) == Bind(c) \/ Connect(c) \/ Refused(c) \/ SendLine(c) \/ Look(c)

Next == \/ StartServer \/ Server \/ KillServer
        \/ \E c \in Callers : Unlink(c) \/ Caller(c) \/ KillCaller(c)

Spec == Init /\ [][Next]_stream

\* Server and clients are scheduled.  Every client connects once, so that one
\* which waits for room in the backlog is not passed over for ever.
FairSpec == Spec /\ WF_stream(Server) /\ \A c \in Callers : WF_stream(Caller(c))

-----------------------------------------------------------------------------
(* What must hold.                                                         *)

Ends == {"bind error", "refused", "broken", "data", "empty", "reset", "killed"}
Links == {"none", "open", "line", "read", "answered", "closed", "reset", "dead"}

\* Every variable stays in its range, and the backlog within its limit.
TypeOK ==
  /\ srv \in [at : {"off", "loop", "accept", "recv", "send", "close"},
              listens : BOOLEAN, client : Callers \cup {Nobody}, vic : BOOLEAN,
              runs : 0..MaxServers, kills : 0..MaxServers]
  /\ backlog \in Seq(Callers) /\ Len(backlog) <= Backlog + 1
  /\ file \in BOOLEAN
  /\ caller \in [Callers -> {"new", "bind", "connect", "send", "recv"} \cup Ends]
  /\ link \in [Callers -> Links]
  /\ came \in Seq(Callers) /\ answered \in Seq(Callers)

\* Clients are answered in the order in which they connected, none is passed
\* over: one that died first takes the server with it (srv.c:83, 137).
FirstComeFirstServed == IsPrefix(answered, came)

\* What a client prints as the data it received is an answer, unless the
\* server was killed between the client's line and its answer; that a server
\* ends by SIGPIPE, or never starts its loop, does not do that (cli.c:94-100).
NoEmptyAnswer ==
  srv.kills = 0 => \A c \in Callers : caller[c] # "empty"

\* A client fails to bind only to another one that did not fail: of those that
\* start together one goes on (cli.c:50-56).
LoserHasWinner ==
  \A c \in Callers :
    caller[c] = "bind error" =>
      \E d \in Callers : caller[d] \notin {"new", "bind", "bind error"}

\* No client is left waiting, whoever dies: the server comes back to accept,
\* or its end closes all connections.  (Every client runs once.)
NobodyHangs == <>[](\A c \in Callers : ~Busy(c))

=============================================================================
