------------------------ MODULE LifecycleProperties ------------------------
(***************************************************************************)
(* What the life of the server promises.                                   *)
(***************************************************************************)
EXTENDS ServerLifecycle

StartUp == {"daemonize", "listen", "configure", "init", "connect", "avatar"}
Steps == StartUp \cup {"publish", "install", "sleep", "return", "stop", "join",
                       "close", "exit", "over"}

\* the callback of a request has begun and not returned
Running(c) == request[c].at \in {"called", "image", "working"}

\* The variables have their types, the process has an end when it is over, and
\* a callback runs exactly when the thread is in it.
TypeOK ==
  /\ main \in Steps
  /\ end \in {"none", "killed", "crashed", "failed", "stopped"}
  /\ main = "over" <=> end # "none"
  /\ root \in Roots /\ storage \in Storages \cup {NULL}
  /\ session \in {"null", "initialised", "open", "freed"}
  /\ {published, installed, sent, shutdown} \subseteq BOOLEAN
  /\ thread \in Connections \cup {Loop, Off}
  /\ round \subseteq Connections
  /\ request \in [Connections -> Requests]
  /\ \A c \in Connections : Running(c) <=> thread = c

\* SIGUSR1 ends the server between requests: once the shutdown goes on to close
\* the MySQL session, and when the process is gone, no callback is half-way,
\* so no update is cut in two.  This is about a server that has installed its
\* handler: before (gweb_server.c:503) the signal kills the process, under a
\* callback if one is running.
StopsBetweenRequests ==
  main \in {"close", "exit"} \/ end = "stopped" => \A c \in Connections : ~Running(c)

\* From the end of start-up until its last callback has returned, the server
\* has its MySQL session and its storage: no callback finds them missing.
ServesEquipped ==
  (thread \in Connections /\ main \notin StartUp \cup {"return"} /\ end \in {"none", "stopped"})
    => session = "open" /\ storage # NULL

\* SIGUSR1 ends the process, whatever clients do or leave undone.
SignalEnds == sent ~> main = "over"

============================================================================
