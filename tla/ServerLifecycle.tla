-------------------------- MODULE ServerLifecycle --------------------------
(***************************************************************************)
(* The life of the server process (main and sig_kill_handler of            *)
(* gweb_server.c): start-up, SIGUSR1 and the end, beside the thread of     *)
(* libmicrohttpd, which serves requests from the moment the daemon is      *)
(* started.  Both use the MySQL session and the storage configuration.     *)
(***************************************************************************)
EXTENDS Configuration

CONSTANTS
  Connections,
  Files,       \* configuration files
  Loop, Off    \* where the thread is when it is in no callback

ASSUME LifecycleAssumption ==
  /\ Loop # Off /\ Loop \notin Connections /\ Off \notin Connections
  /\ Files \subseteq Roots

VARIABLES
  main,        \* the next step of the main thread
  end,         \* how the process has ended
  root,        \* g_config.root
  session,     \* g_mysql_ctx: "null", "initialised", "open" or "freed"
  storage,     \* g_avatardb_cfg
  published,   \* g_daemon is set
  installed,   \* SIGUSR1 has its handler
  sent,        \* SIGUSR1 has been sent, which is done once
  shutdown,    \* MHD_stop_daemon has told the thread
  thread,      \* Off, Loop, or the connection whose callback runs
  round,       \* connections still to be served in this round of the loop
  request      \* per connection, how far its request is

mainVars == <<main, end, root, storage, published, installed, sent, shutdown>>
httpVars == <<thread, round, request>>
vars == <<mainVars, session, httpVars>>

\* a request by its kind and how far it is: it waits for its callback, or the
\* callback is at its lookup ("called"), at the image, or at its update
Requests ==
  [kind : {"json", "upload"},
   at : {"none", "waiting", "called", "uploading", "image", "working", "answered"}]

None == [kind |-> "json", at |-> "none"]

Init ==
  /\ main = "daemonize" /\ end = "none"
  /\ root = NULL /\ session = "null" /\ storage = NULL
  /\ published = FALSE /\ installed = FALSE /\ sent = FALSE /\ shutdown = FALSE
  /\ thread = Off /\ round = {}
  /\ request = [c \in Connections |-> None]

(***************************************************************************)
(* The main thread.                                                        *)
(***************************************************************************)
\* the process is gone, with every thread of it; end' says how
Over(how) ==
  /\ main' = "over" /\ end' = how
  /\ UNCHANGED <<root, session, storage, published, installed, shutdown, httpVars>>

Go(from, to) == main = from /\ main' = to /\ UNCHANGED <<end, sent>>

\* a fork or setsid that fails ends the process
Daemonize ==
  \/ /\ Go("daemonize", "listen")
     /\ UNCHANGED <<root, session, storage, published, installed, shutdown, httpVars>>
  \/ main = "daemonize" /\ Over("failed") /\ UNCHANGED sent

StartDaemon ==
  \/ /\ Go("listen", "configure")
     /\ thread' = Loop
     /\ UNCHANGED <<root, session, storage, published, installed, shutdown, round, request>>
  \/ main = "listen" /\ Over("failed") /\ UNCHANGED sent

\* main does not look at the result
LoadConfig ==
  /\ Go("configure", "init")
  /\ \E file \in Files : root' = config_load_dotrc(file)
  /\ UNCHANGED <<session, storage, published, installed, shutdown, httpVars>>

\* gweb_mysql_init in two steps, between which requests are served
InitSession ==
  /\ Go("init", IF config_load_mysqldb(root) THEN "connect" ELSE "return")
  /\ session' = IF config_load_mysqldb(root) THEN "initialised" ELSE session
  /\ UNCHANGED <<root, storage, published, installed, shutdown, httpVars>>

\* mutation: a connection that fails is left to the reconnect
ConnectLater ==
  /\ Go("connect", "avatar")
  /\ session' \in {"open", "freed"}
  /\ UNCHANGED <<root, storage, published, installed, shutdown, httpVars>>

\* report_mysql_error closes the session and leaves g_mysql_ctx as it is
Connect ==
  /\ \/ Go("connect", "avatar") /\ session' = "open"
     \/ Go("connect", "return") /\ session' = "freed"
  /\ UNCHANGED <<root, storage, published, installed, shutdown, httpVars>>

\* a storage without an aws-s3 element has no s3ctx, which is read
InitStorage ==
  LET cfg == config_load_avatardb(root)
  IN  \/ /\ Go("avatar", IF cfg = NULL THEN "return" ELSE "publish")
         /\ cfg # NULL => cfg.s3ctx
         /\ storage' = cfg
         /\ UNCHANGED <<root, session, published, installed, shutdown, httpVars>>
      \/ /\ main = "avatar" /\ cfg # NULL /\ ~cfg.s3ctx
         /\ Over("crashed") /\ UNCHANGED sent

\* mutation: the daemon is not kept
ForgetDaemon ==
  /\ Go("publish", "install")
  /\ UNCHANGED <<root, session, storage, published, installed, shutdown, httpVars>>

Publish ==
  /\ Go("publish", "install")
  /\ published' = TRUE
  /\ UNCHANGED <<root, session, storage, installed, shutdown, httpVars>>

Install ==
  /\ Go("install", "sleep")
  /\ installed' = TRUE
  /\ UNCHANGED <<root, session, storage, published, shutdown, httpVars>>

\* main returns: g_daemon is not set yet, so the daemon is not stopped
Return == main = "return" /\ Over("failed") /\ UNCHANGED sent

(***************************************************************************)
(* SIGUSR1, which the main thread takes: without a handler it kills.       *)
(***************************************************************************)
Signal ==
  /\ ~sent /\ main # "over"
  /\ sent' = TRUE
  /\ \/ ~installed /\ Over("killed")
     \/ /\ installed /\ main = "sleep" /\ main' = "stop"
        /\ UNCHANGED <<end, root, session, storage, published, installed, shutdown, httpVars>>

\* MHD_stop_daemon tells the thread and joins it
StopDaemon ==
  /\ Go("stop", IF published THEN "join" ELSE "close")
  /\ shutdown' = published
  /\ UNCHANGED <<root, session, storage, published, installed, httpVars>>

\* mutation: the daemon waits for the clients to finish
JoinClients ==
  /\ Go("join", "close")
  /\ thread = Off
  /\ \A c \in Connections : request[c] = None
  /\ UNCHANGED <<root, session, storage, published, installed, shutdown, httpVars>>

\* the connections that are left are closed
Join ==
  /\ Go("join", "close")
  /\ thread = Off
  /\ request' = [c \in Connections |-> None]
  /\ UNCHANGED <<root, session, storage, published, installed, shutdown, thread, round>>

CloseSession ==
  /\ Go("close", "exit")
  /\ session' = IF session = "null" THEN "null" ELSE "freed"
  /\ UNCHANGED <<root, storage, published, installed, shutdown, httpVars>>

Exit == main = "exit" /\ Over("stopped") /\ UNCHANGED sent

MainStep ==
  \/ Daemonize \/ StartDaemon \/ LoadConfig \/ InitSession \/ Connect \/ InitStorage
  \/ Publish \/ Install \/ Return \/ StopDaemon \/ Join \/ CloseSession \/ Exit

(***************************************************************************)
(* The thread of libmicrohttpd.  A round of its loop serves every          *)
(* connection that is ready once.                                          *)
(***************************************************************************)
Ready == {c \in Connections : request[c].at \in {"waiting", "uploading", "answered"}}

Select ==
  /\ main # "over" /\ thread = Loop /\ round = {}
  /\ ~shutdown /\ Ready # {}
  /\ round' = Ready
  /\ UNCHANGED <<mainVars, session, thread, request>>

Call(c) ==
  /\ main # "over" /\ thread = Loop /\ c \in round
  /\ round' = round \ {c}
  /\ \/ /\ request[c].at \in {"waiting", "uploading"}
        /\ request' = [request EXCEPT ![c].at = IF @ = "waiting" THEN "called" ELSE "image"]
        /\ thread' = c
     \/ /\ request[c].at = "answered"
        /\ request' = [request EXCEPT ![c] = None]
        /\ UNCHANGED thread
     \/ request[c] = None /\ UNCHANGED <<request, thread>>
  /\ UNCHANGED <<mainVars, session>>

\* mutation: the lookup of an upload goes on with the image
LookedOnce(c) == IF request[c].kind = "upload" THEN "image" ELSE "working"

\* the lookup of an upload is a callback of its own
Looked(c) == IF request[c].kind = "upload" THEN "uploading" ELSE "working"

Command(c) ==
  /\ main # "over" /\ thread = c /\ request[c].at \in {"called", "working"}
  /\ \/ /\ session = "open"
        /\ request' = [request EXCEPT ![c].at = IF @ = "called" THEN Looked(c) ELSE "answered"]
        /\ thread' = IF request'[c].at = "working" THEN c ELSE Loop
        /\ UNCHANGED <<mainVars, session, round>>
     \* a command on a session that is being made, or was freed, fails or worse;
     \* an upload takes the failed lookup for a registered user
     \/ /\ session \in {"initialised", "freed"}
        /\ request' = [request EXCEPT ![c].at =
                         IF request[c] = [kind |-> "upload", at |-> "called"]
                         THEN "uploading" ELSE "answered"]
        /\ thread' = Loop
        /\ UNCHANGED <<mainVars, session, round>>
     \/ session # "open" /\ Over("crashed") /\ UNCHANGED sent

StoreImage(c) ==
  /\ main # "over" /\ thread = c /\ request[c].at = "image"
  /\ \/ /\ storage # NULL
        /\ request' = [request EXCEPT ![c].at = "working"]
        /\ UNCHANGED <<mainVars, session, thread, round>>
     \/ storage = NULL /\ Over("crashed") /\ UNCHANGED sent

ThreadExits ==
  /\ main # "over" /\ thread = Loop /\ round = {} /\ shutdown
  /\ thread' = Off
  /\ UNCHANGED <<mainVars, session, round, request>>

ThreadStep ==
  Select \/ ThreadExits \/ \E c \in Connections : Call(c) \/ Command(c) \/ StoreImage(c)

\* clients: a request arrives, or goes away before its next callback
Arrive(c) ==
  /\ main # "over" /\ thread # Off /\ request[c] = None
  /\ \E kind \in {"json", "upload"} : request' = [request EXCEPT ![c] = [kind |-> kind, at |-> "waiting"]]
  /\ UNCHANGED <<mainVars, session, thread, round>>

GoAway(c) ==
  /\ main # "over" /\ thread = Loop /\ request[c].at \in {"waiting", "uploading"}
  /\ request' = [request EXCEPT ![c] = None]
  /\ UNCHANGED <<mainVars, session, thread, round>>

Next ==
  \/ MainStep \/ ThreadStep \/ Signal
  \/ \E c \in Connections : Arrive(c) \/ GoAway(c)

Spec == Init /\ [][Next]_vars

\* the system runs both threads; nothing is asked of clients
FairSpec == Spec /\ WF_vars(MainStep) /\ WF_vars(ThreadStep)

============================================================================
