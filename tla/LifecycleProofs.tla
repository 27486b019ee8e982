-------------------------- MODULE LifecycleProofs --------------------------
(***************************************************************************)
(* The life of the server, for any number of connections and any           *)
(* configuration file.                                                     *)
(***************************************************************************)
EXTENDS LifecycleProperties, TLAPS

Serving == {"publish", "install", "sleep", "stop", "join", "close"}

MainInv ==
  /\ main \in Steps
  /\ main = "over" <=> end # "none"
  /\ main \in Serving \cup {"avatar"} => session = "open"
  /\ main \in Serving \cup {"exit"} => storage # NULL
  /\ main \in {"install", "sleep", "stop", "join", "close", "exit"} => published

ThreadInv ==
  /\ \A c \in Connections : Running(c) => thread = c
  /\ main \in {"daemonize", "listen", "close", "exit"} \/ end = "stopped" => thread = Off
  /\ request \in [Connections -> Requests]

LifeInv == MainInv /\ ThreadInv

LEMMA InitInv == Init => LifeInv
BY DEF Init, LifeInv, MainInv, ThreadInv, Steps, StartUp, Serving, Running, None, Requests

\* what the steps of the main thread have in common
LEMMA OverInv ==
  ASSUME LifeInv, NEW how \in {"killed", "crashed", "failed"}, Over(how)
  PROVE  LifeInv'
BY DEF Over, LifeInv, MainInv, ThreadInv, Steps, StartUp, Serving, Running, httpVars

LEMMA StartUpStep ==
  ASSUME LifeInv,
         Daemonize \/ StartDaemon \/ LoadConfig \/ InitSession \/ Connect
  PROVE  LifeInv'
<1> USE DEF LifeInv, MainInv, ThreadInv, Steps, StartUp, Serving, Running, httpVars, Go
<1>1. CASE Daemonize
  BY <1>1, OverInv DEF Daemonize
<1>2. CASE StartDaemon
  BY <1>2, OverInv, LifecycleAssumption DEF StartDaemon
<1>3. CASE LoadConfig
  BY <1>3 DEF LoadConfig
<1>4. CASE InitSession
  <2>1. /\ main = "init" /\ main' \in {"connect", "return"}
        /\ UNCHANGED <<end, storage, published, thread, round, request>>
    BY <1>4 DEF InitSession
  <2> QED
    BY <2>1
<1>5. CASE Connect
  BY <1>5 DEF Connect
<1> QED
  BY <1>1, <1>2, <1>3, <1>4, <1>5

LEMMA InitStorageStep == LifeInv /\ InitStorage => LifeInv'
<1> SUFFICES ASSUME LifeInv, InitStorage
             PROVE  LifeInv'
  OBVIOUS
<1> PICK cfg : cfg = config_load_avatardb(root)
  OBVIOUS
<1>1. CASE Over("crashed")
  BY <1>1, OverInv
<1>2. CASE Go("avatar", IF cfg = NULL THEN "return" ELSE "publish") /\ storage' = cfg
           /\ UNCHANGED <<root, session, published, installed, shutdown, httpVars>>
  BY <1>2 DEF Go, LifeInv, MainInv, ThreadInv, Steps, StartUp, Serving, Running, httpVars
<1> QED
  BY <1>1, <1>2 DEF InitStorage

LEMMA ShutdownStep ==
  ASSUME LifeInv,
         Publish \/ Install \/ Return \/ Signal \/ StopDaemon \/ Join \/ CloseSession \/ Exit
  PROVE  LifeInv'
<1> USE DEF LifeInv, MainInv, ThreadInv, Steps, StartUp, Serving, Running, httpVars, Go
<1>1. CASE Publish
  BY <1>1 DEF Publish
<1>2. CASE Install
  BY <1>2 DEF Install
<1>3. CASE Return
  BY <1>3, OverInv DEF Return
<1>4. CASE Signal
  BY <1>4, OverInv DEF Signal
<1>5. CASE StopDaemon
  BY <1>5 DEF StopDaemon
<1>6. CASE Join
  BY <1>6 DEF Join, None, Requests
<1>7. CASE CloseSession
  BY <1>7 DEF CloseSession
<1>8. CASE Exit
  BY <1>8 DEF Exit, Over
<1> QED
  BY <1>1, <1>2, <1>3, <1>4, <1>5, <1>6, <1>7, <1>8

\* a step of the thread, or of a client, lets the main thread be
LEMMA HttpFrame ==
  ASSUME LifeInv, UNCHANGED <<mainVars, session>>, main # "over", thread # Off,
         request' \in [Connections -> Requests],
         \A c \in Connections : Running(c)' => thread' = c
  PROVE  LifeInv'
BY DEF LifeInv, MainInv, ThreadInv, Serving, mainVars

LEMMA CallStep ==
  ASSUME LifeInv, NEW c \in Connections, Call(c)
  PROVE  LifeInv'
<1>1. /\ UNCHANGED <<mainVars, session>> /\ main # "over" /\ thread = Loop
      /\ \A d \in Connections : ~Running(d)
  BY LifecycleAssumption DEF Call, LifeInv, ThreadInv
<1>2. /\ request' \in [Connections -> Requests]
      /\ \A d \in Connections \ {c} : request'[d] = request[d]
      /\ thread' = c \/ request'[c] \in {None, request[c]}
  BY DEF Call, LifeInv, ThreadInv, Requests, None
<1>3. \A d \in Connections : Running(d)' => thread' = d
  BY <1>1, <1>2 DEF Running, None
<1> QED
  BY <1>1, <1>2, <1>3, LifecycleAssumption, HttpFrame

LEMMA CommandStep ==
  ASSUME LifeInv, NEW c \in Connections, Command(c)
  PROVE  LifeInv'
<1>1. main # "over" /\ thread = c /\ thread # Off
  BY LifecycleAssumption DEF Command
<1>2. \A d \in Connections \ {c} : ~Running(d)
  BY <1>1 DEF LifeInv, ThreadInv
<1>3. CASE Over("crashed")
  BY <1>3, OverInv
<1>4. CASE ~Over("crashed")
  <2>1. /\ UNCHANGED <<mainVars, session>>
        /\ request' \in [Connections -> Requests]
        /\ \A d \in Connections \ {c} : request'[d] = request[d]
        /\ thread' = c \/ request'[c].at \in {"uploading", "answered"}
    BY <1>4 DEF Command, LifeInv, ThreadInv, Requests, Looked
  <2>2. \A d \in Connections : Running(d)' => thread' = d
    BY <1>2, <2>1 DEF Running
  <2> QED
    BY <1>1, <2>1, <2>2, HttpFrame
<1> QED
  BY <1>3, <1>4

LEMMA StoreStep ==
  ASSUME LifeInv, NEW c \in Connections, StoreImage(c)
  PROVE  LifeInv'
<1>1. CASE Over("crashed")
  BY <1>1, OverInv
<1>2. CASE ~Over("crashed")
  <2>1. /\ UNCHANGED <<mainVars, session, thread>> /\ main # "over"
        /\ thread = c /\ thread # Off
        /\ request' \in [Connections -> Requests]
        /\ \A d \in Connections \ {c} : request'[d] = request[d]
    BY <1>2, LifecycleAssumption DEF StoreImage, LifeInv, ThreadInv, Requests
  <2>2. \A d \in Connections : Running(d)' => thread' = d
    BY <2>1 DEF Running, LifeInv, ThreadInv
  <2> QED
    BY <2>1, <2>2, HttpFrame
<1> QED
  BY <1>1, <1>2

LEMMA IdleStep ==
  ASSUME LifeInv,
         Select \/ ThreadExits \/ \E c \in Connections : Arrive(c) \/ GoAway(c)
  PROVE  LifeInv'
<1>1. CASE Select
  BY <1>1, LifecycleAssumption, HttpFrame DEF Select, LifeInv, ThreadInv, Running
<1>2. CASE ThreadExits
  <2>1. \A d \in Connections : ~Running(d)'
    BY <1>2, LifecycleAssumption DEF ThreadExits, LifeInv, ThreadInv, Running
  <2> QED
    BY <1>2, <2>1, LifecycleAssumption, HttpFrame DEF ThreadExits, LifeInv, ThreadInv
<1>3. ASSUME NEW c \in Connections, Arrive(c) \/ GoAway(c)
      PROVE  LifeInv'
  <2>1. /\ UNCHANGED <<mainVars, session, thread>> /\ main # "over" /\ thread # Off
        /\ request' \in [Connections -> Requests]
        /\ \A d \in Connections \ {c} : request'[d] = request[d]
        /\ request'[c].at \in {"waiting", "none"}
    BY <1>3, LifecycleAssumption DEF Arrive, GoAway, LifeInv, ThreadInv, Requests, None
  <2>2. \A d \in Connections : Running(d)' => thread' = d
    BY <2>1 DEF Running, LifeInv, ThreadInv
  <2> QED
    BY <2>1, <2>2, HttpFrame
<1> QED
  BY <1>1, <1>2, <1>3

LEMMA LifeStep == LifeInv /\ [Next]_vars => LifeInv'
<1> SUFFICES ASSUME LifeInv, [Next]_vars
             PROVE  LifeInv'
  OBVIOUS
<1>1. CASE MainStep
  BY <1>1, StartUpStep, InitStorageStep, ShutdownStep DEF MainStep
<1>2. CASE ThreadStep
  BY <1>2, CallStep, CommandStep, StoreStep, IdleStep DEF ThreadStep
<1>3. CASE Signal
  BY <1>3, ShutdownStep
<1>4. CASE \E c \in Connections : Arrive(c) \/ GoAway(c)
  BY <1>4, IdleStep
<1>5. CASE UNCHANGED vars
  BY <1>5 DEF vars, mainVars, httpVars, LifeInv, MainInv, ThreadInv, Running
<1> QED
  BY <1>1, <1>2, <1>3, <1>4, <1>5 DEF Next

LEMMA LifeAlways == Spec => []LifeInv
BY InitInv, LifeStep, PTL DEF Spec

\* With any number of connections and any configuration file, SIGUSR1 stops the
\* server between requests: MHD_stop_daemon has joined the thread, which takes
\* that g_daemon is set before the signal has its handler.
THEOREM StopsBetweenRequestsHolds == Spec => []StopsBetweenRequests
<1>1. LifeInv => StopsBetweenRequests
  BY LifecycleAssumption DEF LifeInv, ThreadInv, StopsBetweenRequests
<1> QED
  BY <1>1, LifeAlways, PTL

\* A server that has come through its start-up has an open MySQL session and
\* its storage in every callback, until the thread has ended.
THEOREM ServesEquippedHolds == Spec => []ServesEquipped
<1>1. LifeInv => ServesEquipped
  BY LifecycleAssumption
     DEF LifeInv, MainInv, ThreadInv, ServesEquipped, Steps, Serving, StartUp
<1> QED
  BY <1>1, LifeAlways, PTL

(***************************************************************************)
(* The types.  LifeInv has some of them, and one direction of the last: a  *)
(* callback that runs has the thread.  Here is the other, that the thread  *)
(* is in no callback that has returned.                                    *)
(***************************************************************************)
Inside == \A c \in Connections : thread = c => Running(c)

TypeInv ==
  /\ end \in {"none", "killed", "crashed", "failed", "stopped"}
  /\ root \in Roots /\ storage \in Storages \cup {NULL}
  /\ session \in {"null", "initialised", "open", "freed"}
  /\ published \in BOOLEAN /\ installed \in BOOLEAN
  /\ sent \in BOOLEAN /\ shutdown \in BOOLEAN
  /\ thread \in Connections \cup {Loop, Off}
  /\ round \subseteq Connections
  /\ Inside

\* a configuration that is found is a storage
LEMMA StorageTyped == \A file : config_load_avatardb(file) \in Storages \cup {NULL}
<1> TAKE file
<1>1. \A array, type : Listed(array, type) \in BOOLEAN
  BY DEF Listed
<1> QED
  BY <1>1 DEF config_load_avatardb, Storages

LEMMA InitTyped == Init => TypeInv
BY LifecycleAssumption DEF Init, TypeInv, Inside, Roots

LEMMA OverTyped ==
  ASSUME TypeInv, NEW how \in {"killed", "crashed", "failed", "stopped"}, Over(how),
         sent' \in BOOLEAN
  PROVE  TypeInv'
BY DEF Over, TypeInv, Inside, Running, httpVars

LEMMA MainTyped ==
  ASSUME TypeInv, MainStep \/ Signal
  PROVE  TypeInv'
<1> USE DEF TypeInv, Inside, Running, httpVars, Go
<1>1. CASE \E how \in {"killed", "crashed", "failed", "stopped"} : Over(how) /\ sent' \in BOOLEAN
  BY <1>1, OverTyped
<1>2. CASE Daemonize \/ Return \/ Exit \/ Publish \/ Install \/ CloseSession \/ StopDaemon
  BY <1>1, <1>2 DEF Daemonize, Return, Exit, Publish, Install, CloseSession, StopDaemon
<1>3. CASE StartDaemon
  BY <1>1, <1>3, LifecycleAssumption DEF StartDaemon
<1>4. CASE LoadConfig
  BY <1>4, LifecycleAssumption DEF LoadConfig, config_load_dotrc
<1>5. CASE InitSession
  <2> HIDE DEF Running
  <2>1. /\ session' \in {"initialised", session}
        /\ UNCHANGED <<end, sent, root, storage, published, installed, shutdown, thread, round, request>>
    BY <1>5 DEF InitSession
  <2> QED
    BY <2>1 DEF Running
<1>6. CASE Connect
  BY <1>6 DEF Connect
<1>7. CASE InitStorage
  <2>1. CASE Over("crashed") /\ UNCHANGED sent
    BY <1>1, <2>1
  <2>2. CASE /\ storage' = config_load_avatardb(root)
             /\ UNCHANGED <<end, sent, root, session, published, installed, shutdown, httpVars>>
    BY <2>2, StorageTyped
  <2> QED
    BY <1>7, <2>1, <2>2 DEF InitStorage
<1>8. CASE Join
  BY <1>8, LifecycleAssumption DEF Join
<1>9. CASE Signal
  BY <1>1, <1>9 DEF Signal
<1> QED
  BY <1>2, <1>3, <1>4, <1>5, <1>6, <1>7, <1>8, <1>9 DEF MainStep

\* a step of the thread or of a client, which is about one connection, keeps
\* the thread's place
LEMMA HttpTyped ==
  ASSUME TypeInv, UNCHANGED <<mainVars, session>>, round' \subseteq Connections,
         NEW c \in Connections,
         \A d \in Connections \ {c} : request'[d] = request[d],
         thread' \in {thread, c, Loop, Off},
         thread' = c => Running(c)'
  PROVE  TypeInv'
<1>1. ASSUME NEW d \in Connections, thread' = d
      PROVE  Running(d)'
  <2>1. CASE d = c
    BY <1>1, <2>1
  <2>2. CASE d # c
    BY <1>1, <2>2, LifecycleAssumption DEF TypeInv, Inside, Running
  <2> QED
    BY <2>1, <2>2
<1>2. Inside'
  BY <1>1 DEF Inside
<1> QED
  BY <1>2 DEF TypeInv, mainVars

LEMMA ThreadTyped ==
  ASSUME LifeInv, TypeInv,
         ThreadStep \/ \E c \in Connections : Arrive(c) \/ GoAway(c)
  PROVE  TypeInv'
<1>0. request \in [Connections -> Requests]
  BY DEF LifeInv, ThreadInv
<1>1. CASE Over("crashed") /\ UNCHANGED sent
  BY <1>1, OverTyped DEF TypeInv
<1>2. CASE Select \/ ThreadExits
  BY <1>2, LifecycleAssumption
     DEF Select, ThreadExits, Ready, TypeInv, Inside, Running, mainVars
<1>3. ASSUME NEW c \in Connections, Call(c)
      PROVE  TypeInv'
  <2>1. /\ UNCHANGED <<mainVars, session>> /\ round' \subseteq Connections
        /\ \A d \in Connections \ {c} : request'[d] = request[d]
        /\ thread = Loop /\ thread' \in {thread, c}
    BY <1>0, <1>3 DEF Call, TypeInv
  <2>2. thread' = c => Running(c)'
    BY <1>0, <1>3, <2>1, LifecycleAssumption DEF Call, Running, Requests
  <2> QED
    BY <2>1, <2>2, HttpTyped
<1>4. ASSUME NEW c \in Connections, Command(c)
      PROVE  TypeInv'
  <2>1. CASE Over("crashed") /\ UNCHANGED sent
    BY <1>1, <2>1
  <2>2. CASE ~(Over("crashed") /\ UNCHANGED sent)
    <3>1. /\ UNCHANGED <<mainVars, session, round>>
          /\ \A d \in Connections \ {c} : request'[d] = request[d]
          /\ thread' = Loop \/ (thread' = c /\ request'[c].at = "working")
      BY <1>0, <1>4, <2>2 DEF Command
    <3> QED
      BY <3>1, LifecycleAssumption, HttpTyped DEF Running, TypeInv
  <2> QED
    BY <2>1, <2>2
<1>5. ASSUME NEW c \in Connections, StoreImage(c)
      PROVE  TypeInv'
  <2>1. CASE Over("crashed") /\ UNCHANGED sent
    BY <1>1, <2>1
  <2>2. CASE ~(Over("crashed") /\ UNCHANGED sent)
    <3>1. /\ UNCHANGED <<mainVars, session, thread, round>>
          /\ \A d \in Connections \ {c} : request'[d] = request[d]
          /\ request'[c].at = "working"
      BY <1>0, <1>5, <2>2 DEF StoreImage, Requests
    <3> QED
      BY <3>1, HttpTyped DEF Running, TypeInv
  <2> QED
    BY <2>1, <2>2
<1>6. ASSUME NEW c \in Connections, Arrive(c) \/ GoAway(c)
      PROVE  TypeInv'
  <2>1. /\ UNCHANGED <<mainVars, session, thread, round>>
        /\ \A d \in Connections \ {c} : request'[d] = request[d]
        /\ request[c] = None \/ thread = Loop
    BY <1>0, <1>6 DEF Arrive, GoAway
  <2>2. thread # c
    BY <2>1, LifecycleAssumption DEF TypeInv, Inside, Running, None
  <2> QED
    BY <2>1, <2>2, HttpTyped DEF TypeInv
<1> QED
  BY <1>2, <1>3, <1>4, <1>5, <1>6 DEF ThreadStep

LEMMA TypeStep == LifeInv /\ TypeInv /\ [Next]_vars => TypeInv'
<1> SUFFICES ASSUME LifeInv, TypeInv, [Next]_vars
             PROVE  TypeInv'
  OBVIOUS
<1>1. CASE UNCHANGED vars
  BY <1>1 DEF vars, mainVars, httpVars, TypeInv, Inside, Running
<1> QED
  BY <1>1, MainTyped, ThreadTyped DEF Next

\* The variables keep their types, whatever Files holds of what a file can be;
\* the process has an end exactly when it is over; and the thread is in a
\* callback exactly as long as the callback runs.
THEOREM LifecycleTypeCorrect == Spec => []TypeOK
<1>1. LifeInv /\ TypeInv => TypeOK
  BY DEF LifeInv, MainInv, ThreadInv, TypeInv, Inside, TypeOK
<1>2. Spec => []TypeInv
  BY InitTyped, TypeStep, LifeAlways, PTL DEF Spec
<1> QED
  BY <1>1, <1>2, LifeAlways, PTL

=============================================================================
