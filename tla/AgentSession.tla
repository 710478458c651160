---------------------------- MODULE AgentSession ----------------------------
(***************************************************************************)
(* One node and the connections of its agent: enrolment with a single-use  *)
(* token, authentication with the credential it issued, the hub's entry    *)
(* and the online flag (apps/api/src/server.ts, apps/agent/src/index.ts).  *)
(* The agent reconnects as soon as it loses a connection, so the panel may *)
(* still be reading from the last one.  Every store operation waits for    *)
(* its turn on one chain and its handler goes on when it is over.          *)
(***************************************************************************)
EXTENDS Integers, Sequences, FiniteSets

CONSTANTS
  MaxConnections,  \* bound: connections of the agent, in order
  MaxNodeRestarts, \* bound: deaths of the agent process
  MaxHubRestarts   \* bound: restarts of the panel

ASSUME SessionAssumption ==
  {MaxConnections, MaxNodeRestarts, MaxHubRestarts} \subseteq Nat

Connections == 1..MaxConnections
\* A credential is known by the connection it was issued on; 0 is none.
Certificates == Connections \cup {0}

Greeting == [type : {"register", "authenticate"}, certificate : Certificates]
Beat == [type |-> "heartbeat", certificate |-> 0]
OpKinds == {"find", "enrol", "check", "version", "attach", "pending", "beat", "offline"}

VARIABLES
  link,      \* of each connection: none, open, closing at either end, closed for the panel
  inbox,     \* what the panel has not read from it yet
  identified,  \* nodeId of its message handler is set
  reply,     \* it was sent its credential and the agent has not read this
  chain,     \* store operations waiting, with the connection whose handler asked
  token, credential, online,   \* the node's record: token unused, credential, flag
  hub,       \* hub.agents: the node's connection or 0
  onDisk, inUse,  \* credentials of the agent: its file, its process
  talking,   \* the connection the agent uses, or 0
  missed,    \* history: connections whose close event changed nothing
  stray,     \* history: a heartbeat was stored for a connection not in the hub
  overlapped,  \* history: the token was found again before it was cleared
  nodeRestarts, hubRestarts

wire == <<link, inbox, identified, reply>>
nodeRecord == <<token, credential, online>>
agentSide == <<onDisk, inUse, talking>>
history == <<missed, stray, overlapped>>
sessionVars == <<wire, chain, nodeRecord, hub, agentSide, history, nodeRestarts, hubRestarts>>

SessionInit ==
  /\ link = [c \in Connections |-> "none"]
  /\ inbox = [c \in Connections |-> <<>>]
  /\ identified = [c \in Connections |-> FALSE]
  /\ reply = [c \in Connections |-> FALSE]
  /\ chain = <<>>
  /\ token = TRUE /\ credential = 0 /\ online = FALSE /\ hub = 0
  /\ onDisk = 0 /\ inUse = 0 /\ talking = 0
  /\ missed = {} /\ stray = FALSE /\ overlapped = FALSE
  /\ nodeRestarts = 0 /\ hubRestarts = 0

-----------------------------------------------------------------------------
(* The agent *)

\* connect, and what it sends on open; each connection is used once.
DialIn(c) ==
  /\ talking = 0 /\ link[c] = "none" /\ \A d \in 1..(c - 1) : link[d] # "none"
  /\ talking' = c /\ link' = [link EXCEPT ![c] = "open"]
  /\ inbox' = [inbox EXCEPT ![c] =
       << [type |-> IF inUse = 0 THEN "register" ELSE "authenticate", certificate |-> inUse],
          Beat >>]
  /\ UNCHANGED <<identified, reply, chain, nodeRecord, hub, onDisk, inUse, history,
                 nodeRestarts, hubRestarts>>

\* Bound: heartbeats are five seconds apart, and one is dealt with before the next.
SendBeat ==
  /\ talking # 0 /\ inbox[talking] = <<>>
  /\ \A n \in DOMAIN chain : chain[n].conn # talking
  /\ inbox' = [inbox EXCEPT ![talking] = Append(@, Beat)]
  /\ UNCHANGED <<link, identified, reply, chain, nodeRecord, hub, agentSide, history,
                 nodeRestarts, hubRestarts>>

\* The registered message: kept in the process, then written to the file.
TakeCredential ==
  /\ talking # 0 /\ reply[talking] /\ reply' = [reply EXCEPT ![talking] = FALSE]
  /\ inUse' = talking
  /\ UNCHANGED <<link, inbox, identified, chain, nodeRecord, hub, onDisk, talking, history,
                 nodeRestarts, hubRestarts>>

SaveCredential ==
  /\ onDisk # inUse /\ onDisk' = inUse
  /\ UNCHANGED <<wire, chain, nodeRecord, hub, inUse, talking, history, nodeRestarts,
                 hubRestarts>>

\* The agent's socket closes; the panel may learn of it later.
LoseConnection ==
  /\ talking # 0 /\ talking' = 0
  /\ link' = [link EXCEPT ![talking] = IF @ = "open" THEN "closing" ELSE @]
  /\ UNCHANGED <<inbox, identified, reply, chain, nodeRecord, hub, onDisk, inUse, history,
                 nodeRestarts, hubRestarts>>

AgentProcessDies ==
  /\ nodeRestarts < MaxNodeRestarts /\ nodeRestarts' = nodeRestarts + 1
  /\ talking' = 0 /\ inUse' = onDisk
  /\ link' = [c \in Connections |-> IF c = talking /\ link[c] = "open" THEN "closing" ELSE link[c]]
  /\ UNCHANGED <<inbox, identified, reply, chain, nodeRecord, hub, onDisk, history,
                 hubRestarts>>

-----------------------------------------------------------------------------
(* The panel's message handler *)

Asks(kind, c, cert) == [kind |-> kind, conn |-> c, certificate |-> cert]
Then(kind, c, cert) == chain' = Append(Tail(chain), Asks(kind, c, cert))
Done == chain' = Tail(chain)
Doing(kind) == chain # <<>> /\ Head(chain).kind = kind
Conn == Head(chain).conn

\* The socket is told to close; its close event is still to come.
ToldToClose(c) == [link EXCEPT ![c] = "closing"]

\* A handshake asks the store; so does a heartbeat of an identified connection.
\* Another one is refused.
ReadMessage(c) ==
  /\ link[c] \in {"open", "closing"} /\ inbox[c] # <<>>
  /\ inbox' = [inbox EXCEPT ![c] = Tail(@)]
  /\ LET m == Head(inbox[c]) IN
     IF m.type # "heartbeat" \/ identified[c]
     THEN /\ chain' = Append(chain, Asks(CASE m.type = "register" -> "find"
                                           [] m.type = "authenticate" -> "check"
                                           [] OTHER -> "beat", c, m.certificate))
          /\ UNCHANGED link
     ELSE link' = ToldToClose(c) /\ UNCHANGED chain
  /\ UNCHANGED <<identified, reply, nodeRecord, hub, agentSide, history, nodeRestarts,
                 hubRestarts>>

\* The lookup of a register or authenticate message; without success it is closed.
FindNode ==
  /\ Doing("find") \/ Doing("check")
  /\ LET c == Conn
         known == IF Doing("find") THEN token
                  ELSE credential # 0 /\ Head(chain).certificate = credential
     IN  IF known
         THEN /\ Then(IF Doing("find") THEN "enrol" ELSE "version", c, 0)
              /\ overlapped' = (overlapped \/ (Doing("find")
                     /\ \E n \in 2..Len(chain) : chain[n].kind = "enrol"))
              /\ UNCHANGED link
         ELSE Done /\ link' = ToldToClose(c) /\ UNCHANGED overlapped
  /\ UNCHANGED <<inbox, identified, reply, nodeRecord, hub, agentSide, missed, stray,
                 nodeRestarts, hubRestarts>>

\* attachAgent as far as its first await: the previous connection is told to close.
Attached(c) ==
  /\ hub' = c /\ Then("attach", c, 0)
  /\ link' = (IF hub \notin {0, c} /\ link[hub] = "open" THEN ToldToClose(hub) ELSE link)

\* Mutant: the token stays.
EnrolAgain ==
  /\ Doing("enrol")
  /\ credential' = Conn /\ UNCHANGED <<token, online>>
  /\ reply' = [reply EXCEPT ![Conn] = TRUE]
  /\ Attached(Conn)
  /\ UNCHANGED <<inbox, identified, agentSide, history, nodeRestarts, hubRestarts>>

Enrol ==
  /\ Doing("enrol")
  /\ credential' = Conn /\ token' = FALSE /\ UNCHANGED online
  /\ reply' = [reply EXCEPT ![Conn] = TRUE]
  /\ Attached(Conn)
  /\ UNCHANGED <<inbox, identified, agentSide, history, nodeRestarts, hubRestarts>>

Welcome ==
  /\ Doing("version") /\ Attached(Conn)
  /\ UNCHANGED <<inbox, identified, reply, nodeRecord, agentSide, history, nodeRestarts, hubRestarts>>

\* The rest of attachAgent; its last read is that of sendPendingTasks.
ShowOnline ==
  /\ Doing("attach") /\ online' = TRUE /\ Then("pending", Conn, 0)
  /\ UNCHANGED <<wire, token, credential, hub, agentSide, history, nodeRestarts, hubRestarts>>

Identify ==
  /\ Doing("pending") /\ Done /\ identified' = [identified EXCEPT ![Conn] = TRUE]
  /\ UNCHANGED <<link, inbox, reply, nodeRecord, hub, agentSide, history, nodeRestarts,
                 hubRestarts>>

StoreBeat ==
  /\ Doing("beat") /\ Done /\ online' = TRUE
  /\ stray' = (stray \/ Conn # hub)
  /\ UNCHANGED <<wire, token, credential, hub, agentSide, missed, overlapped, nodeRestarts,
                 hubRestarts>>

StoreOffline ==
  /\ Doing("offline") /\ Done /\ online' = FALSE /\ stray' = FALSE
  /\ UNCHANGED <<wire, token, credential, hub, agentSide, missed, overlapped, nodeRestarts,
                 hubRestarts>>

\* Mutant: the hub's entry goes and the record is left as it is.
CloseQuietly(c) ==
  /\ link[c] = "closing" /\ link' = [link EXCEPT ![c] = "closed"]
  /\ hub' = (IF hub = c THEN 0 ELSE hub)
  /\ UNCHANGED <<inbox, identified, reply, chain, nodeRecord, agentSide, history,
                 nodeRestarts, hubRestarts>>

\* The close event; an unread message of the connection is lost.
CloseConnection(c) ==
  /\ link[c] = "closing" /\ link' = [link EXCEPT ![c] = "closed"]
  /\ IF identified[c] /\ hub = c
     THEN /\ hub' = 0 /\ chain' = Append(chain, Asks("offline", c, 0))
          /\ UNCHANGED missed
     ELSE missed' = missed \cup {c} /\ UNCHANGED <<hub, chain>>
  /\ UNCHANGED <<inbox, identified, reply, nodeRecord, agentSide, stray, overlapped,
                 nodeRestarts, hubRestarts>>

HubRestarts ==
  /\ hubRestarts < MaxHubRestarts /\ hubRestarts' = hubRestarts + 1
  /\ link' = [c \in Connections |-> IF link[c] = "none" THEN "none" ELSE "closed"]
  /\ chain' = <<>> /\ hub' = 0
  /\ UNCHANGED <<inbox, identified, reply, nodeRecord, agentSide, history, nodeRestarts>>

-----------------------------------------------------------------------------
SessionNext ==
  \/ \E c \in Connections : DialIn(c) \/ ReadMessage(c) \/ CloseConnection(c)
  \/ SendBeat \/ TakeCredential \/ SaveCredential \/ LoseConnection \/ AgentProcessDies
  \/ FindNode \/ Enrol \/ Welcome \/ ShowOnline \/ Identify \/ StoreBeat \/ StoreOffline
  \/ HubRestarts

SessionSpec == SessionInit /\ [][SessionNext]_sessionVars

-----------------------------------------------------------------------------
(* Properties *)

\* The variables have their types (types.ts, NodeRecord).
SessionTypeOK ==
  /\ link \in [Connections -> {"none", "open", "closing", "closed"}]
  /\ inbox \in [Connections -> Seq(Greeting \cup {Beat})]
  /\ identified \in [Connections -> BOOLEAN] /\ reply \in [Connections -> BOOLEAN]
  /\ chain \in Seq([kind : OpKinds, conn : Connections, certificate : Certificates])
  /\ token \in BOOLEAN /\ credential \in Certificates /\ online \in BOOLEAN
  /\ hub \in Certificates /\ onDisk \in Certificates /\ inUse \in Certificates
  /\ talking \in Certificates /\ missed \subseteq Connections
  /\ stray \in BOOLEAN /\ overlapped \in BOOLEAN
  /\ nodeRestarts \in Nat /\ hubRestarts \in Nat

\* The credential an agent holds is the node's, however often it reconnected while it
\* enrolled, unless two of its connections had found the token before either cleared
\* it: the agent can then never authenticate again (server.ts:402-423).
EnrolledAgentIsKnown == inUse # 0 => inUse = credential \/ overlapped

Quiet == chain = <<>> /\ \A c \in Connections : link[c] \in {"open", "closing"} => inbox[c] = <<>>

\* A node is shown online exactly while it is connected: whatever older connections do
\* meanwhile, one whose connection the hub has is online, and one that is online has a
\* connection, but after a restart of the panel, when its connection died during the
\* handshake, or when a connection that had been superseded sent a last heartbeat
\* (server.ts:294-306, 448-454, 1254-1260).
OnlineFollowsHub ==
  Quiet =>
    /\ hub # 0 => online
    /\ online /\ hubRestarts = 0 /\ ~stray
         => hub # 0 /\ (link[hub] \in {"open", "closing"} \/ hub \in missed)
=============================================================================
