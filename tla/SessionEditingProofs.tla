------------------------ MODULE SessionEditingProofs ------------------------
(***************************************************************************)
(* Proofs about AgentSession and FileEditing, for any number of connections, *)
(* restarts, openings, saves and versions of the file.                     *)
(***************************************************************************)
EXTENDS AgentSession, FileEditing, TLAPS

\* The operations of the store.
Op == [kind : OpKinds, conn : Connections, certificate : Certificates]
\* The operations of a handshake.
Handshake == {"find", "enrol", "check", "version", "attach", "pending"}

-----------------------------------------------------------------------------
(* What a chain of operations holds *)

Has(s, kind) == \E i \in DOMAIN s : s[i].kind = kind
Mentions(s, c) == \E i \in DOMAIN s : s[i].conn = c
ShakesHands(s, c) == \E i \in DOMAIN s : s[i].kind \in Handshake /\ s[i].conn = c

OnlyOnce(s, kind) == \A i, j \in DOMAIN s : s[i].kind = kind /\ s[j].kind = kind => i = j
ShakesOnce(s, c) ==
  \A i, j \in DOMAIN s :
    /\ s[i].kind \in Handshake /\ s[i].conn = c
    /\ s[j].kind \in Handshake /\ s[j].conn = c
    => i = j

\* The last connection that it attaches is c.
AttachesLast(s, c) ==
  \A i \in DOMAIN s : s[i].kind = "attach" =>
    \E j \in DOMAIN s : j >= i /\ s[j].kind = "attach" /\ s[j].conn = c
\* It attaches a connection after each that it takes offline.
Reattaches(s) ==
  \A i \in DOMAIN s : s[i].kind = "offline" => \E j \in DOMAIN s : j > i /\ s[j].kind = "attach"
-----------------------------------------------------------------------------
(* The inductive invariant *)

\* A node was enrolled if and only if its token is used.  Until the token was found twice,
\* one operation at most will enrol it, while the token is there, and whoever holds a
\* credential, or is sent one, has the node's.
OneEnrolment ==
  /\ token <=> credential = 0
  /\ ~overlapped =>
       /\ OnlyOnce(chain, "enrol") /\ (Has(chain, "enrol") => token)
       /\ \A c \in Connections : reply[c] => c = credential
       /\ {inUse, onDisk} \subseteq {0, credential}

\* A connection shakes hands once: its first message, then one operation after another,
\* then it is identified.
OneHandshake ==
  \A c \in Connections :
    /\ \A k \in DOMAIN inbox[c] : inbox[c][k].type # "heartbeat" =>
         k = 1 /\ ~identified[c] /\ ~ShakesHands(chain, c)
    /\ ShakesHands(chain, c) => ~identified[c]
    /\ ShakesOnce(chain, c)

\* What was not dialled is unknown to the panel.
DialledFirst ==
  /\ talking # 0 => link[talking] # "none"
  /\ hub # 0 => link[hub] # "none"
  /\ \A c \in Connections : link[c] = "none" =>
       inbox[c] = <<>> /\ ~identified[c] /\ ~Mentions(chain, c)

\* A closed connection is in the hub only if its close event came before its identity.
ClosedLeavesHub ==
  hubRestarts = 0 =>
    \A c \in Connections : link[c] = "closed" => c \in missed \/ (identified[c] /\ hub # c)

\* The last connection that was attached is the hub's, and is shown online after every
\* earlier one was shown offline; with no connection the node is offline or about to be.
OnlineAfterOffline ==
  /\ Has(chain, "attach") => hub # 0 /\ AttachesLast(chain, hub)
  /\ hub # 0 => (online \/ Has(chain, "attach")) /\ Reattaches(chain)
  /\ hub = 0 /\ online /\ ~stray /\ hubRestarts = 0 => Has(chain, "offline")

SessionInv ==
  SessionTypeOK /\ OneEnrolment /\ OneHandshake /\ DialledFirst /\ ClosedLeavesHub
    /\ OnlineAfterOffline
-----------------------------------------------------------------------------
(* Lemmas about chains *)

\* The first operation of a chain and the rest.
LEMMA ChainOfTail ==
  ASSUME NEW s \in Seq(Op), s # <<>>
  PROVE  /\ Len(s) \in Nat \ {0} /\ DOMAIN s = 1..Len(s) /\ Head(s) = s[1] /\ Head(s) \in Op
         /\ Tail(s) \in Seq(Op) /\ DOMAIN Tail(s) = 1..(Len(s) - 1)
         /\ \A i \in 1..(Len(s) - 1) : Tail(s)[i] = s[i + 1]
         /\ \A i \in DOMAIN s : i = 1 \/ (i - 1 \in DOMAIN Tail(s) /\ Tail(s)[i - 1] = s[i])
OBVIOUS

\* What a chain without its first operation holds.
LEMMA TailHolds ==
  ASSUME NEW s \in Seq(Op), s # <<>>
  PROVE  /\ \A k : Has(s, k) <=> Head(s).kind = k \/ Has(Tail(s), k)
         /\ \A c : Mentions(s, c) <=> Head(s).conn = c \/ Mentions(Tail(s), c)
         /\ \A c : ShakesHands(s, c) <=>
              (Head(s).kind \in Handshake /\ Head(s).conn = c) \/ ShakesHands(Tail(s), c)
<1>1. 1 \in DOMAIN s /\ Head(s) = s[1]
      /\ (\A i \in DOMAIN Tail(s) : i + 1 \in DOMAIN s /\ Tail(s)[i] = s[i + 1])
      /\ (\A i \in DOMAIN s : i = 1 \/ (i - 1 \in DOMAIN Tail(s) /\ Tail(s)[i - 1] = s[i]))
  BY ChainOfTail
<1>2. ASSUME NEW k PROVE Has(s, k) <=> Head(s).kind = k \/ Has(Tail(s), k)
  <2>1. ASSUME Has(s, k), Head(s).kind # k
        PROVE  Has(Tail(s), k)
    <3>1. PICK i \in DOMAIN s : s[i].kind = k
      BY <2>1 DEF Has
    <3>2. i - 1 \in DOMAIN Tail(s) /\ Tail(s)[i - 1] = s[i]
      BY <1>1, <2>1, <3>1
    <3> QED BY <3>1, <3>2 DEF Has
  <2>2. ASSUME Has(Tail(s), k) PROVE Has(s, k)
    <3>1. PICK i \in DOMAIN Tail(s) : Tail(s)[i].kind = k
      BY <2>2 DEF Has
    <3> QED BY <1>1, <3>1 DEF Has
  <2>3. Head(s).kind = k => Has(s, k)
    BY <1>1 DEF Has
  <2> QED BY <2>1, <2>2, <2>3
<1>3. ASSUME NEW c PROVE Mentions(s, c) <=> Head(s).conn = c \/ Mentions(Tail(s), c)
  <2>1. ASSUME Mentions(s, c), Head(s).conn # c
        PROVE  Mentions(Tail(s), c)
    <3>1. PICK i \in DOMAIN s : s[i].conn = c
      BY <2>1 DEF Mentions
    <3>2. i - 1 \in DOMAIN Tail(s) /\ Tail(s)[i - 1] = s[i]
      BY <1>1, <2>1, <3>1
    <3> QED BY <3>1, <3>2 DEF Mentions
  <2>2. ASSUME Mentions(Tail(s), c) PROVE Mentions(s, c)
    <3>1. PICK i \in DOMAIN Tail(s) : Tail(s)[i].conn = c
      BY <2>2 DEF Mentions
    <3> QED BY <1>1, <3>1 DEF Mentions
  <2>3. Head(s).conn = c => Mentions(s, c)
    BY <1>1 DEF Mentions
  <2> QED BY <2>1, <2>2, <2>3
<1>4. ASSUME NEW c
      PROVE  ShakesHands(s, c) <=>
               (Head(s).kind \in Handshake /\ Head(s).conn = c) \/ ShakesHands(Tail(s), c)
  <2>1. ASSUME ShakesHands(s, c), ~(Head(s).kind \in Handshake /\ Head(s).conn = c)
        PROVE  ShakesHands(Tail(s), c)
    <3>1. PICK i \in DOMAIN s : s[i].kind \in Handshake /\ s[i].conn = c
      BY <2>1 DEF ShakesHands
    <3>2. i - 1 \in DOMAIN Tail(s) /\ Tail(s)[i - 1] = s[i]
      BY <1>1, <2>1, <3>1
    <3> QED BY <3>1, <3>2 DEF ShakesHands
  <2>2. ASSUME ShakesHands(Tail(s), c) PROVE ShakesHands(s, c)
    BY <1>1, <2>2 DEF ShakesHands
  <2>3. Head(s).kind \in Handshake /\ Head(s).conn = c => ShakesHands(s, c)
    BY <1>1 DEF ShakesHands
  <2> QED BY <2>1, <2>2, <2>3
<1> QED BY <1>2, <1>3, <1>4

\* What it holds once is gone with it, and what is in order stays so.
LEMMA TailOrder ==
  ASSUME NEW s \in Seq(Op), s # <<>>
  PROVE  /\ \A k : OnlyOnce(s, k) => OnlyOnce(Tail(s), k)
                                      /\ (Head(s).kind = k => ~Has(Tail(s), k))
         /\ \A c : ShakesOnce(s, c) =>
              /\ ShakesOnce(Tail(s), c)
              /\ Head(s).kind \in Handshake /\ Head(s).conn = c => ~ShakesHands(Tail(s), c)
         /\ \A c : AttachesLast(s, c) => AttachesLast(Tail(s), c)
         /\ Reattaches(s) =>
              Reattaches(Tail(s)) /\ (Head(s).kind = "offline" => Has(Tail(s), "attach"))
<1>1. 1 \in DOMAIN s /\ Head(s) = s[1]
      /\ (\A i \in DOMAIN Tail(s) : i \in Nat \ {0} /\ i + 1 \in DOMAIN s /\ Tail(s)[i] = s[i + 1])
      /\ (\A i \in DOMAIN s : i = 1 \/ (i - 1 \in DOMAIN Tail(s) /\ Tail(s)[i - 1] = s[i]))
      /\ (\A i \in DOMAIN s : i \in Nat \ {0})
  BY ChainOfTail
<1>2. \A i, j \in DOMAIN Tail(s) : i + 1 = j + 1 => i = j
  BY <1>1
<1>3. \A i \in DOMAIN Tail(s) : i + 1 # 1
  BY <1>1
<1>4. ASSUME NEW k, OnlyOnce(s, k)
      PROVE  OnlyOnce(Tail(s), k) /\ (Head(s).kind = k => ~Has(Tail(s), k))
  BY <1>1, <1>2, <1>3, <1>4 DEF OnlyOnce, Has
<1>5. ASSUME NEW c, ShakesOnce(s, c)
      PROVE  /\ ShakesOnce(Tail(s), c)
             /\ Head(s).kind \in Handshake /\ Head(s).conn = c => ~ShakesHands(Tail(s), c)
  BY <1>1, <1>2, <1>3, <1>5 DEF ShakesOnce, ShakesHands
<1>6. ASSUME NEW c, AttachesLast(s, c)
      PROVE  AttachesLast(Tail(s), c)
  <2> SUFFICES ASSUME NEW i \in DOMAIN Tail(s), Tail(s)[i].kind = "attach"
               PROVE  \E j \in DOMAIN Tail(s) :
                        j >= i /\ Tail(s)[j].kind = "attach" /\ Tail(s)[j].conn = c
    BY DEF AttachesLast
  <2>1. PICK j \in DOMAIN s : j >= i + 1 /\ s[j].kind = "attach" /\ s[j].conn = c
    BY <1>1, <1>6 DEF AttachesLast
  <2>2. j # 1 /\ j - 1 >= i
    BY <1>1, <2>1
  <2> QED BY <1>1, <2>1, <2>2
<1>7. ASSUME Reattaches(s)
      PROVE  Reattaches(Tail(s)) /\ (Head(s).kind = "offline" => Has(Tail(s), "attach"))
  <2>1. ASSUME NEW i \in DOMAIN Tail(s), Tail(s)[i].kind = "offline"
        PROVE  \E j \in DOMAIN Tail(s) : j > i /\ Tail(s)[j].kind = "attach"
    <3>1. PICK j \in DOMAIN s : j > i + 1 /\ s[j].kind = "attach"
      BY <1>1, <1>7, <2>1 DEF Reattaches
    <3>2. j # 1 /\ j - 1 > i
      BY <1>1, <3>1
    <3> QED BY <1>1, <3>1, <3>2
  <2>2. ASSUME Head(s).kind = "offline" PROVE Has(Tail(s), "attach")
    <3>1. PICK j \in DOMAIN s : j > 1 /\ s[j].kind = "attach"
      BY <1>1, <1>7, <2>2 DEF Reattaches
    <3>2. j - 1 \in DOMAIN Tail(s) /\ Tail(s)[j - 1] = s[j]
      BY <1>1, <3>1
    <3> QED BY <3>1, <3>2 DEF Has
  <2> QED BY <2>1, <2>2 DEF Reattaches
<1> QED BY <1>4, <1>5, <1>6, <1>7

\* What a chain with one more operation holds.
LEMMA AppendHolds ==
  ASSUME NEW s \in Seq(Op), NEW o \in Op
  PROVE  /\ Append(s, o) \in Seq(Op)
         /\ \A k : Has(Append(s, o), k) <=> Has(s, k) \/ o.kind = k
         /\ \A c : Mentions(Append(s, o), c) <=> Mentions(s, c) \/ o.conn = c
         /\ \A c : ShakesHands(Append(s, o), c) <=>
              ShakesHands(s, c) \/ (o.kind \in Handshake /\ o.conn = c)
<1>1. /\ DOMAIN Append(s, o) = DOMAIN s \cup {Len(s) + 1}
      /\ \A i \in DOMAIN s : Append(s, o)[i] = s[i]
      /\ Append(s, o)[Len(s) + 1] = o
  OBVIOUS
<1> QED BY <1>1 DEF Has, Mentions, ShakesHands

\* What it holds once it still does, unless it gets another; what it attaches stays in order.
LEMMA AppendOrder ==
  ASSUME NEW s \in Seq(Op), NEW o \in Op
  PROVE  /\ \A k : OnlyOnce(s, k) /\ (o.kind = k => ~Has(s, k)) => OnlyOnce(Append(s, o), k)
         /\ \A c : /\ ShakesOnce(s, c)
                   /\ o.kind \in Handshake /\ o.conn = c => ~ShakesHands(s, c)
                   => ShakesOnce(Append(s, o), c)
         /\ \A c : AttachesLast(s, c) /\ o.kind # "attach" => AttachesLast(Append(s, o), c)
         /\ o.kind = "attach" => AttachesLast(Append(s, o), o.conn) /\ Reattaches(Append(s, o))
         /\ Reattaches(s) /\ o.kind # "offline" => Reattaches(Append(s, o))
<1> DEFINE r == Append(s, o)
<1>1. /\ DOMAIN r = DOMAIN s \cup {Len(s) + 1}
      /\ \A i \in DOMAIN s : r[i] = s[i]
      /\ r[Len(s) + 1] = o /\ Len(s) + 1 \notin DOMAIN s
      /\ \A i \in DOMAIN r : i \in Nat /\ i <= Len(s) + 1
      /\ \A i \in DOMAIN s : i < Len(s) + 1
  OBVIOUS
<1> HIDE DEF r
<1>2. ASSUME NEW k, OnlyOnce(s, k), o.kind = k => ~Has(s, k)
      PROVE  OnlyOnce(r, k)
  BY <1>1, <1>2 DEF OnlyOnce, Has
<1>3. ASSUME NEW c, ShakesOnce(s, c), o.kind \in Handshake /\ o.conn = c => ~ShakesHands(s, c)
      PROVE  ShakesOnce(r, c)
  BY <1>1, <1>3 DEF ShakesOnce, ShakesHands
<1>4. ASSUME NEW c, AttachesLast(s, c), o.kind # "attach"
      PROVE  AttachesLast(r, c)
  BY <1>1, <1>4 DEF AttachesLast
<1>5. ASSUME o.kind = "attach"
      PROVE  AttachesLast(r, o.conn) /\ Reattaches(r)
  <2>1. o.kind # "offline"
    BY <1>5
  <2> QED BY <1>1, <1>5, <2>1 DEF AttachesLast, Reattaches
<1>6. ASSUME Reattaches(s), o.kind # "offline"
      PROVE  Reattaches(r)
  BY <1>1, <1>6 DEF Reattaches
<1> QED BY <1>2, <1>3, <1>4, <1>5, <1>6 DEF r

\* A chain without operations holds nothing.
LEMMA EmptyChain ==
  /\ \A k : ~Has(<<>>, k) /\ OnlyOnce(<<>>, k)
  /\ \A c : ~Mentions(<<>>, c) /\ ~ShakesHands(<<>>, c) /\ ShakesOnce(<<>>, c)
            /\ AttachesLast(<<>>, c)
  /\ Reattaches(<<>>) /\ <<>> \in Seq(Op)
BY DEF Has, OnlyOnce, Mentions, ShakesHands, ShakesOnce, AttachesLast, Reattaches
-----------------------------------------------------------------------------
(* Types *)

\* The operations that handlers ask for.
LEMMA AsksTyped ==
  ASSUME NEW k \in OpKinds, NEW c \in Connections, NEW cert \in Certificates
  PROVE  /\ Asks(k, c, cert) \in Op
         /\ Asks(k, c, cert).kind = k /\ Asks(k, c, cert).conn = c
BY DEF Asks, Op

\* The operation whose turn it is.
LEMMA HeadTyped ==
  ASSUME chain \in Seq(Op), chain # <<>>
  PROVE  Head(chain) \in Op /\ Conn \in Connections /\ Tail(chain) \in Seq(Op)
<1>1. Head(chain) \in Op /\ Tail(chain) \in Seq(Op)
  BY ChainOfTail
<1> QED BY <1>1 DEF Conn, Op

\* Connections are numbers, and 0 is none of them.
LEMMA ConnectionsTyped ==
  /\ 0 \in Certificates /\ Connections \subseteq Certificates /\ 0 \notin Connections
  /\ Certificates \subseteq Nat
BY SessionAssumption DEF Connections, Certificates

\* A message that is read and asks the store something.
LEMMA ReadAsks ==
  ASSUME SessionTypeOK, NEW c \in Connections, ReadMessage(c)
  PROVE  /\ inbox[c] # <<>> /\ Head(inbox[c]) \in Greeting \cup {Beat}
         /\ Tail(inbox[c]) \in Seq(Greeting \cup {Beat})
         /\ \/ chain' = chain
            \/ /\ Head(inbox[c]).type = "heartbeat" => identified[c]
               /\ link' = link
               /\ \E o \in Op : /\ o.conn = c /\ o.kind \in {"find", "check", "beat"}
                                /\ Head(inbox[c]).type = "heartbeat" <=> o.kind = "beat"
                                /\ chain' = Append(chain, o)
<1> DEFINE m == Head(inbox[c])
<1>1. inbox[c] # <<>> /\ inbox[c] \in Seq(Greeting \cup {Beat})
  BY DEF ReadMessage, SessionTypeOK
<1>2. m \in Greeting \cup {Beat} /\ Tail(inbox[c]) \in Seq(Greeting \cup {Beat})
  BY <1>1
<1>3. m.type \in {"register", "authenticate", "heartbeat"} /\ m.certificate \in Certificates
  BY <1>2, ConnectionsTyped DEF Greeting, Beat
<1>4. CASE m.type # "heartbeat" \/ identified[c]
  <2> DEFINE k == CASE m.type = "register" -> "find" [] m.type = "authenticate" -> "check"
                    [] OTHER -> "beat"
  <2>1. chain' = Append(chain, Asks(k, c, m.certificate)) /\ link' = link
    BY <1>4 DEF ReadMessage
  <2>2. k \in {"find", "check", "beat"} /\ (m.type = "heartbeat" <=> k = "beat")
    BY <1>3
  <2>3. k \in OpKinds
    BY <2>2 DEF OpKinds
  <2> HIDE DEF k
  <2>4. /\ Asks(k, c, m.certificate) \in Op
        /\ Asks(k, c, m.certificate).kind = k /\ Asks(k, c, m.certificate).conn = c
    BY <1>3, <2>3, AsksTyped
  <2> QED BY <1>1, <1>2, <1>4, <2>1, <2>2, <2>4
<1>5. CASE ~(m.type # "heartbeat" \/ identified[c])
  BY <1>1, <1>2, <1>5 DEF ReadMessage
<1> QED BY <1>4, <1>5

\* What an operation that goes on puts at the end of the chain.
LEMMA NextTyped ==
  ASSUME chain \in Seq(Op), chain # <<>>, NEW k \in OpKinds, Then(k, Conn, 0)
  PROVE  \E o \in Op : o.kind = k /\ o.conn = Conn /\ chain' = Append(Tail(chain), o)
BY HeadTyped, AsksTyped, ConnectionsTyped DEF Then

\* A step keeps the types.
LEMMA SessionStepTyped ==
  ASSUME SessionTypeOK, SessionNext
  PROVE  SessionTypeOK'
<1> USE ConnectionsTyped DEF wire, nodeRecord, agentSide, history
<1>0. chain \in Seq(Op)
  BY DEF SessionTypeOK, Op
<1>1. ASSUME chain # <<>>
      PROVE  Conn \in Connections /\ Tail(chain) \in Seq(Op)
             /\ \A k \in OpKinds : Then(k, Conn, 0) => chain' \in Seq(Op)
  BY <1>0, <1>1, HeadTyped, NextTyped, AppendHolds
<1>2. ASSUME NEW c \in Connections, DialIn(c) PROVE SessionTypeOK'
  <2>1. << [type |-> IF inUse = 0 THEN "register" ELSE "authenticate", certificate |-> inUse],
           Beat >> \in Seq(Greeting \cup {Beat})
    BY DEF Greeting, SessionTypeOK
  <2> QED BY <1>2, <2>1 DEF DialIn, SessionTypeOK
<1>3. ASSUME NEW c \in Connections, ReadMessage(c) PROVE SessionTypeOK'
  <2>1. chain' \in Seq(Op)
    <3>1. chain' = chain \/ \E o \in Op : chain' = Append(chain, o)
      BY <1>0, <1>3, ReadAsks
    <3> QED BY <1>0, <3>1
  <2>2. inbox' \in [Connections -> Seq(Greeting \cup {Beat})]
    BY <1>3, ReadAsks DEF ReadMessage, SessionTypeOK
  <2>3. link' \in [Connections -> {"none", "open", "closing", "closed"}]
    BY <1>3 DEF ReadMessage, ToldToClose, SessionTypeOK
  <2> QED BY <1>3, <2>1, <2>2, <2>3 DEF ReadMessage, SessionTypeOK, Op
<1>4. ASSUME NEW c \in Connections, CloseConnection(c) PROVE SessionTypeOK'
  <2>1. Asks("offline", c, 0) \in Op
    BY AsksTyped DEF OpKinds
  <2>2. chain' \in Seq(Op)
    BY <1>0, <1>4, <2>1, AppendHolds DEF CloseConnection
  <2> QED BY <1>4, <2>2 DEF CloseConnection, SessionTypeOK, Op
<1>5. CASE SendBeat
  <2>1. Append(inbox[talking], Beat) \in Seq(Greeting \cup {Beat})
    BY <1>5 DEF SendBeat, SessionTypeOK, Certificates
  <2> QED BY <1>5, <2>1 DEF SendBeat, SessionTypeOK, Certificates
<1>6. CASE TakeCredential \/ SaveCredential
  BY <1>6 DEF TakeCredential, SaveCredential, SessionTypeOK
<1>7. CASE LoseConnection \/ AgentProcessDies
  <2>1. link' \in [Connections -> {"none", "open", "closing", "closed"}]
    BY <1>7 DEF LoseConnection, AgentProcessDies, SessionTypeOK
  <2>2. /\ UNCHANGED <<inbox, identified, reply, chain, nodeRecord, hub, onDisk, history,
                       hubRestarts>>
        /\ talking' = 0 /\ inUse' \in {inUse, onDisk}
        /\ nodeRestarts' \in {nodeRestarts, nodeRestarts + 1}
    BY <1>7 DEF LoseConnection, AgentProcessDies
  <2> QED BY <2>1, <2>2 DEF SessionTypeOK
<1>8. CASE FindNode
  <2>1. chain # <<>> /\ Conn \in Connections
    BY <1>1, <1>8 DEF FindNode, Doing
  <2>2. chain' \in Seq(Op)
    BY <1>1, <1>8, <2>1 DEF FindNode, Done, OpKinds
  <2>3. link' \in [Connections -> {"none", "open", "closing", "closed"}]
    BY <1>8, <2>1 DEF FindNode, ToldToClose, SessionTypeOK
  <2>4. overlapped' \in BOOLEAN
    BY <1>8 DEF FindNode, SessionTypeOK
  <2> QED BY <1>8, <2>2, <2>3, <2>4 DEF FindNode, SessionTypeOK, Op
<1>9. CASE Enrol \/ Welcome
  <2>1. chain # <<>> /\ Conn \in Connections /\ Attached(Conn)
    BY <1>1, <1>9 DEF Enrol, Welcome, Doing
  <2>2. chain' \in Seq(Op)
    BY <1>1, <2>1 DEF Attached, OpKinds
  <2>3. link' \in [Connections -> {"none", "open", "closing", "closed"}] /\ hub' \in Certificates
    BY <2>1 DEF Attached, ToldToClose, SessionTypeOK
  <2> QED BY <1>9, <2>1, <2>2, <2>3 DEF Enrol, Welcome, SessionTypeOK, Op
<1>10. CASE ShowOnline \/ Identify \/ StoreBeat \/ StoreOffline
  <2>1. chain # <<>> /\ Conn \in Connections
    BY <1>1, <1>10 DEF ShowOnline, Identify, StoreBeat, StoreOffline, Doing
  <2>2. chain' \in Seq(Op)
    BY <1>1, <1>10, <2>1 DEF ShowOnline, Identify, StoreBeat, StoreOffline, Done, OpKinds
  <2>3. online' \in BOOLEAN /\ stray' \in BOOLEAN
    BY <1>10 DEF ShowOnline, Identify, StoreBeat, StoreOffline, SessionTypeOK
  <2>4. identified' \in [Connections -> BOOLEAN]
    BY <1>10, <2>1 DEF ShowOnline, Identify, StoreBeat, StoreOffline, SessionTypeOK
  <2>5. UNCHANGED <<link, inbox, reply, token, credential, hub, agentSide, missed, overlapped,
                    nodeRestarts, hubRestarts>>
    BY <1>10 DEF ShowOnline, Identify, StoreBeat, StoreOffline
  <2> QED BY <2>2, <2>3, <2>4, <2>5 DEF SessionTypeOK, Op
<1>11. CASE HubRestarts
  <2>1. link' \in [Connections -> {"none", "open", "closing", "closed"}]
    BY <1>11 DEF HubRestarts, SessionTypeOK
  <2> QED BY <1>11, <2>1, EmptyChain DEF HubRestarts, SessionTypeOK, Op
<1> QED BY <1>2, <1>3, <1>4, <1>5, <1>6, <1>7, <1>8, <1>9, <1>10, <1>11 DEF SessionNext
-----------------------------------------------------------------------------
(* Each part of the invariant is kept *)

\* The operations of the store that a handler carries out or ends with.
LEMMA OperationsTyped ==
  ASSUME SessionTypeOK,
         FindNode \/ Enrol \/ Welcome \/ ShowOnline \/ Identify \/ StoreBeat \/ StoreOffline
  PROVE  /\ chain # <<>> /\ Head(chain) \in Op /\ Conn \in Connections
         /\ chain \in Seq(Op) /\ Tail(chain) \in Seq(Op) /\ Conn = Head(chain).conn
         /\ \/ chain' = Tail(chain)
            \/ \E o \in Op : o.conn = Conn /\ chain' = Append(Tail(chain), o)
                 /\ \/ FindNode /\ o.kind \in {"enrol", "version"}
                    \/ (Enrol \/ Welcome) /\ o.kind = "attach"
                    \/ ShowOnline /\ o.kind = "pending"
<1>1. chain # <<>> /\ chain \in Seq(Op)
  BY DEF FindNode, Enrol, Welcome, ShowOnline, Identify, StoreBeat, StoreOffline, Doing,
         SessionTypeOK, Op
<1>2. CASE FindNode
  BY <1>1, <1>2, HeadTyped, NextTyped DEF FindNode, Done, OpKinds, Conn
<1>3. CASE Enrol \/ Welcome
  BY <1>1, <1>3, HeadTyped, NextTyped DEF Enrol, Welcome, Attached, OpKinds, Conn
<1>4. CASE ShowOnline
  BY <1>1, <1>4, HeadTyped, NextTyped DEF ShowOnline, OpKinds, Conn
<1>5. CASE Identify \/ StoreBeat \/ StoreOffline
  BY <1>1, <1>5, HeadTyped DEF Identify, StoreBeat, StoreOffline, Done, Conn
<1> QED BY <1>2, <1>3, <1>4, <1>5

\* The close event of the hub's identified connection, and of another.
LEMMA CloseAsks ==
  ASSUME SessionTypeOK, NEW c \in Connections, CloseConnection(c)
  PROVE  \/ /\ identified[c] /\ hub = c /\ hub' = 0 /\ missed' = missed
            /\ \E o \in Op : o.kind = "offline" /\ o.conn = c /\ chain' = Append(chain, o)
         \/ ~(identified[c] /\ hub = c) /\ missed' = missed \cup {c} /\ UNCHANGED <<hub, chain>>
<1>1. /\ Asks("offline", c, 0) \in Op
      /\ Asks("offline", c, 0).kind = "offline" /\ Asks("offline", c, 0).conn = c
  BY AsksTyped, ConnectionsTyped DEF OpKinds
<1> QED BY <1>1 DEF CloseConnection

\* Only an enrolment clears the token, and issues what the agent then has.
LEMMA EnrolmentKept ==
  ASSUME SessionTypeOK, OneEnrolment, SessionNext
  PROVE  OneEnrolment'
<1> USE ConnectionsTyped DEF wire, nodeRecord, agentSide, history
<1>0. chain \in Seq(Op)
  BY DEF SessionTypeOK, Op
<1>1. CASE UNCHANGED <<chain, token, credential, overlapped, reply, inUse, onDisk>>
  BY <1>1 DEF OneEnrolment
<1>2. CASE TakeCredential \/ SaveCredential \/ AgentProcessDies
  <2>1. UNCHANGED <<chain, token, credential, overlapped>>
    BY <1>2 DEF TakeCredential, SaveCredential, AgentProcessDies
  <2>2. ~overlapped => \A c \in Connections : reply'[c] => c = credential
    BY <1>2 DEF TakeCredential, SaveCredential, AgentProcessDies, OneEnrolment, SessionTypeOK
  <2>3. ~overlapped => {inUse', onDisk'} \subseteq {0, credential}
    BY <1>2 DEF TakeCredential, SaveCredential, AgentProcessDies, OneEnrolment, SessionTypeOK,
                Certificates
  <2> QED BY <2>1, <2>2, <2>3 DEF OneEnrolment
<1>3. ASSUME NEW o \in Op, o.kind # "enrol", chain' = Append(chain, o),
             UNCHANGED <<token, credential, overlapped, reply, inUse, onDisk>>
      PROVE  OneEnrolment'
  BY <1>0, <1>3, AppendHolds, AppendOrder DEF OneEnrolment
<1>4. ASSUME NEW c \in Connections, ReadMessage(c) PROVE OneEnrolment'
  BY <1>1, <1>3, <1>4, ReadAsks DEF ReadMessage
<1>5. ASSUME NEW c \in Connections, CloseConnection(c) PROVE OneEnrolment'
  BY <1>1, <1>3, <1>5, CloseAsks DEF CloseConnection
<1>6. ASSUME chain # <<>>, chain' = Tail(chain),
             UNCHANGED <<token, credential, overlapped, reply, inUse, onDisk>>
      PROVE  OneEnrolment'
  BY <1>0, <1>6, TailHolds, TailOrder DEF OneEnrolment
<1>7. CASE FindNode
  <2>1. chain # <<>> /\ Tail(chain) \in Seq(Op)
    BY <1>7, OperationsTyped
  <2>2. UNCHANGED <<token, credential, reply, inUse, onDisk>>
    BY <1>7 DEF FindNode
  <2>3. CASE chain' = Tail(chain) /\ overlapped' = overlapped
    BY <1>6, <2>1, <2>2, <2>3
  <2>4. ASSUME NEW o \in Op, o.kind # "enrol", chain' = Append(Tail(chain), o),
               overlapped' = overlapped
        PROVE  OneEnrolment'
    BY <1>0, <2>1, <2>2, <2>4, TailHolds, TailOrder, AppendHolds, AppendOrder DEF OneEnrolment
  <2>5. ASSUME NEW o \in Op, chain' = Append(Tail(chain), o), token,
               overlapped' <=> overlapped \/ \E n \in 2..Len(chain) : chain[n].kind = "enrol"
        PROVE  OneEnrolment'
    <3>1. Has(Tail(chain), "enrol") => overlapped'
      <4>1. \A n \in DOMAIN Tail(chain) : n + 1 \in 2..Len(chain) /\ Tail(chain)[n] = chain[n + 1]
        BY <1>0, <2>1, ChainOfTail
      <4> QED BY <2>5, <4>1 DEF Has
    <3>2. ASSUME ~overlapped'
          PROVE  ~overlapped /\ OnlyOnce(chain', "enrol")
      <4>1. ~overlapped /\ ~Has(Tail(chain), "enrol")
        BY <2>5, <3>1, <3>2
      <4>2. OnlyOnce(Tail(chain), "enrol")
        BY <1>0, <2>1, <4>1, TailOrder DEF OneEnrolment
      <4> QED BY <2>1, <2>5, <4>1, <4>2, AppendOrder
    <3> QED BY <2>2, <2>5, <3>2 DEF OneEnrolment
  <2> QED
    <3>1. CASE Doing("find") /\ token
      <4>1. overlapped' <=> overlapped \/ \E n \in 2..Len(chain) : chain[n].kind = "enrol"
        BY <1>7, <3>1 DEF FindNode
      <4>2. \E o \in Op : chain' = Append(Tail(chain), o)
        BY <1>0, <1>7, <2>1, <3>1, NextTyped DEF FindNode, OpKinds
      <4> QED BY <2>5, <3>1, <4>1, <4>2
    <3>2. CASE ~Doing("find") /\ credential # 0 /\ Head(chain).certificate = credential
      <4>1. overlapped' = overlapped
        BY <1>7, <3>2 DEF FindNode, SessionTypeOK
      <4>2. \E o \in Op : o.kind = "version" /\ chain' = Append(Tail(chain), o)
        BY <1>0, <1>7, <2>1, <3>2, NextTyped DEF FindNode, OpKinds
      <4> QED BY <2>4, <4>1, <4>2
    <3>3. CASE /\ Doing("find") => ~token
               /\ ~Doing("find") => ~(credential # 0 /\ Head(chain).certificate = credential)
      BY <1>7, <2>3, <3>3 DEF FindNode, Done
    <3> QED BY <3>1, <3>2, <3>3
<1>8. CASE Enrol
  <2>1. /\ chain # <<>> /\ Tail(chain) \in Seq(Op) /\ Conn \in Connections
        /\ Head(chain).kind = "enrol"
        /\ \E o \in Op : o.kind = "attach" /\ chain' = Append(Tail(chain), o)
    BY <1>8, <1>0, HeadTyped, NextTyped DEF Enrol, Doing, Attached, OpKinds
  <2>2. /\ credential' = Conn /\ ~token' /\ token' \in BOOLEAN
        /\ reply' = [reply EXCEPT ![Conn] = TRUE]
        /\ UNCHANGED <<overlapped, inUse, onDisk>>
    BY <1>8 DEF Enrol
  <2>4. SUFFICES ASSUME ~overlapped
                 PROVE  /\ OnlyOnce(chain', "enrol") /\ ~Has(chain', "enrol")
                        /\ \A c \in Connections : reply'[c] => c = Conn
                        /\ {inUse, onDisk} \subseteq {0, Conn}
    BY <2>1, <2>2 DEF OneEnrolment
  <2>5. OnlyOnce(chain', "enrol") /\ ~Has(chain', "enrol")
    <3>1. OnlyOnce(chain, "enrol")
      BY <2>4 DEF OneEnrolment
    <3>2. OnlyOnce(Tail(chain), "enrol") /\ ~Has(Tail(chain), "enrol")
      BY <1>0, <2>1, <3>1, TailOrder
    <3>3. PICK o \in Op : o.kind = "attach" /\ chain' = Append(Tail(chain), o)
      BY <2>1
    <3>4. o.kind # "enrol"
      BY <3>3
    <3> QED BY <2>1, <3>2, <3>3, <3>4, AppendHolds, AppendOrder
  <2>6. credential = 0
    BY <1>0, <2>1, <2>4, TailHolds DEF OneEnrolment
  <2>7. \A c \in Connections : ~reply[c]
    BY <2>4, <2>6 DEF OneEnrolment
  <2> QED BY <2>1, <2>2, <2>4, <2>5, <2>6, <2>7 DEF OneEnrolment, SessionTypeOK
<1>9. CASE Welcome \/ ShowOnline
  <2>1. chain # <<>> /\ UNCHANGED <<token, credential, overlapped, reply, inUse, onDisk>>
    BY <1>9, OperationsTyped DEF Welcome, ShowOnline
  <2>2. \E o \in Op : o.kind # "enrol" /\ chain' = Append(Tail(chain), o)
    BY <1>0, <1>9, <2>1, NextTyped DEF Welcome, ShowOnline, Attached, OpKinds
  <2>3. PICK o \in Op : o.kind # "enrol" /\ chain' = Append(Tail(chain), o)
    BY <2>2
  <2>4. Tail(chain) \in Seq(Op) /\ (Has(Tail(chain), "enrol") => Has(chain, "enrol"))
        /\ (OnlyOnce(chain, "enrol") => OnlyOnce(Tail(chain), "enrol"))
    BY <1>0, <2>1, HeadTyped, TailHolds, TailOrder
  <2>5. (Has(chain', "enrol") => Has(Tail(chain), "enrol"))
        /\ (OnlyOnce(Tail(chain), "enrol") => OnlyOnce(chain', "enrol"))
    BY <2>3, <2>4, AppendHolds, AppendOrder
  <2> QED BY <2>1, <2>4, <2>5 DEF OneEnrolment
<1>10. CASE Identify \/ StoreBeat \/ StoreOffline
  BY <1>6, <1>10 DEF Identify, StoreBeat, StoreOffline, Done, Doing
<1>11. CASE HubRestarts
  BY <1>11, EmptyChain DEF HubRestarts, OneEnrolment
<1> QED BY <1>1, <1>2, <1>4, <1>5, <1>7, <1>8, <1>9, <1>10, <1>11
        DEF SessionNext, DialIn, SendBeat, LoseConnection

\* An operation of a handshake is one of its connection.
LEMMA ShakingIsNamed ==
  ASSUME NEW s, NEW c
  PROVE  /\ ShakesHands(s, c) => Mentions(s, c)
         /\ Has(s, "attach") /\ AttachesLast(s, c) => ShakesHands(s, c)
BY DEF ShakesHands, Mentions, Has, AttachesLast, Handshake

\* An operation of a handshake gives way to the next one of the same connection.
LEMMA HandshakeGoesOn ==
  ASSUME SessionTypeOK, OneHandshake, FindNode \/ Enrol \/ Welcome \/ ShowOnline,
         NEW c \in Connections
  PROVE  /\ ShakesHands(chain', c) => ShakesHands(chain, c)
         /\ ShakesOnce(chain', c)
<1>1. /\ chain # <<>> /\ Head(chain) \in Op /\ chain \in Seq(Op) /\ Tail(chain) \in Seq(Op)
      /\ Conn = Head(chain).conn
      /\ \/ chain' = Tail(chain)
         \/ \E o \in Op : o.conn = Conn /\ chain' = Append(Tail(chain), o)
  BY OperationsTyped
<1>2. Head(chain).kind \in Handshake
  BY DEF FindNode, Enrol, Welcome, ShowOnline, Doing, Handshake
<1>3. /\ ShakesHands(chain, c) <=> Conn = c \/ ShakesHands(Tail(chain), c)
      /\ ShakesOnce(Tail(chain), c) /\ (Conn = c => ~ShakesHands(Tail(chain), c))
  BY <1>1, <1>2, TailHolds, TailOrder DEF OneHandshake
<1>4. CASE chain' = Tail(chain)
  BY <1>3, <1>4
<1>5. ASSUME NEW o \in Op, o.conn = Conn, chain' = Append(Tail(chain), o)
      PROVE  /\ ShakesHands(chain', c) => ShakesHands(chain, c)
             /\ ShakesOnce(chain', c)
  <2>1. ShakesHands(chain', c) => ShakesHands(Tail(chain), c) \/ o.conn = c
    BY <1>1, <1>5, AppendHolds
  <2>2. o.conn = c => ~ShakesHands(Tail(chain), c)
    BY <1>3, <1>5
  <2>3. ShakesOnce(chain', c)
    BY <1>1, <1>3, <1>5, <2>2, AppendOrder
  <2> QED BY <1>3, <1>5, <2>1, <2>3
<1> QED BY <1>1, <1>4, <1>5

\* A connection has no more than one operation of its handshake on the chain.
LEMMA HandshakeKept ==
  ASSUME SessionTypeOK, OneHandshake, DialledFirst, SessionNext
  PROVE  OneHandshake'
<1> USE ConnectionsTyped DEF wire, nodeRecord, agentSide, history
<1> DEFINE First(c) == \A k \in DOMAIN inbox[c] : inbox[c][k].type # "heartbeat" =>
                         k = 1 /\ ~identified[c] /\ ~ShakesHands(chain, c)
<1>0. /\ chain \in Seq(Op)
      /\ \A c \in Connections : First(c) /\ (ShakesHands(chain, c) => ~identified[c])
                                         /\ ShakesOnce(chain, c)
  BY DEF SessionTypeOK, Op, OneHandshake
<1> SUFFICES ASSUME NEW c \in Connections
             PROVE  First(c)' /\ (ShakesHands(chain', c) => ~identified'[c])
                             /\ ShakesOnce(chain', c)
  BY DEF OneHandshake
<1>1. CASE UNCHANGED <<inbox, identified, chain>>
  BY <1>0, <1>1
<1>2. ASSUME NEW d \in Connections, DialIn(d)
      PROVE  First(c)' /\ UNCHANGED <<identified, chain>>
  <2>1. UNCHANGED <<identified, chain>>
    BY <1>2 DEF DialIn
  <2>2. CASE c = d
    <3>1. ~identified[c] /\ ~ShakesHands(chain, c)
      BY <1>2, <2>2, ShakingIsNamed DEF DialIn, DialledFirst
    <3>2. DOMAIN inbox'[c] = {1, 2} /\ inbox'[c][2] = Beat
      BY <1>2, <2>2 DEF DialIn, SessionTypeOK
    <3>3. \A k \in DOMAIN inbox'[c] : inbox'[c][k].type # "heartbeat" => k = 1
      BY <3>2 DEF Beat
    <3> QED BY <2>1, <3>1, <3>3
  <2>3. CASE c # d
    BY <1>0, <1>2, <2>1, <2>3 DEF DialIn, SessionTypeOK
  <2> QED BY <2>1, <2>2, <2>3
<1>3. CASE SendBeat
  <2>1. UNCHANGED <<identified, chain>>
    BY <1>3 DEF SendBeat
  <2>2. CASE c = talking
    <3>1. inbox'[c] = Append(<<>>, Beat)
      BY <1>3, <2>2 DEF SendBeat, SessionTypeOK
    <3>2. \A k \in DOMAIN inbox'[c] : inbox'[c][k].type = "heartbeat"
      BY <3>1 DEF Beat
    <3> QED BY <1>0, <2>1, <3>2
  <2>3. CASE c # talking
    BY <1>0, <1>3, <2>1, <2>3 DEF SendBeat, SessionTypeOK
  <2> QED BY <2>2, <2>3
<1>4. ASSUME NEW d \in Connections, ReadMessage(d)
      PROVE  First(c)' /\ (ShakesHands(chain', c) => ~identified'[c]) /\ ShakesOnce(chain', c)
  <2>1. identified' = identified /\ inbox' = [inbox EXCEPT ![d] = Tail(@)]
    BY <1>4 DEF ReadMessage
  <2>2. inbox[d] # <<>> /\ inbox[d] \in Seq(Greeting \cup {Beat})
    BY <1>4, ReadAsks DEF SessionTypeOK
  <2>3. /\ 1 \in DOMAIN inbox[d] /\ Head(inbox[d]) = inbox[d][1]
        /\ \A k \in DOMAIN Tail(inbox[d]) :
             k + 1 \in DOMAIN inbox[d] /\ k + 1 # 1 /\ Tail(inbox[d])[k] = inbox[d][k + 1]
    BY <2>2
  <2>4. \A k \in DOMAIN inbox'[d] : inbox'[d][k].type = "heartbeat"
    <3>1. inbox'[d] = Tail(inbox[d])
      BY <2>1 DEF SessionTypeOK
    <3> QED BY <1>0, <2>3, <3>1
  <2>5. CASE chain' = chain
    <3>1. CASE c = d
      BY <1>0, <2>1, <2>4, <2>5, <3>1
    <3>2. CASE c # d
      BY <1>0, <2>1, <2>5, <3>2 DEF SessionTypeOK
    <3> QED BY <3>1, <3>2
  <2>6. ASSUME NEW o \in Op, o.conn = d, o.kind \in {"find", "check", "beat"},
               Head(inbox[d]).type = "heartbeat" <=> o.kind = "beat",
               chain' = Append(chain, o)
        PROVE  First(c)' /\ (ShakesHands(chain', c) => ~identified'[c]) /\ ShakesOnce(chain', c)
    <3>1. o.kind \in Handshake => ~identified[d] /\ ~ShakesHands(chain, d)
      <4>1. o.kind \in Handshake => o.kind # "beat"
        BY DEF Handshake
      <4> QED BY <1>0, <2>3, <2>6, <4>1
    <3>2. ShakesHands(chain', c) <=> ShakesHands(chain, c) \/ (o.kind \in Handshake /\ d = c)
      BY <1>0, <2>6, AppendHolds
    <3>3. ShakesOnce(chain', c)
      BY <1>0, <2>6, <3>1, AppendOrder
    <3>4. First(c)'
      <4>1. CASE c = d
        BY <2>4, <4>1
      <4>2. CASE c # d
        BY <1>0, <2>1, <3>2, <4>2 DEF SessionTypeOK
      <4> QED BY <4>1, <4>2
    <3> QED BY <1>0, <2>1, <3>1, <3>2, <3>3, <3>4
  <2> QED BY <1>4, <2>5, <2>6, ReadAsks
<1>5. ASSUME NEW d \in Connections, CloseConnection(d)
      PROVE  First(c)' /\ (ShakesHands(chain', c) => ~identified'[c]) /\ ShakesOnce(chain', c)
  <2>1. UNCHANGED <<identified, inbox>>
    BY <1>5 DEF CloseConnection
  <2>2. chain' = chain \/ \E o \in Op : o.kind = "offline" /\ chain' = Append(chain, o)
    BY <1>5, CloseAsks
  <2>3. "offline" \notin Handshake
    BY DEF Handshake
  <2>4. (ShakesHands(chain', c) <=> ShakesHands(chain, c)) /\ ShakesOnce(chain', c)
    <3>1. CASE chain' = chain
      BY <1>0, <3>1
    <3>2. ASSUME NEW o \in Op, o.kind = "offline", chain' = Append(chain, o)
          PROVE  (ShakesHands(chain', c) <=> ShakesHands(chain, c)) /\ ShakesOnce(chain', c)
      <4>1. o.kind \notin Handshake
        BY <2>3, <3>2
      <4>2. ShakesHands(chain', c) <=> ShakesHands(chain, c)
        BY <1>0, <3>2, <4>1, AppendHolds
      <4>3. ShakesOnce(chain', c)
        BY <1>0, <3>2, <4>1, AppendOrder
      <4> QED BY <4>2, <4>3
    <3> QED BY <2>2, <3>1, <3>2
  <2> QED BY <1>0, <2>1, <2>4
<1>6. CASE FindNode \/ Enrol \/ Welcome \/ ShowOnline
  <2>1. UNCHANGED <<identified, inbox>>
    BY <1>6 DEF FindNode, Enrol, Welcome, ShowOnline
  <2> QED BY <1>0, <1>6, <2>1, HandshakeGoesOn
<1>7. CASE Identify \/ StoreBeat \/ StoreOffline
  <2>1. chain # <<>> /\ chain' = Tail(chain) /\ inbox' = inbox /\ Conn = Head(chain).conn
        /\ Conn \in Connections
    BY <1>7, OperationsTyped DEF Identify, StoreBeat, StoreOffline, Done
  <2>2. (ShakesHands(chain', c) => ShakesHands(chain, c)) /\ ShakesOnce(chain', c)
    BY <1>0, <2>1, TailHolds, TailOrder
  <2>3. CASE identified'[c] = identified[c]
    BY <1>0, <2>1, <2>2, <2>3
  <2>4. CASE identified'[c] # identified[c]
    <3>1. Identify /\ c = Conn
      BY <1>7, <2>1, <2>4 DEF Identify, StoreBeat, StoreOffline, SessionTypeOK
    <3>2. Head(chain).kind \in Handshake
      BY <3>1 DEF Identify, Doing, Handshake
    <3>3. ShakesHands(chain, c) /\ ~ShakesHands(chain', c)
      BY <1>0, <2>1, <3>1, <3>2, TailHolds, TailOrder
    <3> QED BY <1>0, <2>1, <2>2, <3>3
  <2> QED BY <2>3, <2>4
<1>8. CASE HubRestarts
  BY <1>0, <1>8, EmptyChain DEF HubRestarts
<1> QED BY <1>0, <1>1, <1>2, <1>3, <1>4, <1>5, <1>6, <1>7, <1>8
        DEF SessionNext, TakeCredential, SaveCredential, LoseConnection, AgentProcessDies, SendBeat

\* A connection that was dialled stays so, and what was closed has had its close event.
LEMMA LinkMoves ==
  ASSUME SessionTypeOK, SessionNext, NEW c \in Connections
  PROVE  /\ link'[c] = "none" => link[c] = "none"
         /\ link'[c] = "closed" => link[c] = "closed" \/ CloseConnection(c) \/ HubRestarts
<1> USE ConnectionsTyped DEF wire
<1>1. CASE link' = link
  BY <1>1
<1>2. ASSUME NEW d \in Connections, DialIn(d) \/ CloseConnection(d) \/ ReadMessage(d)
      PROVE  /\ link'[c] = "none" => link[c] = "none"
             /\ link'[c] = "closed" => link[c] = "closed" \/ CloseConnection(c)
  BY <1>2 DEF DialIn, CloseConnection, ReadMessage, ToldToClose, SessionTypeOK
<1>3. CASE LoseConnection \/ AgentProcessDies \/ HubRestarts
  BY <1>3 DEF LoseConnection, AgentProcessDies, HubRestarts, SessionTypeOK, Certificates
<1>4. CASE FindNode \/ Enrol \/ Welcome
  <2>1. Conn \in Connections
    BY <1>4, OperationsTyped
  <2>2. \/ link' = link \/ \E d \in Connections : link' = ToldToClose(d)
    BY <1>4, <2>1 DEF FindNode, Enrol, Welcome, Attached, SessionTypeOK, Certificates
  <2> QED BY <2>2 DEF ToldToClose, SessionTypeOK
<1> QED BY <1>1, <1>2, <1>3, <1>4
        DEF SessionNext, SendBeat, TakeCredential, SaveCredential, ShowOnline, Identify,
            StoreBeat, StoreOffline

\* Nothing comes from a connection that was not made.
LEMMA DialledKept ==
  ASSUME SessionTypeOK, DialledFirst, SessionNext
  PROVE  DialledFirst'
<1> USE ConnectionsTyped DEF wire, nodeRecord, agentSide, history
<1>0. chain \in Seq(Op)
  BY DEF SessionTypeOK, Op
<1>1. ASSUME chain # <<>>
      PROVE  Conn \in Connections /\ link[Conn] # "none"
  <2>1. Conn \in Connections /\ Mentions(chain, Conn)
    BY <1>0, <1>1, HeadTyped, TailHolds DEF Conn
  <2> QED BY <2>1 DEF DialledFirst
<1>2. talking' # 0 => link'[talking'] # "none"
  <2>1. CASE talking' \in {0, talking}
    BY <2>1, LinkMoves DEF DialledFirst, SessionTypeOK, Certificates
  <2>2. ASSUME NEW d \in Connections, DialIn(d) PROVE talking' = d /\ link'[d] = "open"
    BY <2>2 DEF DialIn, SessionTypeOK
  <2> QED BY <2>1, <2>2
          DEF SessionNext, ReadMessage, CloseConnection, SendBeat, TakeCredential,
              SaveCredential, LoseConnection, AgentProcessDies, FindNode, Enrol, Welcome,
              ShowOnline, Identify, StoreBeat, StoreOffline, HubRestarts
<1>3. hub' # 0 => link'[hub'] # "none"
  <2>1. CASE hub' \in {0, hub}
    BY <2>1, LinkMoves DEF DialledFirst, SessionTypeOK, Certificates
  <2>2. CASE Enrol \/ Welcome
    <3>1. chain # <<>> /\ hub' = Conn
      BY <2>2 DEF Enrol, Welcome, Attached, Doing
    <3> QED BY <1>1, <3>1, LinkMoves
  <2> QED BY <2>1, <2>2
          DEF SessionNext, DialIn, ReadMessage, CloseConnection, SendBeat, TakeCredential,
              SaveCredential, LoseConnection, AgentProcessDies, FindNode,
              ShowOnline, Identify, StoreBeat, StoreOffline, HubRestarts
<1>4. ASSUME NEW c \in Connections, link'[c] = "none"
      PROVE  inbox'[c] = <<>> /\ ~identified'[c] /\ ~Mentions(chain', c)
  <2>1. link[c] = "none" /\ inbox[c] = <<>> /\ ~identified[c] /\ ~Mentions(chain, c)
    BY <1>4, LinkMoves DEF DialledFirst
  <2>2. chain # <<>> => c # Conn
    BY <1>1, <2>1
  <2>3. CASE UNCHANGED <<inbox, identified, chain>>
    BY <2>1, <2>3
  <2>4. ASSUME NEW d \in Connections, DialIn(d) \/ ReadMessage(d) \/ CloseConnection(d)
        PROVE  inbox'[c] = <<>> /\ ~identified'[c] /\ ~Mentions(chain', c)
    <3>1. c # d /\ identified' = identified
      BY <1>4, <2>1, <2>4 DEF DialIn, ReadMessage, CloseConnection, SessionTypeOK
    <3>2. inbox'[c] = inbox[c]
      BY <2>4, <3>1 DEF DialIn, ReadMessage, CloseConnection, SessionTypeOK
    <3>3. chain' = chain \/ \E o \in Op : o.conn = d /\ chain' = Append(chain, o)
      BY <2>4, ReadAsks, CloseAsks DEF DialIn
    <3>4. ~Mentions(chain', c)
      <4>1. CASE chain' = chain
        BY <2>1, <4>1
      <4>2. ASSUME NEW o \in Op, o.conn = d, chain' = Append(chain, o)
            PROVE  ~Mentions(chain', c)
        BY <1>0, <2>1, <3>1, <4>2, AppendHolds
      <4> QED BY <3>3, <4>1, <4>2
    <3> QED BY <2>1, <3>1, <3>2, <3>4
  <2>5. CASE SendBeat
    <3>1. c # talking
      BY <2>1, <2>5 DEF SendBeat, DialledFirst
    <3> QED BY <2>1, <2>5, <3>1 DEF SendBeat, SessionTypeOK
  <2>6. CASE FindNode \/ Enrol \/ Welcome \/ ShowOnline \/ Identify \/ StoreBeat \/ StoreOffline
    <3>1. /\ chain # <<>> /\ Tail(chain) \in Seq(Op) /\ Conn = Head(chain).conn
          /\ Conn \in Connections
          /\ \/ chain' = Tail(chain)
             \/ \E o \in Op : o.conn = Conn /\ chain' = Append(Tail(chain), o)
      BY <2>6, OperationsTyped
    <3>2. ~Mentions(Tail(chain), c)
      BY <1>0, <2>1, <3>1, TailHolds
    <3>3. ~Mentions(chain', c)
      BY <2>2, <3>1, <3>2, AppendHolds
    <3>4. inbox' = inbox /\ identified'[c] = identified[c]
      BY <2>2, <2>6, <3>1 DEF FindNode, Enrol, Welcome, ShowOnline, Identify, StoreBeat,
                             StoreOffline, SessionTypeOK
    <3> QED BY <2>1, <3>3, <3>4
  <2>7. CASE HubRestarts
    BY <2>1, <2>7, EmptyChain DEF HubRestarts
  <2> QED BY <2>3, <2>4, <2>5, <2>6, <2>7
          DEF SessionNext, TakeCredential, SaveCredential, LoseConnection, AgentProcessDies
<1> QED BY <1>2, <1>3, <1>4 DEF DialledFirst

\* Who was identified is taken from the hub with the close event, and does not return.
LEMMA ClosedKept ==
  ASSUME SessionTypeOK, OneHandshake, ClosedLeavesHub, SessionNext
  PROVE  ClosedLeavesHub'
<1> USE ConnectionsTyped DEF wire, nodeRecord, agentSide, history
<1>0. chain \in Seq(Op)
  BY DEF SessionTypeOK, Op
<1>1. hubRestarts' = 0 => hubRestarts = 0 /\ ~HubRestarts
  BY DEF SessionTypeOK, SessionNext, DialIn, ReadMessage, CloseConnection, SendBeat,
         TakeCredential, SaveCredential, LoseConnection, AgentProcessDies, FindNode, Enrol,
         Welcome, ShowOnline, Identify, StoreBeat, StoreOffline, HubRestarts
<1>2. missed \subseteq missed'
  BY CloseAsks
     DEF SessionNext, DialIn, ReadMessage, SendBeat, TakeCredential, SaveCredential,
         LoseConnection, AgentProcessDies, FindNode, Enrol, Welcome, ShowOnline, Identify,
         StoreBeat, StoreOffline, HubRestarts
<1>3. ASSUME NEW c \in Connections, identified[c]
      PROVE  identified'[c]
  <2>1. CASE identified' = identified
    BY <1>3, <2>1
  <2>2. CASE Identify
    BY <1>3, <2>2, OperationsTyped DEF Identify, SessionTypeOK
  <2> QED BY <2>1, <2>2
          DEF SessionNext, DialIn, ReadMessage, CloseConnection, SendBeat, TakeCredential,
              SaveCredential, LoseConnection, AgentProcessDies, FindNode, Enrol, Welcome,
              ShowOnline, StoreBeat, StoreOffline, HubRestarts
\* A connection comes into the hub before it is identified.
<1>4. ASSUME NEW c \in Connections, identified[c], hub # c
      PROVE  hub' # c
  <2>1. CASE hub' \in {0, hub}
    BY <1>4, <2>1
  <2>2. CASE Enrol \/ Welcome
    <3>1. chain # <<>> /\ hub' = Conn /\ Conn = Head(chain).conn /\ Conn \in Connections
      BY <2>2, OperationsTyped DEF Enrol, Welcome, Attached
    <3>2. Head(chain).kind \in Handshake
      BY <2>2 DEF Enrol, Welcome, Doing, Handshake
    <3>3. ShakesHands(chain, Conn)
      BY <1>0, <3>1, <3>2, TailHolds
    <3>4. ~identified[Conn]
      BY <3>1, <3>3 DEF OneHandshake
    <3> QED BY <1>4, <3>1, <3>4
  <2> QED BY <2>1, <2>2
          DEF SessionNext, DialIn, ReadMessage, CloseConnection, SendBeat, TakeCredential,
              SaveCredential, LoseConnection, AgentProcessDies, FindNode, ShowOnline, Identify,
              StoreBeat, StoreOffline, HubRestarts
<1>5. SUFFICES ASSUME hubRestarts' = 0, NEW c \in Connections, link'[c] = "closed"
               PROVE  c \in missed' \/ (identified'[c] /\ hub' # c)
  BY DEF ClosedLeavesHub
<1>6. CASE CloseConnection(c)
  BY <1>3, <1>6, CloseAsks
<1>7. CASE link[c] = "closed"
  BY <1>1, <1>2, <1>3, <1>4, <1>5, <1>7 DEF ClosedLeavesHub
<1> QED BY <1>1, <1>5, <1>6, <1>7, LinkMoves

\* The flag follows the hub once the chain has been worked off.
LEMMA OnlineKept ==
  ASSUME SessionTypeOK, OneHandshake, OnlineAfterOffline, SessionNext
  PROVE  OnlineAfterOffline'
<1> USE ConnectionsTyped DEF wire, nodeRecord, agentSide, history
<1>0. chain \in Seq(Op)
  BY DEF SessionTypeOK, Op
<1>1. CASE UNCHANGED <<chain, hub, online, stray, hubRestarts>>
  BY <1>1 DEF OnlineAfterOffline
<1>2. ASSUME NEW c \in Connections, ReadMessage(c)
      PROVE  OnlineAfterOffline'
  <2>1. UNCHANGED <<hub, online, stray, hubRestarts>>
    BY <1>2 DEF ReadMessage
  <2>2. ASSUME NEW o \in Op, o.kind \in {"find", "check", "beat"}, chain' = Append(chain, o)
        PROVE  OnlineAfterOffline'
    <3>1. o.kind # "attach" /\ o.kind # "offline"
      BY <2>2
    <3>2. /\ Has(chain', "attach") <=> Has(chain, "attach")
          /\ Has(chain', "offline") <=> Has(chain, "offline")
      BY <1>0, <2>2, <3>1, AppendHolds
    <3>3. /\ AttachesLast(chain, hub) => AttachesLast(chain', hub)
          /\ Reattaches(chain) => Reattaches(chain')
      BY <1>0, <2>2, <3>1, AppendOrder
    <3> QED BY <2>1, <3>2, <3>3 DEF OnlineAfterOffline
  <2> QED BY <1>1, <1>2, <2>1, <2>2, ReadAsks
<1>3. ASSUME NEW c \in Connections, CloseConnection(c)
      PROVE  OnlineAfterOffline'
  <2>1. UNCHANGED <<online, stray, hubRestarts>>
    BY <1>3 DEF CloseConnection
  \* It finished its handshake, so what is waiting attaches nothing.
  <2>2. ASSUME identified[c], hub = c, hub' = 0,
               NEW o \in Op, o.kind = "offline", chain' = Append(chain, o)
        PROVE  OnlineAfterOffline'
    <3>1. ~ShakesHands(chain, hub)
      BY <2>2 DEF OneHandshake
    <3>2. ~Has(chain, "attach")
      BY <3>1, ShakingIsNamed DEF OnlineAfterOffline
    <3>3. ~Has(chain', "attach") /\ Has(chain', "offline")
      BY <1>0, <2>2, <3>2, AppendHolds
    <3> QED BY <2>2, <3>3 DEF OnlineAfterOffline
  <2> QED BY <1>1, <1>3, <2>1, <2>2, CloseAsks
<1>4. ASSUME chain # <<>>
      PROVE  /\ Tail(chain) \in Seq(Op)
             /\ \A k : Has(Tail(chain), k) => Has(chain, k)
             /\ \A k : Has(chain, k) /\ Head(chain).kind # k => Has(Tail(chain), k)
             /\ AttachesLast(chain, hub) => AttachesLast(Tail(chain), hub)
             /\ Reattaches(chain) => Reattaches(Tail(chain))
  BY <1>0, <1>4, HeadTyped, TailHolds, TailOrder
<1>5. ASSUME chain # <<>>, Head(chain).kind \notin {"attach", "offline"},
             UNCHANGED <<hub, online, stray, hubRestarts>>,
             chain' = Tail(chain)
               \/ \E o \in Op : o.kind \in {"enrol", "version"} /\ chain' = Append(Tail(chain), o)
      PROVE  OnlineAfterOffline'
  <2>1. /\ Has(Tail(chain), "attach") <=> Has(chain, "attach")
        /\ Has(Tail(chain), "offline") <=> Has(chain, "offline")
    BY <1>4, <1>5
  <2>2. CASE chain' = Tail(chain)
    BY <1>4, <1>5, <2>1, <2>2 DEF OnlineAfterOffline
  <2>3. ASSUME NEW o \in Op, o.kind \in {"enrol", "version"}, chain' = Append(Tail(chain), o)
        PROVE  OnlineAfterOffline'
    <3>1. o.kind # "attach" /\ o.kind # "offline"
      BY <2>3
    <3>2. /\ Has(chain', "attach") <=> Has(chain, "attach")
          /\ Has(chain', "offline") <=> Has(chain, "offline")
      BY <1>4, <1>5, <2>1, <2>3, <3>1, AppendHolds
    <3>3. /\ AttachesLast(chain, hub) => AttachesLast(chain', hub)
          /\ Reattaches(chain) => Reattaches(chain')
      BY <1>4, <1>5, <2>3, <3>1, AppendOrder
    <3> QED BY <1>5, <3>2, <3>3 DEF OnlineAfterOffline
  <2> QED BY <1>5, <2>2, <2>3
<1>6. CASE FindNode \/ Identify
  <2>1. /\ chain # <<>>
        /\ chain' = Tail(chain)
             \/ \E o \in Op : o.kind \in {"enrol", "version"} /\ chain' = Append(Tail(chain), o)
    <3>1. chain # <<>>
      BY <1>6, OperationsTyped
    <3>2. CASE FindNode
      BY <1>0, <3>1, <3>2, NextTyped DEF FindNode, Done, OpKinds
    <3>3. CASE Identify
      BY <3>1, <3>3 DEF Identify, Done
    <3> QED BY <1>6, <3>2, <3>3
  <2>2. Head(chain).kind \notin {"attach", "offline"}
        /\ UNCHANGED <<hub, online, stray, hubRestarts>>
    BY <1>6 DEF FindNode, Identify, Doing
  <2> QED BY <1>5, <2>1, <2>2
<1>7. CASE Enrol \/ Welcome
  <2>1. /\ chain # <<>> /\ Conn \in Connections /\ hub' = Conn
        /\ \E o \in Op : o.conn = Conn /\ o.kind = "attach" /\ chain' = Append(Tail(chain), o)
    BY <1>0, <1>7, HeadTyped, NextTyped DEF Enrol, Welcome, Attached, Doing, OpKinds
  <2>2. PICK o \in Op : o.conn = Conn /\ o.kind = "attach" /\ chain' = Append(Tail(chain), o)
    BY <2>1
  <2>3. Has(chain', "attach")
    BY <1>4, <2>1, <2>2, AppendHolds
  <2>4. AttachesLast(chain', Conn) /\ Reattaches(chain')
    BY <1>4, <2>1, <2>2, AppendOrder
  <2> QED BY <2>1, <2>3, <2>4 DEF OnlineAfterOffline
<1>8. CASE ShowOnline
  <2>1. chain # <<>> /\ Head(chain).kind = "attach" /\ UNCHANGED <<hub, stray, hubRestarts>>
        /\ online'
    BY <1>8 DEF ShowOnline, Doing
  <2>2. PICK o \in Op : o.kind = "pending" /\ chain' = Append(Tail(chain), o)
    BY <1>0, <1>8, <2>1, NextTyped DEF ShowOnline, OpKinds
  <2>3. Has(chain, "attach")
    BY <1>0, <2>1, TailHolds
  <2>4. o.kind # "attach" /\ o.kind # "offline"
    BY <2>2
  <2>5. hub # 0 /\ AttachesLast(Tail(chain), hub) /\ Reattaches(Tail(chain))
    BY <1>4, <2>1, <2>3 DEF OnlineAfterOffline
  <2>6. AttachesLast(chain', hub) /\ Reattaches(chain')
    BY <1>4, <2>1, <2>2, <2>4, <2>5, AppendOrder
  <2> QED BY <2>1, <2>5, <2>6 DEF OnlineAfterOffline
<1>9. CASE StoreBeat
  <2>1. chain # <<>> /\ Head(chain).kind = "beat" /\ chain' = Tail(chain)
        /\ UNCHANGED <<hub, hubRestarts>> /\ online'
    BY <1>9 DEF StoreBeat, Doing, Done
  <2>2. Conn \in Connections /\ (stray' <=> stray \/ Conn # hub)
    BY <1>9, OperationsTyped DEF StoreBeat
  <2>3. Has(Tail(chain), "attach") => Has(chain, "attach")
    BY <1>4, <2>1
  <2> QED BY <1>4, <2>1, <2>2, <2>3 DEF OnlineAfterOffline
<1>10. CASE StoreOffline
  <2>1. chain # <<>> /\ Head(chain).kind = "offline" /\ chain' = Tail(chain)
        /\ UNCHANGED <<hub, hubRestarts>> /\ ~online'
    BY <1>10 DEF StoreOffline, Doing, Done
  <2>2. Reattaches(chain) => Has(Tail(chain), "attach")
    BY <1>0, <2>1, TailOrder
  <2>3. Has(Tail(chain), "attach") => Has(chain, "attach")
    BY <1>4, <2>1
  <2> QED BY <1>4, <2>1, <2>2, <2>3 DEF OnlineAfterOffline
<1>11. CASE HubRestarts
  <2>1. chain' = <<>> /\ hub' = 0 /\ hubRestarts' # 0
    BY <1>11 DEF HubRestarts, SessionTypeOK
  <2> QED BY <2>1, EmptyChain DEF OnlineAfterOffline
<1> QED BY <1>1, <1>2, <1>3, <1>6, <1>7, <1>8, <1>9, <1>10, <1>11
        DEF SessionNext, DialIn, SendBeat, TakeCredential, SaveCredential, LoseConnection,
            AgentProcessDies

\* The connections, the chain and the node's record keep their invariant, whatever the
\* number of connections and restarts.
LEMMA SessionInvariant == SessionSpec => []SessionInv
<1>1. SessionInit => SessionInv
  <2> SUFFICES ASSUME SessionInit PROVE SessionInv
    OBVIOUS
  <2> USE ConnectionsTyped
  <2>1. SessionTypeOK
    <3>1. inbox \in [Connections -> Seq(Greeting \cup {Beat})]
      BY DEF SessionInit
    <3>2. chain \in Seq(Op) /\ missed \subseteq Connections
      BY EmptyChain DEF SessionInit
    <3>3. /\ link \in [Connections -> {"none", "open", "closing", "closed"}]
          /\ identified \in [Connections -> BOOLEAN] /\ reply \in [Connections -> BOOLEAN]
          /\ token \in BOOLEAN /\ online \in BOOLEAN /\ stray \in BOOLEAN
          /\ overlapped \in BOOLEAN
      BY DEF SessionInit
    <3>4. /\ {credential, hub, onDisk, inUse, talking} \subseteq Certificates
          /\ nodeRestarts \in Nat /\ hubRestarts \in Nat
      BY DEF SessionInit
    <3> QED BY <3>1, <3>2, <3>3, <3>4 DEF SessionTypeOK, Op
  <2>2. chain = <<>> /\ hub = 0 /\ talking = 0 /\ ~online
        /\ \A c \in Connections : inbox[c] = <<>> /\ ~identified[c] /\ ~reply[c]
                                  /\ link[c] = "none"
    BY DEF SessionInit
  <2>3. OneEnrolment
    BY <2>2, EmptyChain DEF SessionInit, OneEnrolment
  <2>4. OneHandshake
    BY <2>2, EmptyChain DEF OneHandshake
  <2>5. DialledFirst /\ ClosedLeavesHub /\ OnlineAfterOffline
    BY <2>2, EmptyChain DEF DialledFirst, ClosedLeavesHub, OnlineAfterOffline
  <2> QED BY <2>1, <2>3, <2>4, <2>5 DEF SessionInv
<1>2. SessionInv /\ [SessionNext]_sessionVars => SessionInv'
  <2> SUFFICES ASSUME SessionInv, [SessionNext]_sessionVars PROVE SessionInv'
    OBVIOUS
  <2>1. CASE SessionNext
    BY <2>1, SessionStepTyped, EnrolmentKept, HandshakeKept, DialledKept, ClosedKept, OnlineKept
       DEF SessionInv
  <2>2. CASE UNCHANGED sessionVars
    BY <2>2 DEF sessionVars, wire, nodeRecord, agentSide, history, SessionInv, SessionTypeOK,
                OneEnrolment, OneHandshake, DialledFirst, ClosedLeavesHub, OnlineAfterOffline
  <2> QED BY <2>1, <2>2
<1> QED BY <1>1, <1>2, PTL DEF SessionSpec

-----------------------------------------------------------------------------
(* Theorems *)

\* The records of the connections and of the node keep their types (types.ts, NodeRecord).
THEOREM SessionTypeCorrect == SessionSpec => []SessionTypeOK
BY SessionInvariant, PTL DEF SessionInv

\* However often the agent lost its connection while it enrolled, the credential it holds
\* is the one the panel has for its node, unless two connections had both found the
\* enrolment token unused before either registration cleared it (server.ts:402-423).
THEOREM EnrolledAgentsAreKnown == SessionSpec => []EnrolledAgentIsKnown
<1>1. SessionInv => EnrolledAgentIsKnown
  BY DEF SessionInv, OneEnrolment, SessionTypeOK, EnrolledAgentIsKnown
<1> QED BY <1>1, SessionInvariant, PTL

\* Once the store has nothing left to do and every message is read, a node is shown online
\* exactly while the hub has its connection, in whatever order the closes of superseded
\* connections, the handshakes and the heartbeats were stored, but in the three cases that
\* OnlineFollowsHub names (server.ts:294-306, 448-454, 1254-1260).
THEOREM OnlineShownFollowsHub == SessionSpec => []OnlineFollowsHub
<1>1. SessionInv => OnlineFollowsHub
  <2> SUFFICES ASSUME SessionInv, Quiet PROVE OnlineFollowsHub
    BY DEF OnlineFollowsHub
  <2>1. chain = <<>> /\ ~Has(chain, "attach") /\ ~Has(chain, "offline")
    BY EmptyChain DEF Quiet
  <2>2. hub # 0 => online
    BY <2>1 DEF SessionInv, OnlineAfterOffline
  <2>3. ASSUME online, hubRestarts = 0, ~stray
        PROVE  hub # 0 /\ (link[hub] \in {"open", "closing"} \/ hub \in missed)
    <3>1. hub # 0
      BY <2>1, <2>3 DEF SessionInv, OnlineAfterOffline
    <3>2. hub \in Connections /\ link[hub] \in {"open", "closing", "closed"}
      BY <3>1 DEF SessionInv, DialledFirst, SessionTypeOK, Certificates
    <3> QED BY <2>3, <3>1, <3>2 DEF SessionInv, ClosedLeavesHub
  <2> QED BY <2>2, <2>3 DEF OnlineFollowsHub
<1> QED BY <1>1, SessionInvariant, PTL

-----------------------------------------------------------------------------
(* The file editor *)

\* Until two calls have overlapped, the flag is set as long as one is under way, an
\* editor with the placeholder has an opening under way, and the placeholder is nowhere
\* but in the editor.
FlagFollowsCalls ==
  ~crossed =>
    /\ UnderWay # {} \/ saveCall.step # "idle" \/ uploadBusy => fileBusy
    /\ text = Placeholder => UnderWay # {}
    /\ Placeholder \notin {cached, onNode, saveCall.of} \cup writes
    /\ \A o \in Openings : readTask[o] # Placeholder
    /\ ~emptySaved

\* What an opening may find in the cache from now on happened since it asked, unless a
\* result was on its way then.
AnswersSince ==
  \A o \in Openings :
    /\ opening[o] = "polling" /\ o \notin lateRead =>
         /\ onNode \in since[o]
         /\ cached # NoText => cached \in since[o]
         /\ \A q \in Openings : readTask[q] \in Texts => readTask[q] \in since[o]
    /\ opening[o] # "over" => shown[o] = NoText
    /\ shown[o] # NoText => shown[o] \in since[o] \/ o \in lateRead

\* The types, also of what a save carries and an opening has shown.
EditingTyped ==
  /\ EditingTypeOK /\ shown \in [Openings -> Texts \cup {NoText}]
  /\ saveCall.step # "idle" => saveCall.of \in Texts

EditingInv == EditingTyped /\ FlagFollowsCalls /\ AnswersSince

\* What the game server writes is told from every text that stands for something else.
LEMMA TextsAreTexts ==
  /\ Placeholder \in Texts /\ Typed \in Texts /\ Versions \subseteq Texts
  /\ NoText \notin Texts /\ "queued" \notin Texts /\ "over" \notin Texts
  /\ Placeholder \notin Versions
BY EditingAssumption DEF Texts, Placeholder, Typed, NoText

\* A step keeps the types.
LEMMA EditingStepTyped ==
  ASSUME EditingTyped, EditingNext
  PROVE  EditingTyped'
<1> USE TextsAreTexts DEF node, browser
<1>0. EditingTypeOK /\ shown \in [Openings -> Texts \cup {NoText}]
      /\ (saveCall.step # "idle" => saveCall.of \in Texts)
  BY DEF EditingTyped
<1>1. CASE TypeText
  BY <1>0, <1>1 DEF TypeText, EditingTypeOK, EditingTyped
<1>2. CASE BeginSave
  <2>1. saveCall'.of \in Texts /\ emptySaved' \in BOOLEAN
    BY <1>0, <1>2 DEF BeginSave, EditingTypeOK
  <2> QED BY <1>0, <1>2, <2>1 DEF BeginSave, EditingTypeOK, EditingTyped
<1>3. CASE EndSave
  <2>1. crossed' \in BOOLEAN
    BY <1>3 DEF EndSave, NoteOverlap
  <2> QED BY <1>0, <1>3, <2>1 DEF EndSave, EditingTypeOK, EditingTyped
<1>4. CASE BeginUpload
  BY <1>0, <1>4 DEF BeginUpload, EditingTypeOK, EditingTyped
<1>5. CASE EndUpload
  <2>1. crossed' \in BOOLEAN
    BY <1>5 DEF EndUpload, NoteOverlap
  <2> QED BY <1>0, <1>5, <2>1 DEF EndUpload, EditingTypeOK, EditingTyped
<1>6. CASE StoreSave
  <2>1. saveCall.of \in Texts /\ saveCall' \in [step : {"stored"}, of : {saveCall.of}]
    BY <1>0, <1>6 DEF StoreSave, EditingTypeOK
  <2>2. since' \in [Openings -> SUBSET Texts]
    BY <1>0, <1>6, <2>1 DEF StoreSave, Happens, EditingTypeOK
  <2> QED BY <1>0, <1>6, <2>1, <2>2 DEF StoreSave, EditingTypeOK, EditingTyped
<1>7. CASE EnqueueWrite
  <2>1. saveCall.of \in Texts /\ saveCall' \in [step : {"answered"}, of : {saveCall.of}]
    BY <1>0, <1>7 DEF EnqueueWrite, EditingTypeOK
  <2> QED BY <1>0, <1>7, <2>1 DEF EnqueueWrite, EditingTypeOK, EditingTyped
<1>8. ASSUME NEW o \in Openings, BeginOpen(o)
      PROVE  EditingTyped'
  BY <1>0, <1>8 DEF BeginOpen, EditingTypeOK, EditingTyped
<1>9. ASSUME NEW o \in Openings, EndOpen(o)
      PROVE  EditingTyped'
  <2>1. crossed' \in BOOLEAN
    BY <1>9 DEF EndOpen, NoteOverlap
  <2>2. shown' \in [Openings -> Texts \cup {NoText}] /\ text' \in Texts \cup {NoText}
    BY <1>0, <1>9 DEF EndOpen, EditingTypeOK
  <2>3. opening' \in [Openings -> {"idle", "asked", "polling", "over"}]
    BY <1>0, <1>9 DEF EndOpen, EditingTypeOK
  <2>4. UNCHANGED <<saveCall, uploadBusy, emptySaved, cached, node, saves, since, lateRead>>
        /\ fileBusy' = FALSE
    BY <1>9 DEF EndOpen
  <2> QED BY <1>0, <2>1, <2>2, <2>3, <2>4 DEF EditingTypeOK, EditingTyped
<1>10. ASSUME NEW o \in Openings, AskForRead(o)
      PROVE  EditingTyped'
  BY <1>0, <1>10 DEF AskForRead, EditingTypeOK, EditingTyped
<1>11. ASSUME NEW o \in Openings, ReadReported(o) \/ ReadFile(o)
      PROVE  EditingTyped'
  BY <1>0, <1>11 DEF ReadReported, ReadFile, EditingTypeOK, EditingTyped
<1>12. ASSUME NEW t \in Texts, WriteFile(t) \/ GameWrites(t)
      PROVE  EditingTyped'
  <2>1. since' \in [Openings -> SUBSET Texts]
    BY <1>0, <1>12 DEF WriteFile, GameWrites, Happens, EditingTypeOK
  <2> QED BY <1>0, <1>12, <2>1 DEF WriteFile, GameWrites, EditingTypeOK, EditingTyped
<1> QED BY <1>1, <1>2, <1>3, <1>4, <1>5, <1>6, <1>7, <1>8, <1>9, <1>10, <1>11, <1>12
        DEF EditingNext

\* Without an overlap the flag is cleared by the call that set it.
LEMMA FlagKept ==
  ASSUME EditingTyped, FlagFollowsCalls, EditingNext
  PROVE  FlagFollowsCalls'
<1> USE TextsAreTexts DEF node, browser
<1> SUFFICES ASSUME ~crossed'
             PROVE  /\ UnderWay' # {} \/ saveCall'.step # "idle" \/ uploadBusy' => fileBusy'
                    /\ text' = Placeholder => UnderWay' # {}
                    /\ Placeholder \notin {cached', onNode', saveCall'.of} \cup writes'
                    /\ \A o \in Openings : readTask'[o] # Placeholder
                    /\ ~emptySaved'
  BY DEF FlagFollowsCalls
<1>0. EditingTypeOK
  BY DEF EditingTyped
<1>1. ~crossed
  BY DEF EditingNext, TypeText, BeginSave, EndSave, BeginUpload, EndUpload, StoreSave,
         EnqueueWrite, BeginOpen, EndOpen, AskForRead, ReadReported, ReadFile, WriteFile,
         GameWrites, NoteOverlap
<1>2. /\ UnderWay # {} \/ saveCall.step # "idle" \/ uploadBusy => fileBusy
      /\ text = Placeholder => UnderWay # {}
      /\ Placeholder \notin {cached, onNode, saveCall.of} \cup writes
      /\ \A o \in Openings : readTask[o] # Placeholder
      /\ ~emptySaved
  BY <1>1 DEF FlagFollowsCalls
<1>3. CASE TypeText
  BY <1>2, <1>3 DEF TypeText, UnderWay, Typed, Placeholder
<1>4. CASE BeginSave
  BY <1>0, <1>2, <1>4 DEF BeginSave, UnderWay, EditingTypeOK
<1>5. CASE EndSave
  <2>1. UnderWay = {} /\ ~uploadBusy /\ UnderWay' = UnderWay
    BY <1>5 DEF EndSave, NoteOverlap, UnderWay
  <2> QED BY <1>2, <1>5, <2>1 DEF EndSave, NoText, Placeholder
<1>6. CASE BeginUpload
  BY <1>2, <1>6 DEF BeginUpload, UnderWay
<1>7. CASE EndUpload
  <2>1. UnderWay = {} /\ saveCall.step = "idle" /\ UnderWay' = UnderWay
    BY <1>7 DEF EndUpload, NoteOverlap, UnderWay
  <2> QED BY <1>2, <1>7, <2>1 DEF EndUpload
<1>8. CASE StoreSave \/ EnqueueWrite
  BY <1>0, <1>2, <1>8 DEF StoreSave, EnqueueWrite, UnderWay, EditingTypeOK
<1>9. ASSUME NEW o \in Openings, BeginOpen(o)
      PROVE  FlagFollowsCalls'
  <2>1. o \in UnderWay'
    BY <1>0, <1>9 DEF BeginOpen, UnderWay, EditingTypeOK
  <2> QED BY <1>2, <1>9, <2>1 DEF BeginOpen, FlagFollowsCalls
<1>10. ASSUME NEW o \in Openings, EndOpen(o)
      PROVE  FlagFollowsCalls'
  <2>1. UnderWay = {o} /\ saveCall.step = "idle" /\ ~uploadBusy
    BY <1>10 DEF EndOpen, NoteOverlap
  <2>2. UnderWay' = {}
    BY <1>0, <1>10, <2>1 DEF EndOpen, UnderWay, EditingTypeOK
  <2>3. text' # Placeholder
    BY <1>2, <1>10 DEF EndOpen
  <2> QED BY <1>2, <1>10, <2>1, <2>2, <2>3 DEF EndOpen, FlagFollowsCalls
<1>11. ASSUME NEW o \in Openings, AskForRead(o)
      PROVE  FlagFollowsCalls'
  <2>1. o \in UnderWay /\ UnderWay' = UnderWay
    BY <1>0, <1>11 DEF AskForRead, UnderWay, EditingTypeOK
  <2>2. \A q \in Openings : readTask'[q] # Placeholder
    BY <1>0, <1>2, <1>11 DEF AskForRead, EditingTypeOK
  <2> QED BY <1>2, <1>11, <2>1, <2>2 DEF AskForRead, FlagFollowsCalls
<1>12. ASSUME NEW o \in Openings, ReadReported(o) \/ ReadFile(o)
      PROVE  FlagFollowsCalls'
  <2>1. UnderWay' = UnderWay
    BY <1>12 DEF ReadReported, ReadFile, UnderWay
  <2>2. \A q \in Openings : readTask'[q] # Placeholder
    BY <1>0, <1>2, <1>12 DEF ReadReported, ReadFile, EditingTypeOK
  <2> QED BY <1>2, <1>12, <2>1, <2>2 DEF ReadReported, ReadFile, FlagFollowsCalls
<1>13. CASE (\E t \in Texts : WriteFile(t)) \/ (\E t \in Versions : GameWrites(t))
  BY <1>2, <1>13 DEF WriteFile, GameWrites, UnderWay
<1> QED BY <1>3, <1>4, <1>5, <1>6, <1>7, <1>8, <1>9, <1>10, <1>11, <1>12, <1>13
        DEF EditingNext, FlagFollowsCalls

\* A text that is being put into the file or the cache is noted for every opening that polls.
LEMMA HappensNotes ==
  ASSUME EditingTypeOK, NEW t \in Texts, Happens(t), NEW o \in Openings
  PROVE  /\ since[o] \subseteq since'[o]
         /\ opening[o] = "polling" => t \in since'[o]
         /\ opening[o] # "polling" => since'[o] = since[o]
BY DEF EditingTypeOK, Happens

\* An answer was the file since the opening asked, or the late one of an earlier read.
LEMMA AnswersKept ==
  ASSUME EditingTyped, AnswersSince, EditingNext
  PROVE  AnswersSince'
<1> USE TextsAreTexts DEF node, browser
<1> SUFFICES ASSUME NEW o \in Openings
             PROVE  /\ opening'[o] = "polling" /\ o \notin lateRead' =>
                         /\ onNode' \in since'[o]
                         /\ cached' # NoText => cached' \in since'[o]
                         /\ \A q \in Openings : readTask'[q] \in Texts => readTask'[q] \in since'[o]
                    /\ opening'[o] # "over" => shown'[o] = NoText
                    /\ shown'[o] # NoText => shown'[o] \in since'[o] \/ o \in lateRead'
  BY DEF AnswersSince
<1>0. EditingTypeOK /\ shown \in [Openings -> Texts \cup {NoText}]
      /\ (saveCall.step # "idle" => saveCall.of \in Texts)
  BY DEF EditingTyped
<1>1. /\ opening[o] = "polling" /\ o \notin lateRead =>
           /\ onNode \in since[o]
           /\ cached # NoText => cached \in since[o]
           /\ \A q \in Openings : readTask[q] \in Texts => readTask[q] \in since[o]
      /\ opening[o] # "over" => shown[o] = NoText
      /\ shown[o] # NoText => shown[o] \in since[o] \/ o \in lateRead
  BY DEF AnswersSince
<1>2. CASE UNCHANGED <<opening, shown, cached, node, since, lateRead>>
  BY <1>1, <1>2
<1>3. CASE EnqueueWrite
  BY <1>1, <1>3 DEF EnqueueWrite
<1>4. CASE StoreSave
  BY <1>0, <1>1, <1>4, HappensNotes DEF StoreSave
<1>5. ASSUME NEW p \in Openings, BeginOpen(p)
      PROVE  AnswersSince'
  <2>1. ASSUME NEW q \in Openings
        PROVE  opening'[q] = opening[q] \/ (opening[q] = "idle" /\ opening'[q] = "asked")
    BY <1>0, <1>5 DEF BeginOpen, EditingTypeOK
  <2> QED BY <1>5, <2>1 DEF BeginOpen, AnswersSince
<1>6. ASSUME NEW p \in Openings, EndOpen(p)
      PROVE  AnswersSince'
  <2>1. UNCHANGED <<cached, node, since, lateRead>>
    BY <1>6 DEF EndOpen
  <2>2. ASSUME NEW q \in Openings, q # p
        PROVE  opening'[q] = opening[q] /\ shown'[q] = shown[q]
    BY <1>0, <1>6, <2>2 DEF EndOpen, EditingTypeOK
  <2>3. opening'[p] = "over"
    BY <1>0, <1>6 DEF EndOpen, EditingTypeOK
  <2>4. shown'[p] # NoText => shown'[p] \in since[p] \/ p \in lateRead
    BY <1>0, <1>6 DEF EndOpen, EditingTypeOK, AnswersSince
  <2> QED BY <2>1, <2>2, <2>3, <2>4 DEF AnswersSince
<1>7. ASSUME NEW p \in Openings, AskForRead(p)
      PROVE  AnswersSince'
  <2>1. cached' = NoText /\ UNCHANGED <<shown, onNode>> /\ opening[p] = "asked"
    BY <1>7 DEF AskForRead
  <2>2. ASSUME NEW q \in Openings
        PROVE  /\ q # p => opening'[q] = opening[q] /\ since'[q] = since[q]
               /\ since'[p] = {onNode}
               /\ readTask'[q] \in Texts => readTask'[q] = readTask[q]
               /\ lateRead \subseteq lateRead' /\ lateRead' \subseteq lateRead \cup {p}
               /\ readTask[q] \in Texts => p \in lateRead'
    BY <1>0, <1>7 DEF AskForRead, EditingTypeOK
  <2>3. ASSUME NEW q \in Openings
        PROVE  /\ opening'[q] = "polling" /\ q \notin lateRead' =>
                     /\ onNode' \in since'[q]
                     /\ \A r \in Openings : readTask'[r] \in Texts => readTask'[r] \in since'[q]
               /\ opening'[q] # "over" => shown'[q] = NoText
               /\ shown'[q] # NoText => shown'[q] \in since'[q] \/ q \in lateRead'
    <3>1. CASE q = p
      BY <2>1, <2>2, <3>1 DEF AnswersSince
    <3>2. CASE q # p
      BY <2>1, <2>2, <3>2 DEF AnswersSince
    <3> QED BY <3>1, <3>2
  <2> QED BY <2>1, <2>3 DEF AnswersSince
<1>8. ASSUME NEW p \in Openings, ReadReported(p)
      PROVE  AnswersSince'
  <2>1. ASSUME NEW q \in Openings
        PROVE  readTask'[q] \in Texts => readTask'[q] = readTask[q]
    BY <1>0, <1>8 DEF ReadReported, EditingTypeOK
  <2> QED BY <1>8, <2>1 DEF ReadReported, AnswersSince
<1>9. ASSUME NEW p \in Openings, ReadFile(p)
      PROVE  AnswersSince'
  <2>1. ASSUME NEW q \in Openings
        PROVE  readTask'[q] \in {readTask[q], onNode}
    BY <1>0, <1>9 DEF ReadFile, EditingTypeOK
  <2> QED BY <1>9, <2>1 DEF ReadFile, AnswersSince
<1>10. ASSUME NEW t \in Texts, WriteFile(t) \/ GameWrites(t)
      PROVE  AnswersSince'
  <2>1. UNCHANGED <<opening, shown, cached, readTask, lateRead>>
    BY <1>10 DEF WriteFile, GameWrites
  <2>2. \/ onNode' = t /\ Happens(t)
        \/ UNCHANGED <<onNode, since>>
    BY <1>10 DEF WriteFile, GameWrites
  <2> QED BY <1>0, <2>1, <2>2, HappensNotes DEF AnswersSince
<1> QED BY <1>2, <1>3, <1>4, <1>5, <1>6, <1>7, <1>8, <1>9, <1>10
        DEF EditingNext, AnswersSince, TypeText, BeginSave, EndSave, BeginUpload, EndUpload

\* The invariant holds in every order of calls, results and writes.
LEMMA EditingInvariant == EditingSpec => []EditingInv
<1>1. EditingInit => EditingInv
  <2> SUFFICES ASSUME EditingInit PROVE EditingInv
    OBVIOUS
  <2>1. EditingTyped
    BY TextsAreTexts DEF EditingInit, EditingTyped, EditingTypeOK
  <2>2. FlagFollowsCalls
    BY TextsAreTexts DEF EditingInit, FlagFollowsCalls, UnderWay, NoText, Placeholder
  <2>3. AnswersSince
    BY TextsAreTexts DEF EditingInit, AnswersSince
  <2> QED BY <2>1, <2>2, <2>3 DEF EditingInv
<1>2. EditingInv /\ [EditingNext]_editingVars => EditingInv'
  <2> SUFFICES ASSUME EditingInv, [EditingNext]_editingVars PROVE EditingInv'
    OBVIOUS
  <2>1. CASE UNCHANGED editingVars
    BY <2>1 DEF editingVars, browser, node, EditingInv, EditingTyped, EditingTypeOK,
                FlagFollowsCalls, UnderWay, AnswersSince
  <2>2. CASE EditingNext
    BY <2>2, EditingStepTyped, FlagKept, AnswersKept DEF EditingInv
  <2> QED BY <2>1, <2>2
<1> QED BY <1>1, <1>2, PTL DEF EditingSpec

\* The editor, its calls, the cache and the tasks keep their types.
THEOREM EditingTypeCorrect == EditingSpec => []EditingTypeOK
BY EditingInvariant, PTL DEF EditingInv, EditingTyped

\* Unless two of opening, saving and uploading have overlapped, the empty text shown while a
\* file is opened never reaches the file (App.tsx:1213-1214, 1240, 1267, 1289, 1544).
THEOREM EmptySavedNeedsOverlap == EditingSpec => []EmptySavedOnlyOnOverlap
<1>1. EditingInv => EmptySavedOnlyOnOverlap
  BY DEF EditingInv, FlagFollowsCalls, EmptySavedOnlyOnOverlap
<1> QED BY <1>1, EditingInvariant, PTL

\* What the editor shows for an opened file was the file, or was being written to it, since
\* the opening was asked for, unless the result of an earlier read was then on its way
\* (server.ts:1011-1014, 363-365).
THEOREM OpenedFilesAreFresh == EditingSpec => []OpenedIsFresh
<1>1. EditingInv => OpenedIsFresh
  BY DEF EditingInv, AnswersSince, OpenedIsFresh
<1> QED BY <1>1, EditingInvariant, PTL
=============================================================================
