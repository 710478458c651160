-------------------------- MODULE ComponentProofs ---------------------------
(***************************************************************************)
(* Proofs about Accounts and Artifacts, for any browsers, names and users, *)
(* any uploads, creations and retries, and that MCComponents, which the    *)
(* runs check, is each of its seven components.                            *)
(***************************************************************************)
EXTENDS MCComponents, InstanceDataProofs, StateStoreProofs, SessionEditingProofs

-----------------------------------------------------------------------------
(* Users, members and sessions *)

User == [name : Names, role : Roles]
Member == [user : Nat, permissions : Grants]

\* What a handler will do, with what it was asked.
Visit ==
  {NoVisit} \cup [step : {"found"}, name : Names] \cup [step : {"session"}, user : Nat]
    \cup [step : {"logout"}, id : Nat]
    \cup [step : {"create"}, name : Names, role : Roles]
    \cup [step : {"member", "removal"}, user : Nat, permissions : Grants]

\* Only a bootstrap that finds no user makes one, and what it makes stays.
AccountInv ==
  /\ users \in Seq(User) /\ members \in Seq(Member) /\ visit \in [Browsers -> Visit]
  /\ cookie \in [Browsers -> Nat] /\ opened \in Nat
  /\ users = <<>> => founders = 0
  /\ RecordsAreUnique

\* What the fields of a visit are.
LEMMA VisitFields ==
  ASSUME NEW v \in Visit
  PROVE  /\ v.step \in {"found", "create"} => v.name \in Names
         /\ v.step = "create" => v.role \in Roles
         /\ v.step \in {"session", "member", "removal"} => v.user \in Nat
         /\ v.step \in {"member", "removal"} => v.permissions \in Grants
  BY DEF Visit, NoVisit

\* A request is taken up, or is over.
LEMMA ContinueKeeps ==
  ASSUME AccountInv, NEW b \in Browsers, NEW v \in Visit, Continue(b, v)
  PROVE  AccountInv'
  BY DEF Continue, AccountInv, RecordsAreUnique, OneFounder, UserNamesDiffer, OneMembership

LEMMA AsksKeep ==
  ASSUME AccountInv, NEW b \in Browsers,
         \/ \E name \in Names : \/ AskBootstrap(b, name) \/ AskLogin(b, name)
                                \/ \E role \in Roles : AskCreateUser(b, name, role)
         \/ \E u \in DOMAIN users :
              \/ \E p \in Grants : AskMember(b, u, "member", p)
              \/ AskMember(b, u, "removal", "view")
         \/ AskLogout(b)
  PROVE  AccountInv'
<1>0. DOMAIN users \subseteq Nat /\ cookie[b] \in Nat
  BY DEF AccountInv
<1>1. \E v \in Visit : Continue(b, v)
  <2>1. ASSUME NEW name \in Names, AskBootstrap(b, name) PROVE \E v \in Visit : Continue(b, v)
    <3>1. [step |-> "found", name |-> name] \in Visit
      BY DEF Visit
    <3> QED BY <2>1, <3>1 DEF AskBootstrap
  <2>2. ASSUME NEW name \in Names, AskLogin(b, name) PROVE \E v \in Visit : Continue(b, v)
    <3>1. \A u \in Nat : [step |-> "session", user |-> u] \in Visit
      BY DEF Visit
    <3> QED BY <1>0, <2>2, <3>1 DEF AskLogin
  <2>3. ASSUME NEW name \in Names, NEW role \in Roles, AskCreateUser(b, name, role)
        PROVE  \E v \in Visit : Continue(b, v)
    <3>1. [step |-> "create", name |-> name, role |-> role] \in Visit
      BY DEF Visit
    <3> QED BY <2>3, <3>1 DEF AskCreateUser
  <2>4. ASSUME NEW u \in DOMAIN users, NEW step \in {"member", "removal"}, NEW p \in Grants,
               AskMember(b, u, step, p)
        PROVE  \E v \in Visit : Continue(b, v)
    <3>1. [step |-> step, user |-> u, permissions |-> p] \in Visit
      BY <1>0 DEF Visit
    <3> QED BY <2>4, <3>1 DEF AskMember
  <2>5. CASE AskLogout(b)
    <3>1. [step |-> "logout", id |-> cookie[b]] \in Visit
      BY <1>0 DEF Visit
    <3> QED BY <2>5, <3>1 DEF AskLogout
  <2> QED BY <2>1, <2>2, <2>3, <2>4, <2>5 DEF Grants
<1> QED BY <1>1, ContinueKeeps

-----------------------------------------------------------------------------
(* The transactions.                                                       *)

\* The first user is the only one; a later bootstrap finds it.
LEMMA FoundKeeps ==
  ASSUME AccountInv, NEW b \in Browsers, CommitFound(b)
  PROVE  AccountInv'
<1> USE DEF AccountInv
<1>1. visit' \in [Browsers -> Visit]
  <2>1. NoVisit \in Visit /\ [step |-> "session", user |-> 1] \in Visit
    BY DEF Visit
  <2> QED BY <2>1 DEF CommitFound, Over
<1>2. CASE users = <<>>
  <2> DEFINE first == [name |-> visit[b].name, role |-> "admin"]
  <2>1. first \in User
    BY VisitFields DEF CommitFound, AtStep, User, Roles
  <2>2. users' = <<first>> /\ founders' = founders + 1 /\ members' = members
    BY <1>2 DEF CommitFound
  <2> HIDE DEF first
  <2>3. users' \in Seq(User) /\ users' # <<>> /\ DOMAIN users' = {1}
    BY <2>1, <2>2
  <2>4. UserNamesDiffer'
    BY <2>3 DEF UserNamesDiffer
  <2>5. OneFounder'
    BY <1>2, <2>2 DEF OneFounder
  <2>6. OneMembership'
    BY <2>2 DEF OneMembership, RecordsAreUnique
  <2> QED BY <1>1, <2>2, <2>3, <2>4, <2>5, <2>6 DEF CommitFound, RecordsAreUnique
<1>3. CASE users # <<>>
  BY <1>1, <1>3 DEF CommitFound, RecordsAreUnique, OneFounder, UserNamesDiffer, OneMembership
<1> QED BY <1>2, <1>3

\* The transaction looks for the name again, whatever the handler has seen.
LEMMA UserKeeps ==
  ASSUME AccountInv, NEW b \in Browsers, CommitUser(b)
  PROVE  AccountInv'
<1> USE DEF AccountInv
<1>1. visit' \in [Browsers -> Visit]
  <2>1. NoVisit \in Visit
    BY DEF Visit
  <2> QED BY <2>1 DEF CommitUser, Over
<1>2. OneFounder' /\ OneMembership' /\ members' = members /\ founders' = founders
      /\ cookie' = cookie /\ opened' = opened
  BY DEF CommitUser, RecordsAreUnique, OneFounder, OneMembership
<1>3. CASE TakenName(visit[b].name)
  BY <1>1, <1>2, <1>3 DEF CommitUser, RecordsAreUnique, UserNamesDiffer
<1>4. CASE ~TakenName(visit[b].name)
  <2> DEFINE new == [name |-> visit[b].name, role |-> visit[b].role]
  <2>1. new \in User /\ new.name = visit[b].name
    BY VisitFields DEF CommitUser, AtStep, User
  <2>2. users' = Append(users, new)
    BY <1>4 DEF CommitUser
  <2> HIDE DEF new
  <2>3. /\ users' \in Seq(User) /\ users' # <<>>
        /\ \A u \in DOMAIN users' :
             \/ u = Len(users) + 1 /\ users'[u] = new
             \/ u \in DOMAIN users /\ users'[u] = users[u]
    BY <2>1, <2>2
  <2>4. \A u \in DOMAIN users : Lower[users[u].name] # Lower[new.name]
    BY <1>4, <2>1 DEF TakenName
  <2>5. UserNamesDiffer'
    <3> SUFFICES ASSUME NEW u \in DOMAIN users', NEW v \in DOMAIN users',
                        Lower[users'[u].name] = Lower[users'[v].name]
                 PROVE  u = v
      BY DEF UserNamesDiffer
    <3> QED BY <2>3, <2>4 DEF RecordsAreUnique, UserNamesDiffer
  <2> QED BY <1>1, <1>2, <2>3, <2>5 DEF RecordsAreUnique
<1> QED BY <1>3, <1>4

\* The record of a member is replaced where it is, or put behind the others.
LEMMA MemberKeeps ==
  ASSUME AccountInv, NEW b \in Browsers, CommitMember(b)
  PROVE  AccountInv'
<1> USE DEF AccountInv
<1> DEFINE new == [user |-> visit[b].user, permissions |-> visit[b].permissions]
           at == MemberAt(new.user)
<1>1. visit' \in [Browsers -> Visit]
  <2>1. NoVisit \in Visit
    BY DEF Visit
  <2> QED BY <2>1 DEF CommitMember, Over
<1>2. new \in Member /\ new.user = visit[b].user
  BY VisitFields DEF CommitMember, AtStep, Member
<1>3. members' = IF at = {} THEN Append(members, new)
                 ELSE [k \in DOMAIN members |-> IF k \in at THEN new ELSE members[k]]
  BY DEF CommitMember
<1>4. \A k \in DOMAIN members : k \in at <=> members[k].user = new.user
  BY DEF MemberAt
<1> HIDE DEF new, at
<1>5. members' \in Seq(Member) /\ OneMembership'
  <2>1. CASE at = {}
    <3>1. /\ members' \in Seq(Member)
          /\ \A k \in DOMAIN members' :
               \/ k = Len(members) + 1 /\ members'[k] = new
               \/ k \in DOMAIN members /\ members'[k] = members[k]
      BY <1>2, <1>3, <2>1
    <3>2. OneMembership'
      <4> SUFFICES ASSUME NEW j \in DOMAIN members', NEW k \in DOMAIN members',
                          members'[j].user = members'[k].user
                   PROVE  j = k
        BY DEF OneMembership
      <4> QED BY <1>4, <2>1, <3>1 DEF RecordsAreUnique, OneMembership
    <3> QED BY <3>1, <3>2
  <2>2. CASE at # {}
    <3>1. members' = [k \in DOMAIN members |-> IF k \in at THEN new ELSE members[k]]
      BY <1>3, <2>2
    <3>2. DOMAIN members' = DOMAIN members
          /\ \A k \in DOMAIN members : members'[k].user = members[k].user
      BY <1>4, <3>1
    <3>3. members' \in Seq(Member)
      <4>1. Len(members) \in Nat /\ DOMAIN members = 1..Len(members)
            /\ \A k \in DOMAIN members : members[k] \in Member
        OBVIOUS
      <4>2. members' \in [1..Len(members) -> Member]
        BY <1>2, <3>1, <4>1
      <4> QED BY <4>1, <4>2, IsASeq
    <3> QED BY <3>2, <3>3 DEF RecordsAreUnique, OneMembership
  <2> QED BY <2>1, <2>2
<1>6. OneFounder' /\ UserNamesDiffer' /\ users' = users /\ founders' = founders
      /\ cookie' = cookie /\ opened' = opened
  BY DEF CommitMember, RecordsAreUnique, OneFounder, UserNamesDiffer
<1> QED BY <1>1, <1>5, <1>6 DEF RecordsAreUnique

\* A sequence without its k-th element.
LEMMA WithoutOne ==
  ASSUME NEW S, NEW s \in Seq(S), NEW k \in DOMAIN s,
         NEW r, r = SubSeq(s, 1, k - 1) \o SubSeq(s, k + 1, Len(s))
  PROVE  /\ r \in Seq(S)
         /\ \A i \in DOMAIN r : r[i] = s[IF i < k THEN i ELSE i + 1]
                                /\ (IF i < k THEN i ELSE i + 1) \in DOMAIN s
<1>0. Len(s) \in Nat /\ DOMAIN s = 1..Len(s) /\ k \in 1..Len(s)
  OBVIOUS
<1> DEFINE p == SubSeq(s, 1, k - 1)
           q == SubSeq(s, k + 1, Len(s))
<1>1. /\ p \in Seq(S) /\ Len(p) = k - 1
      /\ \A i \in 1..(k - 1) : p[i] = s[i]
  BY <1>0
<1>2. /\ q \in Seq(S) /\ Len(q) = Len(s) - k
      /\ \A i \in 1..(Len(s) - k) : q[i] = s[k + i]
  <2> DEFINE m == k + 1
             n == Len(s)
  <2>1. m \in 1..(Len(s) + 1) /\ n \in (m - 1)..Len(s) /\ n - m + 1 = Len(s) - k
        /\ \A i \in 1..(Len(s) - k) : m + i - 1 = k + i
    <3>1. n \in Nat /\ k \in Nat /\ 1 <= k /\ k <= n /\ n = Len(s) /\ m = k + 1
      BY <1>0
    <3> HIDE DEF m, n
    <3>2. m \in 1..(n + 1) /\ n \in (m - 1)..n /\ n - m + 1 = n - k
      BY <3>1
    <3>3. \A i \in 1..(n - k) : m + i - 1 = k + i
      BY <3>1
    <3> QED BY <3>1, <3>2, <3>3
  <2> HIDE DEF m, n
  <2>2. /\ SubSeq(s, m, n) \in Seq(S)
        /\ Len(SubSeq(s, m, n)) = IF m <= n THEN n - m + 1 ELSE 0
        /\ \A i \in 1..(n - m + 1) : SubSeq(s, m, n)[i] = s[m + i - 1]
    BY <2>1, SubSeqProperties
  <2>3. q = SubSeq(s, m, n) /\ (m <= n \/ Len(s) - k = 0)
    BY <1>0 DEF m, n
  <2> QED BY <2>1, <2>2, <2>3
<1> HIDE DEF p, q
<1>3. r = p \o q
  BY DEF p, q
<1>4. /\ r \in Seq(S) /\ Len(r) = Len(p) + Len(q) /\ DOMAIN r = 1..Len(r)
      /\ \A i \in 1..(Len(p) + Len(q)) : r[i] = IF i <= Len(p) THEN p[i] ELSE q[i - Len(p)]
  <2>1. /\ p \o q \in Seq(S) /\ Len(p \o q) = Len(p) + Len(q)
        /\ \A i \in 1..(Len(p) + Len(q)) :
             (p \o q)[i] = IF i <= Len(p) THEN p[i] ELSE q[i - Len(p)]
    BY <1>1, <1>2, ConcatProperties
  <2>2. DOMAIN (p \o q) = 1..Len(p \o q)
    BY <2>1
  <2> QED BY <1>3, <2>1, <2>2
<1>5. ASSUME NEW i \in DOMAIN r
      PROVE  /\ r[i] = s[IF i < k THEN i ELSE i + 1]
             /\ (IF i < k THEN i ELSE i + 1) \in DOMAIN s
  <2>1. i \in 1..(Len(s) - 1)
    BY <1>0, <1>1, <1>2, <1>4
  <2>2. CASE i < k
    BY <1>0, <1>1, <1>2, <1>4, <2>1, <2>2
  <2>3. CASE ~(i < k)
    <3> DEFINE j == i - (k - 1)
    <3>1. j \in 1..(Len(s) - k) /\ k + j = i + 1 /\ i + 1 \in 1..Len(s)
      <4>1. i \in Int /\ k \in Int /\ Len(s) \in Int
        BY <1>0, <2>1
      <4>2. k <= i /\ i <= Len(s) - 1 /\ 1 <= i
        BY <1>0, <2>1, <2>3
      <4>3. k + j = i + 1 /\ j \in Int
        BY <4>1
      <4>4. 1 <= j /\ j <= Len(s) - k
        BY <4>1, <4>2
      <4>5. i + 1 \in 1..Len(s)
        BY <4>1, <4>2
      <4> QED BY <4>1, <4>3, <4>4, <4>5
    <3>2. r[i] = q[j]
      <4>1. ~(i <= Len(p)) /\ i - Len(p) = j /\ i \in 1..(Len(p) + Len(q))
        BY <1>0, <1>1, <1>2, <2>1, <2>3
      <4> QED BY <1>4, <4>1
    <3> HIDE DEF j
    <3>3. q[j] = s[i + 1]
      BY <1>2, <3>1
    <3> QED BY <1>0, <2>3, <3>1, <3>2, <3>3
  <2> QED BY <2>2, <2>3
<1> QED BY <1>4, <1>5

LEMMA RemovalKeeps ==
  ASSUME AccountInv, NEW b \in Browsers, CommitRemoval(b)
  PROVE  AccountInv'
<1> USE DEF AccountInv
<1>1. visit' \in [Browsers -> Visit]
  <2>1. NoVisit \in Visit
    BY DEF Visit
  <2> QED BY <2>1 DEF CommitRemoval, Over
<1>2. OneFounder' /\ UserNamesDiffer' /\ users' = users /\ founders' = founders
      /\ cookie' = cookie /\ opened' = opened
  BY DEF CommitRemoval, RecordsAreUnique, OneFounder, UserNamesDiffer
<1>3. members' \in Seq(Member) /\ OneMembership'
  <2> DEFINE at == MemberAt(visit[b].user)
             k == CHOOSE i \in at : \A j \in at : i <= j
  <2>1. CASE at = {}
    BY <2>1 DEF CommitRemoval, RecordsAreUnique, OneMembership
  <2>2. CASE at # {}
    <3>1. at \subseteq Nat /\ at # {} /\ at \subseteq DOMAIN members
      BY <2>2 DEF MemberAt
    <3>2. \E i \in at : \A j \in at : i <= j
      <4>1. \A i, j \in at : i = j
        BY DEF MemberAt, RecordsAreUnique, OneMembership
      <4>2. PICK i \in at : TRUE
        BY <3>1
      <4> HIDE DEF at
      <4> QED BY <3>1, <4>1, <4>2
    <3>3. k \in DOMAIN members
      <4> HIDE DEF at
      <4> QED BY <3>1, <3>2
    <3>4. members' = SubSeq(members, 1, k - 1) \o SubSeq(members, k + 1, Len(members))
      BY <2>2 DEF CommitRemoval
    <3> HIDE DEF k, at
    <3>5. /\ members' \in Seq(Member)
          /\ \A i \in DOMAIN members' : /\ members'[i] = members[IF i < k THEN i ELSE i + 1]
                                        /\ (IF i < k THEN i ELSE i + 1) \in DOMAIN members
      <4> DEFINE r == SubSeq(members, 1, k - 1) \o SubSeq(members, k + 1, Len(members))
      <4>1. /\ r \in Seq(Member)
            /\ \A i \in DOMAIN r : /\ r[i] = members[IF i < k THEN i ELSE i + 1]
                                   /\ (IF i < k THEN i ELSE i + 1) \in DOMAIN members
        BY <3>3, WithoutOne
      <4> QED BY <3>4, <4>1
    <3>6. OneMembership'
      <4> SUFFICES ASSUME NEW i \in DOMAIN members', NEW j \in DOMAIN members',
                          members'[i].user = members'[j].user
                   PROVE  i = j
        BY DEF OneMembership
      <4>1. (IF i < k THEN i ELSE i + 1) = (IF j < k THEN j ELSE j + 1)
        BY <3>5 DEF RecordsAreUnique, OneMembership
      <4>2. i \in Nat /\ j \in Nat /\ k \in Nat
        BY <3>3, <3>5
      <4> QED BY <4>1, <4>2
    <3> QED BY <3>5, <3>6
  <2> QED BY <2>1, <2>2
<1> QED BY <1>1, <1>2, <1>3 DEF RecordsAreUnique

\* Sessions come and go without a change of the other records.
LEMMA SessionsKeep ==
  ASSUME AccountInv,
         \/ \E b \in Browsers : CommitSession(b) \/ CommitLogout(b)
         \/ \E s \in sessions : SessionEnds(s)
         \/ UNCHANGED accountVars
  PROVE  AccountInv'
<1> USE DEF AccountInv, RecordsAreUnique, OneFounder, UserNamesDiffer, OneMembership
<1>1. NoVisit \in Visit
  BY DEF Visit
<1>2. ASSUME NEW b \in Browsers, CommitSession(b) PROVE AccountInv'
  BY <1>1, <1>2 DEF CommitSession, Over
<1>3. ASSUME NEW b \in Browsers, CommitLogout(b) PROVE AccountInv'
  BY <1>1, <1>3 DEF CommitLogout, Over
<1>4. ASSUME NEW s \in sessions, SessionEnds(s) PROVE AccountInv'
  BY <1>4 DEF SessionEnds
<1>5. CASE UNCHANGED accountVars
  BY <1>5 DEF accountVars
<1> QED BY <1>2, <1>3, <1>4, <1>5

\* The invariant holds in every order of the requests' steps.
LEMMA AccountInvariant == AccountsSpec => []AccountInv
<1>1. AccountsInit => AccountInv
  <2>1. NoVisit \in Visit
    BY DEF Visit
  <2> QED BY <2>1 DEF AccountsInit, AccountInv, RecordsAreUnique, OneFounder, UserNamesDiffer,
       OneMembership
<1>2. AccountInv /\ [AccountsNext]_accountVars => AccountInv'
  BY AsksKeep, FoundKeeps, UserKeeps, MemberKeeps, RemovalKeeps, SessionsKeep DEF AccountsNext
<1> QED BY <1>1, <1>2, PTL DEF AccountsSpec

\* However the requests of several browsers overlap, there is one administrator by
\* bootstrap, one user of a name and one membership of a user (createAdminIfNeeded,
\* the handlers of users and members).
THEOREM RecordsStayUnique == AccountsSpec => []RecordsAreUnique
BY AccountInvariant, PTL DEF AccountInv

\* Sessions, members and the requests under way refer to users that are there.
RefersToUsers ==
  /\ Len(users) <= MaxUsers /\ founders \in Nat
  /\ sessions \subseteq [id : 1..MaxSessions, user : DOMAIN users, over : BOOLEAN]
  /\ cookie \in [Browsers -> 0..MaxSessions] /\ opened \in 0..MaxSessions
  /\ \A k \in DOMAIN members : members[k].user \in DOMAIN users
  /\ \A b \in Browsers :
       visit[b].step \in {"session", "member", "removal"} => visit[b].user \in DOMAIN users

\* A reference holds as users are added.
LEMMA ReferencesKept ==
  ASSUME AccountInv, RefersToUsers, [AccountsNext]_accountVars
  PROVE  RefersToUsers'
<1> USE DEF RefersToUsers
<1>0. /\ users \in Seq(User) /\ members \in Seq(Member) /\ visit \in [Browsers -> Visit]
      /\ MaxUsers \in Nat \ {0} /\ MaxSessions \in Nat
  BY AccountsAssumption DEF AccountInv
<1>1. ASSUME NEW b \in Browsers, NEW v, Continue(b, v),
             v.step \in {"session", "member", "removal"} => v.user \in DOMAIN users
      PROVE  RefersToUsers'
  BY <1>0, <1>1 DEF Continue
<1>2. ASSUME NEW b \in Browsers,
             \/ \E name \in Names : \/ AskBootstrap(b, name) \/ AskLogin(b, name)
                                    \/ \E role \in Roles : AskCreateUser(b, name, role)
             \/ \E u \in DOMAIN users :
                  \/ \E p \in Grants : AskMember(b, u, "member", p)
                  \/ AskMember(b, u, "removal", "view")
             \/ AskLogout(b)
      PROVE  RefersToUsers'
  <2> HIDE DEF RefersToUsers
  <2>1. ASSUME NEW name \in Names, AskBootstrap(b, name)
        PROVE  RefersToUsers'
    <3> DEFINE v == [step |-> "found", name |-> name]
    <3>1. Continue(b, v) /\ v.step = "found"
      BY <2>1 DEF AskBootstrap
    <3> HIDE DEF v
    <3> QED BY <1>1, <3>1
  <2>2. ASSUME NEW name \in Names, AskLogin(b, name)
        PROVE  RefersToUsers'
    <3>1. PICK u \in DOMAIN users : Continue(b, [step |-> "session", user |-> u])
      BY <2>2 DEF AskLogin
    <3> DEFINE v == [step |-> "session", user |-> u]
    <3>2. Continue(b, v) /\ v.user \in DOMAIN users
      BY <3>1
    <3> HIDE DEF v
    <3> QED BY <1>1, <3>2
  <2>3. ASSUME NEW name \in Names, NEW role \in Roles, AskCreateUser(b, name, role)
        PROVE  RefersToUsers'
    <3> DEFINE v == [step |-> "create", name |-> name, role |-> role]
    <3>1. Continue(b, v) /\ v.step = "create"
      BY <2>3 DEF AskCreateUser
    <3> HIDE DEF v
    <3> QED BY <1>1, <3>1
  <2>4. ASSUME NEW u \in DOMAIN users, NEW step, NEW p, AskMember(b, u, step, p)
        PROVE  RefersToUsers'
    <3> DEFINE v == [step |-> step, user |-> u, permissions |-> p]
    <3>1. Continue(b, v) /\ v.user \in DOMAIN users
      BY <2>4 DEF AskMember
    <3> HIDE DEF v
    <3> QED BY <1>1, <3>1
  <2>5. ASSUME AskLogout(b)
        PROVE  RefersToUsers'
    <3> DEFINE v == [step |-> "logout", id |-> cookie[b]]
    <3>1. Continue(b, v) /\ v.step = "logout"
      BY <2>5 DEF AskLogout
    <3> HIDE DEF v
    <3> QED BY <1>1, <3>1
  <2> QED BY <1>2, <2>1, <2>2, <2>3, <2>4, <2>5
<1>3. ASSUME NEW b \in Browsers, CommitFound(b)
      PROVE  RefersToUsers'
  <2>1. CASE users = <<>>
    <3> DEFINE first == [name |-> visit[b].name, role |-> "admin"]
    <3>1. users' = <<first>> /\ founders' = founders + 1
          /\ visit' = [visit EXCEPT ![b] = [step |-> "session", user |-> 1]]
          /\ UNCHANGED <<sessions, members, cookie, opened>>
      BY <1>3, <2>1 DEF CommitFound
    <3> HIDE DEF first
    <3>2. DOMAIN users = {} /\ DOMAIN users' = {1} /\ Len(users') = 1
      BY <2>1, <3>1
    <3>3. sessions' \subseteq [id : 1..MaxSessions, user : DOMAIN users', over : BOOLEAN]
      BY <3>1, <3>2
    <3>4. \A d \in Browsers : visit'[d].step \in {"session", "member", "removal"}
                                => visit'[d].user \in DOMAIN users'
      BY <1>0, <3>1, <3>2
    <3> QED BY <1>0, <3>1, <3>2, <3>3, <3>4
  <2>2. CASE users # <<>>
    BY <1>0, <1>3, <2>2 DEF CommitFound, Over, NoVisit
  <2> QED BY <2>1, <2>2
<1>4. ASSUME NEW b \in Browsers, CommitSession(b)
      PROVE  RefersToUsers'
  <2>1. opened' \in 1..MaxSessions /\ cookie' = [cookie EXCEPT ![b] = opened']
        /\ visit' = [visit EXCEPT ![b] = NoVisit] /\ UNCHANGED <<users, members, founders>>
    BY <1>0, <1>4 DEF CommitSession, Over
  <2>2. [id |-> opened', user |-> visit[b].user, over |-> FALSE]
          \in [id : 1..MaxSessions, user : DOMAIN users, over : BOOLEAN]
    BY <1>4, <2>1 DEF CommitSession, AtStep
  <2>3. sessions' \subseteq [id : 1..MaxSessions, user : DOMAIN users, over : BOOLEAN]
    BY <1>4, <2>2 DEF CommitSession
  <2> QED BY <1>0, <2>1, <2>3 DEF NoVisit
<1>5. ASSUME NEW b \in Browsers, CommitLogout(b)
      PROVE  RefersToUsers'
  BY <1>0, <1>5 DEF CommitLogout, Over, NoVisit
<1>6. ASSUME NEW b \in Browsers, CommitUser(b)
      PROVE  RefersToUsers'
  <2>1. visit' = [visit EXCEPT ![b] = NoVisit]
        /\ UNCHANGED <<sessions, members, cookie, opened, founders>>
    BY <1>6 DEF CommitUser, Over
  <2>2. DOMAIN users \subseteq DOMAIN users' /\ Len(users') <= MaxUsers
    <3>1. CASE users' = users
      BY <3>1
    <3>2. CASE users' # users
      <4> DEFINE new == [name |-> visit[b].name, role |-> visit[b].role]
      <4>1. users' = Append(users, new) /\ Len(users) < MaxUsers
        BY <1>6, <3>2 DEF CommitUser
      <4> HIDE DEF new
      <4> QED BY <1>0, <4>1
    <3> QED BY <3>1, <3>2
  <2>3. sessions' \subseteq [id : 1..MaxSessions, user : DOMAIN users', over : BOOLEAN]
    BY <2>1, <2>2
  <2> QED BY <1>0, <2>1, <2>2, <2>3 DEF NoVisit
<1>7. ASSUME NEW b \in Browsers, CommitMember(b)
      PROVE  RefersToUsers'
  <2> DEFINE new == [user |-> visit[b].user, permissions |-> visit[b].permissions]
             at == MemberAt(new.user)
  <2>1. visit' = [visit EXCEPT ![b] = NoVisit] /\ new.user \in DOMAIN users
        /\ UNCHANGED <<users, sessions, cookie, opened, founders>>
    BY <1>7 DEF CommitMember, Over, AtStep
  <2>2. members' = Append(members, new)
          \/ members' = [k \in DOMAIN members |-> IF k \in at THEN new ELSE members[k]]
    BY <1>7 DEF CommitMember
  <2> HIDE DEF at, new
  <2>3. \A k \in DOMAIN members' : members'[k].user \in DOMAIN users
    <3>1. CASE members' = Append(members, new)
      <4>1. \A k \in DOMAIN members' : \/ k \in DOMAIN members /\ members'[k] = members[k]
                                      \/ members'[k] = new
        BY <1>0, <3>1
      <4> QED BY <2>1, <4>1
    <3>2. CASE members' = [k \in DOMAIN members |-> IF k \in at THEN new ELSE members[k]]
      BY <2>1, <3>2
    <3> QED BY <2>2, <3>1, <3>2
  <2> QED BY <1>0, <2>1, <2>3 DEF NoVisit
<1>8. ASSUME NEW b \in Browsers, CommitRemoval(b)
      PROVE  RefersToUsers'
  <2> DEFINE at == MemberAt(visit[b].user)
             k == CHOOSE i \in at : \A j \in at : i <= j
             r == SubSeq(members, 1, k - 1) \o SubSeq(members, k + 1, Len(members))
  <2>1. visit' = [visit EXCEPT ![b] = NoVisit]
        /\ UNCHANGED <<users, sessions, cookie, opened, founders>>
    BY <1>8 DEF CommitRemoval, Over
  <2>2. members' = members \/ (at # {} /\ members' = r)
    BY <1>8 DEF CommitRemoval
  <2>3. ASSUME at # {}, members' = r
        PROVE  \A i \in DOMAIN members' : \E j \in DOMAIN members : members'[i] = members[j]
    <3>1. k \in DOMAIN members
      <4>1. \A i, j \in at : i = j
        BY DEF MemberAt, AccountInv, RecordsAreUnique, OneMembership
      <4>2. at \subseteq DOMAIN members /\ at \subseteq Nat
        BY <1>0 DEF MemberAt
      <4> HIDE DEF at
      <4>3. \E i \in at : \A j \in at : i <= j
        BY <2>3, <4>1, <4>2
      <4> QED BY <4>2, <4>3
    <3> HIDE DEF k
    <3>2. \A i \in DOMAIN r : /\ r[i] = members[IF i < k THEN i ELSE i + 1]
                              /\ (IF i < k THEN i ELSE i + 1) \in DOMAIN members
      BY <1>0, <3>1, WithoutOne
    <3> HIDE DEF r
    <3> QED BY <2>3, <3>2
  <2> HIDE DEF at, k, r
  <2>4. \A i \in DOMAIN members' : members'[i].user \in DOMAIN users
    BY <2>2, <2>3
  <2> QED BY <1>0, <2>1, <2>4 DEF NoVisit
<1>9. ASSUME NEW s \in sessions, SessionEnds(s)
      PROVE  RefersToUsers'
  BY <1>9 DEF SessionEnds
<1>10. CASE UNCHANGED accountVars
  BY <1>10 DEF accountVars
<1> HIDE DEF RefersToUsers
<1> QED BY <1>2, <1>3, <1>4, <1>5, <1>6, <1>7, <1>8, <1>9, <1>10 DEF AccountsNext

\* The records keep their types, so that every session and every membership is a user's
\* (types.ts, User, Session, InstanceMember).
THEOREM AccountsTypeCorrect == AccountsSpec => []AccountsTypeOK
<1>1. AccountsInit => RefersToUsers
  BY AccountsAssumption DEF AccountsInit, RefersToUsers, NoVisit
<1>2. AccountInv /\ RefersToUsers /\ [AccountsNext]_accountVars => RefersToUsers'
  BY ReferencesKept
<1>3. AccountInv /\ RefersToUsers => AccountsTypeOK
  <2> SUFFICES ASSUME AccountInv, RefersToUsers PROVE AccountsTypeOK
    OBVIOUS
  <2>1. members \in Seq([user : DOMAIN users, permissions : Grants])
    <3> DEFINE T == [user : DOMAIN users, permissions : Grants]
    <3>1. members \in Seq(Member) /\ \A k \in DOMAIN members : members[k].user \in DOMAIN users
      BY DEF AccountInv, RefersToUsers
    <3>2. \A k \in DOMAIN members : members[k] \in Member
      BY <3>1
    <3>3. \A x \in Member : x.user \in DOMAIN users => x \in T
      BY DEF Member
    <3>4. /\ Len(members) \in Nat /\ DOMAIN members = 1..Len(members)
          /\ members = [k \in 1..Len(members) |-> members[k]]
      BY <3>1
    <3>5. \A k \in 1..Len(members) : members[k] \in T
      BY <3>1, <3>2, <3>3, <3>4
    <3> HIDE DEF T
    <3>6. members \in Seq(T)
      BY <3>4, <3>5, IsASeq
    <3> QED BY <3>6 DEF T
  <2> QED BY <2>1 DEF AccountInv, RefersToUsers, AccountsTypeOK, User
<1> QED BY <1>1, <1>2, <1>3, AccountInvariant, PTL DEF AccountsSpec

-----------------------------------------------------------------------------
(* Packages and the instances created from them *)

\* A creation has its artifact from the moment it is requested.
CreationSteps ==
  {"token", "enqueue", "lost", "queued", "fetching", "unpacking", "created", "broken", "failed"}
Creation == [step : {"none"}] \cup [step : CreationSteps, of : Uploads]

\* The creations that have been given a token, whatever became of it.
WithToken == {"enqueue", "queued", "fetching", "unpacking", "created", "broken", "failed"}

\* What has a record is whole and no longer written.
ListedIsWhole ==
  /\ \A a \in Uploads : uploading[a] = "written" => packageFile[a] = "whole"
  /\ \A a \in listed : uploading[a] = "done" /\ packageFile[a] = "whole"

\* A creation only knows artifacts that have a record.
RequestedIsListed ==
  \A n \in Creations : creation[n].step # "none" => creation[n].of \in listed

\* The token of a creation is the artifact's present one, or was replaced; if the
\* artifact's token is past its time, so is this creation's.
TokenAccounted ==
  \A n \in Creations :
    creation[n].step \in WithToken =>
      \/ n \in replaced
      \/ /\ downloadToken[creation[n].of] = n
         /\ creation[n].of \in lapsed => n \in ranOut

ArtifactInv ==
  /\ uploading \in [Uploads -> {"idle", "writing", "written", "done"}]
  /\ packageFile \in [Uploads -> Fullness]
  /\ listed \in SUBSET Uploads /\ lapsed \in SUBSET Uploads
  /\ downloadToken \in [Uploads -> Creations \cup {NoCreation}]
  /\ creation \in [Creations -> Creation]
  /\ package \in [Creations -> Fullness]
  /\ ListedIsWhole /\ RequestedIsListed /\ TokenAccounted
  /\ CreatedHasPackage /\ RefusedOnlyIfReplaced

\* What a creation at a step knows.
LEMMA CreationFields ==
  ASSUME ArtifactInv, NEW n \in Creations, NEW a, NEW step \in CreationSteps, AtCreation(n, a, step)
  PROVE  /\ a \in listed /\ a \in Uploads /\ packageFile[a] = "whole"
         /\ creation[n].step = step /\ creation[n].of = a
<1>1. creation[n].step = step /\ creation[n].of = a /\ step # "none"
  BY DEF AtCreation, CreationSteps
<1> QED BY <1>1 DEF ArtifactInv, RequestedIsListed, ListedIsWhole

\* A creation goes on to a step; the others stay where they are.
LEMMA ProceedMoves ==
  ASSUME ArtifactInv, NEW n \in Creations, NEW a \in Uploads, NEW step \in CreationSteps,
         Proceed(n, a, step)
  PROVE  /\ creation' \in [Creations -> Creation]
         /\ creation'[n].step = step /\ creation'[n].of = a
         /\ \A m \in Creations : m # n => creation'[m] = creation[m]
<1>1. [step |-> step, of |-> a] \in Creation
  BY DEF Creation
<1> QED BY <1>1 DEF Proceed, ArtifactInv

-----------------------------------------------------------------------------
(* Uploads and tokens.                                                     *)

LEMMA UploadKeeps ==
  ASSUME ArtifactInv, NEW a \in Uploads, WritePackage(a) \/ UploadFails(a) \/ RecordArtifact(a)
  PROVE  ArtifactInv'
<1> USE DEF ArtifactInv
<1>0. /\ UNCHANGED <<tokens, creation, package, refused>>
      /\ listed \subseteq listed'
  BY DEF WritePackage, UploadFails, RecordArtifact
<1>1. /\ uploading' \in [Uploads -> {"idle", "writing", "written", "done"}]
      /\ packageFile' \in [Uploads -> Fullness] /\ listed' \in SUBSET Uploads
  BY DEF WritePackage, UploadFails, RecordArtifact, Fullness
<1>2. ListedIsWhole'
  BY DEF WritePackage, UploadFails, RecordArtifact, ListedIsWhole
<1>3. RequestedIsListed' /\ TokenAccounted' /\ CreatedHasPackage' /\ RefusedOnlyIfReplaced'
  BY <1>0 DEF tokens, RequestedIsListed, TokenAccounted, CreatedHasPackage, RefusedOnlyIfReplaced
<1> QED BY <1>0, <1>1, <1>2, <1>3 DEF tokens

LEMMA TokenLapsesKeeps ==
  ASSUME ArtifactInv, NEW a \in Uploads, TokenLapses(a)
  PROVE  ArtifactInv'
<1> USE DEF ArtifactInv
<1>1. TokenAccounted'
  <2> SUFFICES ASSUME NEW n \in Creations, creation[n].step \in WithToken, n \notin replaced
               PROVE  /\ downloadToken[creation[n].of] = n
                      /\ creation[n].of \in lapsed' => n \in ranOut'
    BY DEF TokenLapses, TokenAccounted
  <2> QED BY DEF TokenLapses, TokenAccounted
<1>2. ListedIsWhole' /\ RequestedIsListed' /\ CreatedHasPackage' /\ RefusedOnlyIfReplaced'
  BY DEF TokenLapses, artifactFiles, ListedIsWhole, RequestedIsListed, CreatedHasPackage,
     RefusedOnlyIfReplaced
<1> QED BY <1>1, <1>2 DEF TokenLapses, artifactFiles

\* The panel's death ends uploads, and creations that have no task.
LEMMA RestartKeeps ==
  ASSUME ArtifactInv, PanelRestarts
  PROVE  ArtifactInv'
<1> USE DEF ArtifactInv
<1>1. ASSUME NEW n \in Creations
      PROVE  /\ creation'[n] \in Creation
             /\ creation'[n].step \in {creation[n].step, "lost", "broken"}
             /\ creation'[n].step = "none" <=> creation[n].step = "none"
             /\ creation[n].step # "none" => creation'[n].of = creation[n].of
             /\ creation'[n].step \in WithToken => creation[n].step \in WithToken
  <2>1. creation[n] \in Creation
    OBVIOUS
  <2>2. CASE creation[n].step \in {"token", "enqueue"}
    <3>1. creation'[n] = [creation[n] EXCEPT !.step = "lost"]
      BY <2>2 DEF PanelRestarts
    <3> QED BY <2>1, <2>2, <3>1 DEF Creation, CreationSteps, WithToken
  <2>3. CASE creation[n].step = "fetching"
    <3>1. creation'[n] = [creation[n] EXCEPT !.step = "broken"]
      BY <2>3 DEF PanelRestarts
    <3> QED BY <2>1, <2>3, <3>1 DEF Creation, CreationSteps, WithToken
  <2>4. CASE creation[n].step \notin {"token", "enqueue", "fetching"}
    <3>1. creation'[n] = creation[n]
      BY <2>4 DEF PanelRestarts
    <3> QED BY <2>1, <3>1
  <2> QED BY <2>2, <2>3, <2>4
<1>2. creation' \in [Creations -> Creation]
  <2>1. creation' = [n \in Creations |-> creation'[n]]
    BY DEF PanelRestarts
  <2> QED BY <1>1, <2>1
<1>3. /\ uploading' \in [Uploads -> {"idle", "writing", "written", "done"}]
      /\ ListedIsWhole'
  BY DEF PanelRestarts, ListedIsWhole
<1>4. UNCHANGED <<packageFile, listed, tokens, package, refused>>
  BY DEF PanelRestarts
<1>5. RequestedIsListed'
  BY <1>1, <1>4 DEF RequestedIsListed
<1>6. TokenAccounted'
  <2> SUFFICES ASSUME NEW n \in Creations, creation'[n].step \in WithToken
               PROVE  \/ n \in replaced
                      \/ /\ downloadToken[creation'[n].of] = n
                         /\ creation'[n].of \in lapsed => n \in ranOut
    BY <1>4 DEF TokenAccounted, tokens
  <2>1. creation[n].step \in WithToken /\ creation[n].step # "none"
    BY <1>1 DEF WithToken
  <2> QED BY <1>1, <2>1 DEF TokenAccounted
<1>7. CreatedHasPackage' /\ RefusedOnlyIfReplaced'
  BY <1>1, <1>4 DEF CreatedHasPackage, RefusedOnlyIfReplaced, tokens
<1> QED BY <1>2, <1>3, <1>4, <1>5, <1>6, <1>7 DEF tokens

-----------------------------------------------------------------------------
(* Creations.                                                              *)

\* The new token is this creation's, and the one before it is noted as replaced.
LEMMA IssueKeeps ==
  ASSUME ArtifactInv, NEW a \in Uploads, NEW n \in Creations, IssueToken(n, a)
  PROVE  ArtifactInv'
<1> USE DEF ArtifactInv
<1>0. a \in listed
  BY CreationFields DEF IssueToken, CreationSteps
<1>1. /\ creation' \in [Creations -> Creation]
      /\ creation'[n].step = "enqueue" /\ creation'[n].of = a
      /\ \A m \in Creations : m # n => creation'[m] = creation[m]
  BY ProceedMoves DEF IssueToken, CreationSteps
<1>2. /\ downloadToken' = [downloadToken EXCEPT ![a] = n]
      /\ replaced' = replaced \cup {downloadToken[a]} /\ lapsed' = lapsed \ {a}
      /\ UNCHANGED <<artifactFiles, ranOut, package, refused>>
  BY DEF IssueToken
<1>3. TokenAccounted'
  <2> SUFFICES ASSUME NEW m \in Creations, creation'[m].step \in WithToken
               PROVE  \/ m \in replaced'
                      \/ /\ downloadToken'[creation'[m].of] = m
                         /\ creation'[m].of \in lapsed' => m \in ranOut'
    BY DEF TokenAccounted
  <2>1. CASE m = n
    BY <1>1, <1>2, <2>1
  <2>2. CASE m # n
    <3>1. creation'[m] = creation[m] /\ creation[m].step \in WithToken
      BY <1>1, <2>2
    <3>2. m \in replaced \/ (downloadToken[creation[m].of] = m
                             /\ (creation[m].of \in lapsed => m \in ranOut))
      BY <3>1 DEF TokenAccounted
    <3>3. CASE creation[m].of = a
      BY <1>2, <3>2, <3>3
    <3>4. CASE creation[m].of # a
      <4>1. downloadToken'[creation[m].of] = downloadToken[creation[m].of]
        BY <1>2, <3>4
      <4> QED BY <1>2, <3>1, <3>2, <4>1
    <3> QED BY <3>3, <3>4
  <2> QED BY <2>1, <2>2
<1>4. RequestedIsListed' /\ CreatedHasPackage' /\ RefusedOnlyIfReplaced' /\ ListedIsWhole'
  BY <1>0, <1>1, <1>2 DEF artifactFiles, RequestedIsListed, CreatedHasPackage,
     RefusedOnlyIfReplaced, ListedIsWhole
<1> QED BY <1>1, <1>2, <1>3, <1>4 DEF artifactFiles

\* Any other step of one creation: it is requested, or it goes on with its token.
LEMMA CreationMoves ==
  ASSUME ArtifactInv, NEW a \in listed, NEW n \in Creations, NEW step \in CreationSteps,
         Proceed(n, a, step), UNCHANGED <<artifactFiles, tokens>>,
         step \in WithToken => creation[n].step \in WithToken /\ creation[n].of = a,
         package' \in [Creations -> Fullness],
         \A m \in Creations : m # n => package'[m] = package[m],
         step = "created" => package'[n] = "whole",
         RefusedOnlyIfReplaced'
  PROVE  ArtifactInv'
<1> USE DEF ArtifactInv
<1>1. /\ creation' \in [Creations -> Creation]
      /\ creation'[n].step = step /\ creation'[n].of = a
      /\ \A m \in Creations : m # n => creation'[m] = creation[m]
  BY ProceedMoves
<1>2. TokenAccounted'
  <2> SUFFICES ASSUME NEW m \in Creations, creation'[m].step \in WithToken
               PROVE  \/ m \in replaced
                      \/ /\ downloadToken[creation'[m].of] = m
                         /\ creation'[m].of \in lapsed => m \in ranOut
    BY DEF TokenAccounted, tokens
  <2>1. creation[m].step \in WithToken /\ creation'[m].of = creation[m].of
    BY <1>1
  <2> QED BY <2>1 DEF TokenAccounted
<1>3. RequestedIsListed' /\ ListedIsWhole' /\ CreatedHasPackage'
  BY <1>1 DEF artifactFiles, RequestedIsListed, ListedIsWhole, CreatedHasPackage
<1> QED BY <1>1, <1>2, <1>3 DEF artifactFiles, tokens

LEMMA CreationKeeps ==
  ASSUME ArtifactInv, NEW a \in Uploads, NEW n \in Creations,
         \/ RequestCreation(n, a) \/ EnqueueCreation(n, a) \/ FetchPackage(n, a)
         \/ ReceivePackage(n, a) \/ UnpackPackage(n, a) \/ CreationBreaks(n, a)
         \/ CreationRetried(n, a)
  PROVE  ArtifactInv'
<1>0. /\ package \in [Creations -> Fullness] /\ packageFile[a] \in Fullness
      /\ RefusedOnlyIfReplaced /\ {"part"} \subseteq Fullness
  BY DEF ArtifactInv, Fullness
<1>1. CASE RequestCreation(n, a)
  <2>1. /\ a \in listed /\ Proceed(n, a, "token") /\ UNCHANGED <<artifactFiles, tokens>>
        /\ package' = package /\ RefusedOnlyIfReplaced'
    BY <1>0, <1>1 DEF RequestCreation, RefusedOnlyIfReplaced, tokens
  <2> QED BY <1>0, <2>1, CreationMoves DEF CreationSteps, WithToken
<1>2. CASE EnqueueCreation(n, a) \/ CreationBreaks(n, a) \/ CreationRetried(n, a)
  <2>1. \E from \in CreationSteps \cap WithToken, to \in CreationSteps \ {"created"} :
          AtCreation(n, a, from) /\ Proceed(n, a, to)
    BY <1>2 DEF EnqueueCreation, CreationBreaks, CreationRetried, CreationSteps, WithToken
  <2>2. UNCHANGED <<artifactFiles, tokens>> /\ package' = package /\ RefusedOnlyIfReplaced'
    BY <1>0, <1>2 DEF EnqueueCreation, CreationBreaks, CreationRetried, RefusedOnlyIfReplaced,
                      tokens
  <2> QED BY <1>0, <2>1, <2>2, CreationFields, CreationMoves
<1>3. CASE FetchPackage(n, a)
  <2>1. /\ a \in listed /\ packageFile[a] = "whole" /\ creation[n].step = "queued"
        /\ creation[n].of = a
    BY <1>3, CreationFields DEF FetchPackage, CreationSteps
  <2>2. ~Accepted(n, a) => n \in replaced \cup ranOut
    BY <2>1 DEF Accepted, ArtifactInv, TokenAccounted, WithToken
  <2>3. /\ UNCHANGED <<artifactFiles, tokens>> /\ package' = package
        /\ refused' = IF Accepted(n, a) THEN refused ELSE refused \cup {n}
        /\ Proceed(n, a, IF Accepted(n, a) THEN "fetching" ELSE "broken")
    BY <1>3 DEF FetchPackage
  <2>4. RefusedOnlyIfReplaced'
    BY <1>0, <2>2, <2>3 DEF RefusedOnlyIfReplaced, tokens
  <2> QED BY <1>0, <2>1, <2>3, <2>4, CreationMoves DEF CreationSteps, WithToken
<1>4. CASE ReceivePackage(n, a) \/ UnpackPackage(n, a)
  <2>1. \E from \in {"fetching", "unpacking"} : AtCreation(n, a, from)
    BY <1>4 DEF ReceivePackage, UnpackPackage
  <2>2. /\ a \in listed /\ packageFile[a] = "whole" /\ creation[n].step \in WithToken
        /\ creation[n].of = a
    BY <2>1, CreationFields DEF CreationSteps, WithToken
  <2>3. /\ UNCHANGED <<artifactFiles, tokens>> /\ RefusedOnlyIfReplaced'
    BY <1>0, <1>4 DEF ReceivePackage, UnpackPackage, RefusedOnlyIfReplaced, tokens
  <2>4. \/ Proceed(n, a, "unpacking") /\ package' = [package EXCEPT ![n] = "part"]
        \/ Proceed(n, a, "created") /\ package' = [package EXCEPT ![n] = "whole"]
    BY <1>4, <2>2 DEF ReceivePackage, UnpackPackage
  <2>5. /\ package' \in [Creations -> Fullness]
        /\ \A m \in Creations : m # n => package'[m] = package[m]
        /\ Proceed(n, a, "unpacking") \/ (Proceed(n, a, "created") /\ package'[n] = "whole")
    BY <1>0, <2>4 DEF Fullness
  <2> QED BY <2>2, <2>3, <2>5, CreationMoves DEF CreationSteps, WithToken
<1> QED BY <1>1, <1>2, <1>3, <1>4

LEMMA ArtifactStep ==
  ASSUME ArtifactInv, [ArtifactNext]_artifactVars
  PROVE  ArtifactInv'
<1>1. CASE UNCHANGED artifactVars
  BY <1>1 DEF artifactVars, artifactFiles, tokens, ArtifactInv, ListedIsWhole,
     RequestedIsListed, TokenAccounted, CreatedHasPackage, RefusedOnlyIfReplaced
<1>2. CASE ArtifactNext
  BY <1>2, UploadKeeps, TokenLapsesKeeps, RestartKeeps, IssueKeeps, CreationKeeps DEF ArtifactNext
<1> QED BY <1>1, <1>2

-----------------------------------------------------------------------------
(* What the invariant is for.                                              *)

LEMMA ArtifactInvariant == ArtifactSpec => []ArtifactInv
<1>1. ArtifactInit => ArtifactInv
  <2>1. [step |-> "none"] \in Creation /\ "none" \in Fullness
    BY DEF Creation, Fullness
  <2> QED BY <2>1 DEF ArtifactInit, ArtifactInv, ListedIsWhole, RequestedIsListed, TokenAccounted,
       CreatedHasPackage, RefusedOnlyIfReplaced, WithToken
<1> QED BY <1>1, ArtifactStep, PTL DEF ArtifactSpec

\* A created instance has its whole package, whatever broke, was retried or lost on
\* the way (POST /api/artifacts, downloadArtifact).
THEOREM CreatedFromWholePackage == ArtifactSpec => []CreatedHasPackage
<1>1. ArtifactInv => CreatedHasPackage
  BY DEF ArtifactInv
<1> QED BY <1>1, ArtifactInvariant, PTL

\* The agent is refused a package only when its token is past its time or another
\* creation has replaced it (GET /api/agent/artifacts/:id).
THEOREM RefusalsHaveCause == ArtifactSpec => []RefusedOnlyIfReplaced
<1>1. ArtifactInv => RefusedOnlyIfReplaced
  BY DEF ArtifactInv
<1> QED BY <1>1, ArtifactInvariant, PTL

\* The packages, tokens, creations and their failures keep their types (types.ts,
\* ArtifactRecord).
THEOREM ArtifactTypeCorrect == ArtifactSpec => []ArtifactTypeOK
<1> DEFINE Noted == /\ failures \in [Creations -> 0..MaxFailures]
                    /\ replaced \cup ranOut \cup refused \subseteq Creations \cup {NoCreation}
<1>1. ArtifactInit => Noted
  BY ArtifactAssumption DEF ArtifactInit
<1>2. ArtifactInv /\ Noted /\ [ArtifactNext]_artifactVars => Noted'
  <2> SUFFICES ASSUME ArtifactInv, Noted, [ArtifactNext]_artifactVars PROVE Noted'
    OBVIOUS
  <2>1. ASSUME NEW a \in Uploads, NEW n \in Creations, IssueToken(n, a) PROVE Noted'
    BY <2>1 DEF IssueToken, artifactFiles, ArtifactInv
  <2>2. ASSUME NEW a \in Uploads, TokenLapses(a) PROVE Noted'
    BY <2>2 DEF TokenLapses, artifactFiles, ArtifactInv
  <2>3. ASSUME NEW a \in Uploads, NEW n \in Creations, FetchPackage(n, a) PROVE Noted'
    BY <2>3 DEF FetchPackage, artifactFiles, tokens
  <2>4. ASSUME NEW a \in Uploads, NEW n \in Creations, CreationRetried(n, a) PROVE Noted'
    BY <2>4, ArtifactAssumption DEF CreationRetried, artifactFiles, tokens
  <2>5. CASE UNCHANGED <<failures, replaced, ranOut, refused>>
    BY <2>5
  <2> HIDE DEF Noted
  <2> QED BY <2>1, <2>2, <2>3, <2>4, <2>5
          DEF ArtifactNext, PanelRestarts, WritePackage, UploadFails, RecordArtifact,
              RequestCreation, EnqueueCreation, ReceivePackage, UnpackPackage, CreationBreaks,
              artifactVars, artifactFiles, tokens
<1>3. ArtifactInv /\ Noted => ArtifactTypeOK
  BY DEF ArtifactInv, ArtifactTypeOK
<1> QED BY <1>1, <1>2, <1>3, ArtifactInvariant, PTL DEF ArtifactSpec

-----------------------------------------------------------------------------
(* The components together *)

\* A behaviour of the composition is one of each component: the others leave its
\* variables alone.
LEMMA ComponentsAreEach ==
  ComponentsSpec => /\ DataSpec /\ StoreSpec /\ MetricSpec /\ SessionSpec /\ AccountsSpec
                    /\ ArtifactSpec /\ EditingSpec
<1>1. ComponentsInit => /\ DataInit /\ StoreInit /\ MetricInit /\ SessionInit /\ AccountsInit
                        /\ ArtifactInit /\ EditingInit
  BY DEF ComponentsInit
<1> USE DEF ComponentsNext, allVars, OfStore, OfMetrics, OfSessions, OfAccounts, OfArtifacts,
        OfEditing, OfData, ButStore, ButMetrics, ButSessions, ButAccounts, ButArtifacts,
        ButEditing, ButData
<1>2. [ComponentsNext]_allVars => [DataNext]_dataVars
  BY Zenon
<1>3. [ComponentsNext]_allVars => [StoreNext]_storeVars
  BY Zenon
<1>4. [ComponentsNext]_allVars => [MetricNext]_metricVars
  BY Zenon
<1>5. [ComponentsNext]_allVars => [SessionNext]_sessionVars
  BY Zenon
<1>6. [ComponentsNext]_allVars => [AccountsNext]_accountVars
  BY Zenon
<1>7. [ComponentsNext]_allVars => [ArtifactNext]_artifactVars
  BY Zenon
<1>8. [ComponentsNext]_allVars => [EditingNext]_editingVars
  BY Zenon
<1> QED BY <1>1, <1>2, <1>3, <1>4, <1>5, <1>6, <1>7, <1>8, PTL
        DEF ComponentsSpec, DataSpec, StoreSpec, MetricSpec, SessionSpec, AccountsSpec,
            ArtifactSpec, EditingSpec

\* The seven components keep their types side by side, as the run checks them.
THEOREM ComponentTypesCorrect == ComponentsSpec => []ComponentsTypeOK
<1>1. /\ DataTypeOK /\ StoreTypeOK /\ MetricTypeOK /\ SessionTypeOK /\ AccountsTypeOK
      /\ ArtifactTypeOK /\ EditingTypeOK
      => ComponentsTypeOK
  BY DEF ComponentsTypeOK
<1> QED BY <1>1, ComponentsAreEach, DataTypeCorrect, StoreTypeCorrect, MetricTypeCorrect,
           SessionTypeCorrect, AccountsTypeCorrect, ArtifactTypeCorrect, EditingTypeCorrect, PTL
=============================================================================
