------------------------------ MODULE Accounts ------------------------------
(***************************************************************************)
(* Users, their sessions and the members of one instance                   *)
(* (apps/api/src/server.ts, service.ts).  A browser has at most one request *)
(* under way.  A handler checks the session and the role in one store      *)
(* operation and changes the records in another; the requests of other     *)
(* browsers come in between.                                               *)
(***************************************************************************)
EXTENDS Integers, Sequences

CONSTANTS
  Browsers,
  Names,         \* user names as they are typed
  Lower,         \* the name in lower case
  MaxUsers,      \* bound on the users
  MaxSessions    \* bound on the sessions that are opened

ASSUME AccountsAssumption ==
  /\ Names \subseteq DOMAIN Lower /\ MaxUsers \in Nat \ {0} /\ MaxSessions \in Nat

Roles == {"admin", "user"}
Grants == {"view", "operate"}   \* the permissions of a member
NoVisit == [step |-> "none"]

VARIABLES
  users,         \* [name, role]; a user's id is the place in this sequence
  sessions,      \* [id, user, over]
  members,       \* [user, permissions] of the instance
  visit,         \* each browser's request: what its handler will do next
  cookie,        \* each browser's session id, 0 if it has none
  opened,        \* sessions opened so far
  founders       \* history: users that a bootstrap has created

accountVars == <<users, sessions, members, visit, cookie, opened, founders>>

AccountsInit ==
  /\ users = <<>> /\ sessions = {} /\ members = <<>> /\ opened = 0 /\ founders = 0
  /\ visit = [b \in Browsers |-> NoVisit] /\ cookie = [b \in Browsers |-> 0]

\* getCurrentUser: the user of the browser's session, unless it is over.
CurrentUsers(b) == {s.user : s \in {t \in sessions : t.id = cookie[b] /\ ~t.over}}
IsAdmin(b) == \E u \in CurrentUsers(b) : users[u].role = "admin"
TakenName(name) == \E u \in DOMAIN users : Lower[users[u].name] = Lower[name]

Continue(b, v) ==
  /\ visit' = [visit EXCEPT ![b] = v]
  /\ UNCHANGED <<users, sessions, members, cookie, opened, founders>>
Over(b) == visit' = [visit EXCEPT ![b] = NoVisit]
AtStep(b, step) == visit[b].step = step

-----------------------------------------------------------------------------
(* The handlers up to their last check *)

AskBootstrap(b, name) ==
  visit[b] = NoVisit /\ Continue(b, [step |-> "found", name |-> name])

\* The first user whose name is the given one in lower case; the password is right.
AskLogin(b, name) ==
  /\ visit[b] = NoVisit
  /\ \E u \in DOMAIN users :
       /\ Lower[users[u].name] = Lower[name]
       /\ \A v \in 1..(u - 1) : Lower[users[v].name] # Lower[name]
       /\ Continue(b, [step |-> "session", user |-> u])

AskLogout(b) ==
  visit[b] = NoVisit /\ cookie[b] # 0 /\ Continue(b, [step |-> "logout", id |-> cookie[b]])

AskCreateUser(b, name, role) ==
  /\ visit[b] = NoVisit /\ IsAdmin(b)
  /\ Continue(b, [step |-> "create", name |-> name, role |-> role])

\* Only an administrator or the owner gets here; the owner is user 1.
AskMember(b, u, step, permissions) ==
  /\ visit[b] = NoVisit /\ (IsAdmin(b) \/ 1 \in CurrentUsers(b))
  /\ u \in DOMAIN users /\ u # 1
  /\ Continue(b, [step |-> step, user |-> u, permissions |-> permissions])

-----------------------------------------------------------------------------
(* Their transactions *)

\* Mutant: the handler has found no user before and does not look again.
FoundUnchecked(b) ==
  /\ AtStep(b, "found") /\ Len(users) < MaxUsers
  /\ users' = Append(users, [name |-> visit[b].name, role |-> "admin"])
  /\ founders' = founders + 1
  /\ visit' = [visit EXCEPT ![b] = [step |-> "session", user |-> Len(users')]]
  /\ UNCHANGED <<sessions, members, cookie, opened>>

\* createAdminIfNeeded.
CommitFound(b) ==
  /\ AtStep(b, "found")
  /\ IF users = <<>>
     THEN /\ users' = <<[name |-> visit[b].name, role |-> "admin"]>>
          /\ founders' = founders + 1
          /\ visit' = [visit EXCEPT ![b] = [step |-> "session", user |-> 1]]
     ELSE Over(b) /\ UNCHANGED <<users, founders>>
  /\ UNCHANGED <<sessions, members, cookie, opened>>

\* setSession.
CommitSession(b) ==
  /\ AtStep(b, "session") /\ opened < MaxSessions
  /\ opened' = opened + 1
  /\ sessions' = {s \in sessions : ~s.over}
                   \cup {[id |-> opened', user |-> visit[b].user, over |-> FALSE]}
  /\ cookie' = [cookie EXCEPT ![b] = opened'] /\ Over(b)
  /\ UNCHANGED <<users, members, founders>>

CommitLogout(b) ==
  /\ AtStep(b, "logout") /\ sessions' = {s \in sessions : s.id # visit[b].id}
  /\ cookie' = [cookie EXCEPT ![b] = 0] /\ Over(b)
  /\ UNCHANGED <<users, members, opened, founders>>

CommitUser(b) ==
  /\ AtStep(b, "create") /\ Over(b)
  /\ IF TakenName(visit[b].name)
     THEN UNCHANGED users
     ELSE /\ Len(users) < MaxUsers
          /\ users' = Append(users, [name |-> visit[b].name, role |-> visit[b].role])
  /\ UNCHANGED <<sessions, members, cookie, opened, founders>>

MemberAt(u) == {k \in DOMAIN members : members[k].user = u}

CommitMember(b) ==
  LET new == [user |-> visit[b].user, permissions |-> visit[b].permissions]
      at == MemberAt(new.user)
  IN /\ AtStep(b, "member") /\ Over(b)
     /\ members' = IF at = {} THEN Append(members, new)
                   ELSE [k \in DOMAIN members |-> IF k \in at THEN new ELSE members[k]]
     /\ UNCHANGED <<users, sessions, cookie, opened, founders>>

\* splice of the first record found.
CommitRemoval(b) ==
  LET at == MemberAt(visit[b].user)
      without(k) == SubSeq(members, 1, k - 1) \o SubSeq(members, k + 1, Len(members))
  IN /\ AtStep(b, "removal") /\ Over(b)
     /\ members' = IF at = {} THEN members
                   ELSE without(CHOOSE k \in at : \A j \in at : k <= j)
     /\ UNCHANGED <<users, sessions, cookie, opened, founders>>

SessionEnds(s) ==
  /\ s \in sessions /\ ~s.over
  /\ sessions' = (sessions \ {s}) \cup {[s EXCEPT !.over = TRUE]}
  /\ UNCHANGED <<users, members, visit, cookie, opened, founders>>

-----------------------------------------------------------------------------
AccountsNext ==
  \/ \E b \in Browsers :
       \/ \E name \in Names : \/ AskBootstrap(b, name) \/ AskLogin(b, name)
                              \/ \E role \in Roles : AskCreateUser(b, name, role)
       \/ \E u \in DOMAIN users :
            \/ \E p \in Grants : AskMember(b, u, "member", p)
            \/ AskMember(b, u, "removal", "view")
       \/ AskLogout(b) \/ CommitFound(b) \/ CommitSession(b) \/ CommitLogout(b)
       \/ CommitUser(b) \/ CommitMember(b) \/ CommitRemoval(b)
  \/ \E s \in sessions : SessionEnds(s)

AccountsSpec == AccountsInit /\ [][AccountsNext]_accountVars

-----------------------------------------------------------------------------
(* Properties *)

\* The variables have their types (types.ts, User, Session, InstanceMember).
AccountsTypeOK ==
  /\ users \in Seq([name : Names, role : Roles]) /\ Len(users) <= MaxUsers
  /\ sessions \subseteq [id : 1..MaxSessions, user : DOMAIN users, over : BOOLEAN]
  /\ members \in Seq([user : DOMAIN users, permissions : Grants])
  /\ cookie \in [Browsers -> 0..MaxSessions] /\ opened \in 0..MaxSessions
  /\ DOMAIN visit = Browsers /\ founders \in Nat

OneFounder == founders <= 1
UserNamesDiffer ==
  \A u, v \in DOMAIN users : Lower[users[u].name] = Lower[users[v].name] => u = v
OneMembership ==
  \A j, k \in DOMAIN members : members[j].user = members[k].user => j = k

\* However requests overlap, one bootstrap at most creates the administrator, no two
\* users differ in the case of their names only, and a user is a member of the instance
\* at most once, so that a removal leaves no second record (service.ts:68-73,
\* server.ts:650, 1133, 1153).
RecordsAreUnique == OneFounder /\ UserNamesDiffer /\ OneMembership
=============================================================================
