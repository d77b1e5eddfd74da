---------------------------- MODULE Administration ----------------------------
(***************************************************************************)
(* Who administers an instance.  Requests of services/roles.ts,            *)
(* services/users.ts and the configuration engine (utils/apply-engine.ts,  *)
(* utils/compute-config-plan.ts) change roles and users in one database.   *)
(* Role writes run in serializable transactions that                       *)
(* database/bound-transaction.ts marks and flushes; user writes count the  *)
(* administrators first and write later.                                   *)
(*                                                                         *)
(* A transaction shows its writes when it commits, so it is its beginning, *)
(* which takes the snapshot, and its end.  One request is one member of    *)
(* Requests, used once.  A role write names the state it wants: a role     *)
(* update or deletion is a plan with one change.                           *)
(* A definition X_Variant is a faulty X, used to see a property fail.      *)
(***************************************************************************)
EXTENDS Deployment, FiniteSets

CONSTANTS Roles,
          NoRole   \* the role of a user without one

ASSUME AdministrationAssumption == NoRole \notin Roles /\ Users # {}

VARIABLES
  roles,     \* directus_roles: absent, without or with admin_access
  users,     \* directus_users: role and status; "gone" is no row
  job,       \* what each request asks for
  stage,     \* how far it is
  view,      \* the configuration it planned for, then its transaction's snapshot
  overlap,   \* database: the kinds of write committed since it last read
  outcome,   \* what its caller is told
  wrote,     \* history: it has changed roles or users for good
  events,    \* its action events: none, dispatched or lost
  demoted    \* history: a nested write has taken administrator access away

dataVars == <<roles, users>>
adminVars == <<roles, users, job, stage, view, overlap, outcome, wrote, events, demoted>>

RoleState == {"absent", "plain", "admin"}
UserRow == [role : Roles \cup {NoRole}, status : {"active", "suspended", "gone"}]
View == [roles : [Roles -> RoleState], users : [Users -> UserRow]]
Job == [op : {"none", "role", "apply", "create", "joined", "nested", "assign", "status", "remove"},
        plan : [Roles -> RoleState], user : Users, row : UserRow]

AdminRoles(rs) == {k \in Roles : rs[k] = "admin"}
AdminUsers(rs, us) == {u \in Users : us[u].status # "gone" /\ us[u].role \in AdminRoles(rs)}
ActiveAdmins(rs, us) == {u \in AdminUsers(rs, us) : us[u].status = "active"}

AdminInit ==
  /\ roles \in {rs \in [Roles -> RoleState] : AdminRoles(rs) # {}}
  /\ users \in {us \in [Users -> UserRow] :
                  \A u \in Users : /\ us[u].status # "gone"
                                   /\ us[u].role # NoRole => roles[us[u].role] # "absent"}
  /\ job \in [Requests -> {[op |-> "none", plan |-> roles, user |-> u, row |-> users[u]] :
                             u \in {CHOOSE v \in Users : TRUE}}]
  /\ stage = [r \in Requests |-> "idle"]
  /\ view = [r \in Requests |-> [roles |-> roles, users |-> users]]
  /\ overlap = [r \in Requests |-> {}]
  /\ outcome = [r \in Requests |-> "none"]
  /\ wrote = [r \in Requests |-> FALSE]
  /\ events = [r \in Requests |-> "none"]
  /\ demoted = FALSE

\* Others between their last read and their write.
Open(r) == stage[r] \in {"running", "write"}
Overlapped(r, kind) ==
  [q \in Requests |-> IF q # r /\ Open(q) THEN overlap[q] \cup {kind} ELSE overlap[q]]

End(r, what) == /\ stage' = [stage EXCEPT ![r] = "done"]
                /\ outcome' = [outcome EXCEPT ![r] = what]

-----------------------------------------------------------------------------
\* What a role write does, from the snapshot rs.

Created(rs, plan) == {k \in Roles : rs[k] = "absent" /\ plan[k] # "absent"}
Granted(rs, plan) == {k \in Roles : rs[k] = "plain" /\ plan[k] = "admin"}
Revoked(rs, plan) == {k \in Roles : rs[k] = "admin" /\ plan[k] = "plain"}
Deleted(rs, plan) == {k \in Roles : rs[k] # "absent" /\ plan[k] = "absent"}

\* The administrators a plan adds and takes away (computeAdminContinuityProtections).
Added(rs, plan) == {k \in Created(rs, plan) \cup Granted(rs, plan) : plan[k] = "admin"}
Removed(rs, plan) == {k \in AdminRoles(rs) : plan[k] # "admin"}
Protected(rs, plan) == Removed(rs, plan) # {} /\ (AdminRoles(rs) \cup Added(rs, plan)) \ Removed(rs, plan) = {}

\* The administrator roles each revocation reads: creates come before updates,
\* updates that grant before those that revoke.
BeforeRevokes_Unordered(rs, plan) == AdminRoles(rs) \cup (Created(rs, plan) \cap Added(rs, plan))
BeforeRevokes(rs, plan) == AdminRoles(rs) \cup Added(rs, plan)

\* AdminContinuityGuard.beforeUpdate and deleteMany, for the last change of each
\* phase, the one that finds the fewest roles left.
Continuity_RevokesOnly(rs, plan) ==
  Revoked(rs, plan) = {} \/ BeforeRevokes(rs, plan) \ Revoked(rs, plan) # {}

Continuity(rs, plan) ==
  LET left == BeforeRevokes(rs, plan) \ Revoked(rs, plan) IN
  /\ Revoked(rs, plan) = {} \/ left # {}
  /\ Deleted(rs, plan) = {} \/ left \ Deleted(rs, plan) # {}

\* deleteMany suspends the users of the role through UsersService, which wants
\* another active administrator.
MembersOf(us, ks) == {u \in Users : us[u].status # "gone" /\ us[u].role \in ks}

SuspensionAllowed_Any(rs, us, plan) ==
  MembersOf(us, Deleted(rs, plan)) = {} \/ AdminUsers(plan, us) # {}

SuspensionAllowed(rs, us, plan) ==
  MembersOf(us, Deleted(rs, plan)) = {} \/ ActiveAdmins(plan, us) # {}

Allowed(r) == /\ Continuity(view[r].roles, job[r].plan)
              /\ SuspensionAllowed(view[r].roles, view[r].users, job[r].plan)

\* The database fails a serializable transaction that read what another one has
\* written since, or that writes a row written since.  (It may let through more
\* of them, each equivalent to an order it does let through.)
Isolated_Not(r) == TRUE
Isolated(r) ==
  /\ "serializable" \notin overlap[r]
  /\ \A k \in Roles : job[r].plan[k] # view[r].roles[k] => roles[k] = view[r].roles[k]
  /\ \A u \in Users : Deleted(view[r].roles, job[r].plan) \cap {users[u].role, view[r].users[u].role} # {}
                        => users[u] = view[r].users[u]

RolesAfter(r) == [k \in Roles |-> IF job[r].plan[k] = view[r].roles[k] THEN roles[k] ELSE job[r].plan[k]]
UsersAfter_Suspended(r) ==
  [u \in Users |-> IF u \in MembersOf(users, Deleted(view[r].roles, job[r].plan))
                   THEN [users[u] EXCEPT !.status = "suspended"] ELSE users[u]]
UsersAfter(r) == [u \in Users |-> IF u \in MembersOf(users, Deleted(view[r].roles, job[r].plan))
                                  THEN [role |-> NoRole, status |-> "suspended"] ELSE users[u]]

-----------------------------------------------------------------------------
\* Role writes.

\* withBoundContext outside a transaction: updateOne, updateMany, deleteMany.
BeginRoleWrite(r) ==
  /\ stage[r] = "idle"
  /\ \E k \in Roles, to \in RoleState :
       /\ roles[k] \notin {"absent", to}
       /\ job' = [job EXCEPT ![r] = [@ EXCEPT !.op = "role", !.plan = [roles EXCEPT ![k] = to]]]
  /\ stage' = [stage EXCEPT ![r] = "running"]
  /\ view' = [view EXCEPT ![r] = [roles |-> roles, users |-> users]]
  /\ overlap' = [overlap EXCEPT ![r] = {}]
  /\ UNCHANGED <<dataVars, outcome, wrote, events, demoted>>

\* computeConfigPlan: the plan bears the state it was computed from; a protected
\* one is refused.
PlanConfig(r) ==
  /\ stage[r] = "idle"
  /\ \E plan \in [Roles -> RoleState] :
       /\ plan # roles
       /\ job' = [job EXCEPT ![r] = [@ EXCEPT !.op = "apply", !.plan = plan]]
       /\ IF Protected(roles, plan)
          THEN End(r, "protected") /\ UNCHANGED view
          ELSE /\ stage' = [stage EXCEPT ![r] = "planned"]
               /\ view' = [view EXCEPT ![r] = [roles |-> roles, users |-> users]]
               /\ UNCHANGED outcome
  /\ UNCHANGED <<dataVars, overlap, wrote, events, demoted>>

\* applyConfigPlan: its transaction begins by comparing the state, so it goes on
\* with the roles that were planned for.
StateUnchanged_Assumed(r) == TRUE
StateUnchanged(r) == roles = view[r].roles

BeginApply(r) ==
  /\ stage[r] = "planned"
  /\ IF StateUnchanged(r)
     THEN /\ stage' = [stage EXCEPT ![r] = "running"]
          /\ view' = [view EXCEPT ![r].users = users]
          /\ overlap' = [overlap EXCEPT ![r] = {}]
          /\ UNCHANGED outcome
     ELSE End(r, "state_changed") /\ UNCHANGED <<view, overlap>>
  /\ UNCHANGED <<dataVars, job, wrote, events, demoted>>

CommitRoles(r) ==
  /\ stage[r] = "running" /\ Allowed(r) /\ Isolated(r)
  /\ roles' = RolesAfter(r)
  /\ users' = UsersAfter(r)
  /\ stage' = [stage EXCEPT ![r] = "committed"]
  /\ overlap' = Overlapped(r, "serializable")
  /\ wrote' = [wrote EXCEPT ![r] = TRUE]
  /\ UNCHANGED <<job, view, outcome, events, demoted>>

\* The transaction rolls back.
Refuse(r) ==
  /\ stage[r] = "running" /\ ~Allowed(r)
  /\ End(r, IF Continuity(view[r].roles, job[r].plan) THEN "refused" ELSE "last_role")
  /\ UNCHANGED <<dataVars, job, view, overlap, wrote, events, demoted>>

Conflict(r) ==
  /\ stage[r] = "running" /\ ~Isolated(r)
  /\ End(r, IF job[r].op = "apply" THEN "state_changed" ELSE "conflict")
  /\ UNCHANGED <<dataVars, job, view, overlap, wrote, events, demoted>>

FailRoles(r) ==
  /\ stage[r] = "running"
  /\ End(r, "failed")
  /\ UNCHANGED <<dataVars, job, view, overlap, wrote, events, demoted>>

\* After the commit: flushContext stops at a cache it cannot clear; the engine
\* dispatches the actions all the same and says what failed.
Reported_Failed(r, cleared, acted) == IF cleared /\ acted THEN "ok" ELSE "failed"
Reported(r, cleared, acted) ==
  CASE cleared /\ acted -> "ok"
    [] job[r].op = "apply" -> "post_commit"
    [] OTHER -> "error"

Dispatches_Cleared(r, cleared) == cleared
Dispatches(r, cleared) == cleared \/ job[r].op = "apply"

Flush(r) ==
  /\ stage[r] = "committed"
  /\ \E cleared, acted \in BOOLEAN :
       /\ ~acted => job[r].op = "apply"
       /\ End(r, Reported(r, cleared, acted))
       /\ events' = [events EXCEPT ![r] = IF Dispatches(r, cleared) THEN "dispatched" ELSE "lost"]
  /\ UNCHANGED <<dataVars, job, view, overlap, wrote, demoted>>

\* createOne: an insert outside any of this.
CreateRole(r) ==
  /\ stage[r] = "idle"
  /\ \E k \in Roles, to \in {"plain", "admin"} :
       /\ roles[k] = "absent"
       /\ roles' = [roles EXCEPT ![k] = to]
  /\ End(r, "ok")
  /\ job' = [job EXCEPT ![r].op = "create"]
  /\ overlap' = Overlapped(r, "plain")
  /\ wrote' = [wrote EXCEPT ![r] = TRUE]
  /\ events' = [events EXCEPT ![r] = "dispatched"]
  /\ UNCHANGED <<users, view, demoted>>

\* RolesService inside a transaction of a caller that nobody checks for conflicts:
\* administrators may be added but not removed ("failClosed").
JoinedAllowed_Always(to) == TRUE
JoinedAllowed(to) == to = "admin"

RoleWriteInTransaction(r) ==
  /\ stage[r] = "idle"
  /\ job' = [job EXCEPT ![r].op = "joined"]
  /\ \E k \in Roles, to \in {"plain", "admin"} :
       /\ roles[k] \notin {"absent", to}
       /\ IF JoinedAllowed(to)
          THEN /\ roles' = [roles EXCEPT ![k] = to]
               /\ overlap' = Overlapped(r, "plain")
               /\ wrote' = [wrote EXCEPT ![r] = TRUE]
               /\ events' = [events EXCEPT ![r] = "dispatched"]
               /\ End(r, "ok")
          ELSE End(r, "unverified") /\ UNCHANGED <<roles, overlap, wrote, events>>
  /\ UNCHANGED <<users, view, demoted>>

\* A role within an item of another collection is written by a plain ItemsService
\* (processA2O, processM2O, processO2M): the guards of RolesService do not see it.
WriteUnguarded(r, rs, us) ==
  LET takes == Removed(roles, rs) # {} IN
  /\ roles' = rs
  /\ users' = us
  /\ demoted' = (demoted \/ takes)
  /\ overlap' = Overlapped(r, IF takes THEN "demotion" ELSE "plain")
  /\ wrote' = [wrote EXCEPT ![r] = TRUE]
  /\ events' = [events EXCEPT ![r] = "dispatched"]
  /\ End(r, "ok")

\* The users of a role that is deleted lose it (foreign key), and stay active.
NestedRoleWrite(r) ==
  /\ stage[r] = "idle"
  /\ job' = [job EXCEPT ![r].op = "nested"]
  /\ \E k \in Roles, to \in RoleState :
       /\ roles[k] # to
       /\ WriteUnguarded(r, [roles EXCEPT ![k] = to],
                         [u \in Users |-> IF to = "absent" /\ users[u].role = k
                                          THEN [users[u] EXCEPT !.role = NoRole] ELSE users[u]])
  /\ UNCHANGED view

-----------------------------------------------------------------------------
\* User writes: updateMany and deleteMany of one user.

\* Request r asks for user u, whose row is to become row, and goes on at next; plan
\* holds the role that comes with it.
Ask(r, op, u, plan, row, next) ==
  /\ job' = [job EXCEPT ![r] = [op |-> op, plan |-> plan, user |-> u, row |-> row]]
  /\ stage' = [stage EXCEPT ![r] = next]

\* A role, an inactive status and a deletion are checked; taking the role away
\* and activating are not.  The role may come as an object, which is to be written
\* as well.
AskUser(r) ==
  /\ stage[r] = "idle"
  /\ \E u \in Users :
       /\ users[u].status # "gone"
       /\ \/ \E k \in Roles \cup {NoRole} :
               /\ k # NoRole => roles[k] # "absent"
               /\ Ask(r, "assign", u, job[r].plan, [users[u] EXCEPT !.role = k],
                      IF k = NoRole THEN "write" ELSE "role")
          \/ \E k \in Roles, to \in {"plain", "admin"} :
               /\ roles[k] # to
               /\ Ask(r, "nested", u, [job[r].plan EXCEPT ![k] = to], [users[u] EXCEPT !.role = k], "role")
          \/ \E s \in {"active", "suspended"} :
               Ask(r, "status", u, job[r].plan, [users[u] EXCEPT !.status = s],
                   IF s = "active" THEN "write" ELSE "count")
          \/ Ask(r, "remove", u, job[r].plan, [users[u] EXCEPT !.status = "gone"], "count")
  /\ overlap' = [overlap EXCEPT ![r] = {}]
  /\ UNCHANGED <<dataVars, view, outcome, wrote, events, demoted>>

\* updateMany reads the new role as it is stored; an administrator's needs no count.
ReadRole(r) ==
  /\ stage[r] = "role"
  /\ stage' = [stage EXCEPT ![r] = IF job[r].row.role \in AdminRoles(roles) THEN "write" ELSE "count"]
  /\ UNCHANGED <<dataVars, job, view, overlap, outcome, wrote, events, demoted>>

\* checkRemainingActiveAdmin for a status, else checkRemainingAdminExistence.
Others_Included(r) == IF job[r].op = "status" THEN ActiveAdmins(roles, users) ELSE AdminUsers(roles, users)
Others(r) == (IF job[r].op = "status" THEN ActiveAdmins(roles, users) ELSE AdminUsers(roles, users))
               \ {job[r].user}

Count(r) ==
  /\ stage[r] = "count"
  /\ IF Others(r) = {}
     THEN End(r, "refused")
     ELSE stage' = [stage EXCEPT ![r] = "write"] /\ UNCHANGED outcome
  /\ UNCHANGED <<dataVars, job, view, overlap, wrote, events, demoted>>

\* The write, in a transaction of its own, sets the fields it was asked to.
Written(r) ==
  LET old == users[job[r].user] IN
  CASE job[r].op = "assign" -> [old EXCEPT !.role = job[r].row.role]
    [] job[r].op = "status" -> [old EXCEPT !.status = job[r].row.status]
    [] job[r].op = "remove" -> [old EXCEPT !.status = "gone"]

\* Nothing is written for a user who is gone; a role that is gone is a foreign
\* key violation.
Write(r) ==
  /\ stage[r] = "write" /\ job[r].op # "nested"
  /\ IF users[job[r].user].status = "gone"
     THEN End(r, "ok") /\ UNCHANGED <<users, overlap, wrote, events>>
     ELSE IF job[r].op = "assign" /\ job[r].row.role # NoRole /\ roles[job[r].row.role] = "absent"
     THEN End(r, "failed") /\ UNCHANGED <<users, overlap, wrote, events>>
     ELSE /\ users' = [users EXCEPT ![job[r].user] = Written(r)]
          /\ overlap' = Overlapped(r, "plain")
          /\ wrote' = [wrote EXCEPT ![r] = TRUE]
          /\ events' = [events EXCEPT ![r] = "dispatched"]
          /\ End(r, "ok")
  /\ UNCHANGED <<roles, job, view, demoted>>

\* The role that came with the user is written first, whether the user is there or
\* not.  One that is gone is created anew, if the object says enough.
WriteWithRole(r) ==
  LET u == job[r].user
      k == job[r].row.role
  IN /\ stage[r] = "write" /\ job[r].op = "nested"
     /\ \/ WriteUnguarded(r, [roles EXCEPT ![k] = job[r].plan[k]],
                           IF users[u].status = "gone" THEN users ELSE [users EXCEPT ![u].role = k])
        \/ /\ roles[k] = "absent" /\ End(r, "failed")
           /\ UNCHANGED <<dataVars, overlap, wrote, events, demoted>>
     /\ UNCHANGED <<job, view>>

-----------------------------------------------------------------------------
RoleStep(r) == \/ BeginRoleWrite(r) \/ PlanConfig(r) \/ BeginApply(r)
               \/ CommitRoles(r) \/ Refuse(r) \/ Conflict(r) \/ FailRoles(r) \/ Flush(r)
               \/ CreateRole(r) \/ RoleWriteInTransaction(r) \/ NestedRoleWrite(r)

UserStep(r) == AskUser(r) \/ ReadRole(r) \/ Count(r) \/ Write(r) \/ WriteWithRole(r)

AdminNext == \E r \in Requests : RoleStep(r) \/ UserStep(r)

AdminSpec == AdminInit /\ [][AdminNext]_adminVars
-----------------------------------------------------------------------------
\* Properties.

\* Type invariant of roles, users and requests; no user has a role that is gone.
AdminTypeOK ==
  /\ roles \in [Roles -> RoleState]
  /\ users \in [Users -> UserRow]
  /\ job \in [Requests -> Job]
  /\ stage \in [Requests -> {"idle", "planned", "running", "committed", "role", "count", "write", "done"}]
  /\ view \in [Requests -> View]
  /\ overlap \in [Requests -> SUBSET {"plain", "demotion", "serializable"}]
  /\ outcome \in [Requests -> {"none", "ok", "refused", "last_role", "unverified", "conflict",
                               "protected", "state_changed", "failed", "post_commit", "error"}]
  /\ wrote \in [Requests -> BOOLEAN]
  /\ events \in [Requests -> {"none", "dispatched", "lost"}]
  /\ demoted \in BOOLEAN
  /\ \A u \in Users : users[u].status # "gone" /\ users[u].role # NoRole => roles[users[u].role] # "absent"

\* At least one role has administrator access, whatever requests race, as long as
\* no nested write has taken it from one.
AdminRoleRemains == AdminRoles(roles) # {} \/ demoted

\* A plan that was not refused as protected meets no continuity guard when it is
\* applied ("the hidden invariant" of compute-config-plan.ts:72), unless it was made
\* for a configuration without any administrator role, where the plan protects
\* nothing and the guard refuses every deletion.
PlanNotStopped ==
  \A r \in Requests : outcome[r] = "last_role" /\ job[r].op = "apply" => AdminRoles(view[r].roles) = {}

\* What the caller is told is what happened: a refusal, a conflict or a failed
\* apply has changed nothing and emitted nothing; a committed plan is never
\* reported as one that was rolled back, and its actions are dispatched.
OutcomeTruthful ==
  \A r \in Requests :
    /\ outcome[r] \in {"refused", "last_role", "unverified", "conflict", "protected",
                       "state_changed", "failed"} => ~wrote[r] /\ events[r] = "none"
    /\ stage[r] = "done" /\ job[r].op = "apply" /\ wrote[r]
         => outcome[r] \in {"ok", "post_commit"} /\ events[r] = "dispatched"

RequestRules == PlanNotStopped /\ OutcomeTruthful

\* Whatever role writes, plans and user writes race, an administrator role remains
\* (but for nested writes) and their callers are told what happened.
AdminRules == AdminRoleRemains /\ RequestRules

\* A user write that was counted leaves an administrator, an active one where
\* the status was counted, unless another write came between count and write.
\* (Uncounted: a user who takes an administrator role, is activated, loses the
\* role, or brings one to be written.)
Counted(r) == job[r].op \in {"status", "remove"} \/ (job[r].op = "assign" /\ job[r].row.role # NoRole)

CountHolds(r) ==
  stage[r] = "write" /\ stage'[r] = "done" /\ Counted(r) /\ overlap[r] = {} /\ users' # users =>
    IF job[r].op = "status" /\ job[r].row.status # "active"
    THEN ActiveAdmins(roles', users') # {}
    ELSE job[r].op = "status" \/ AdminUsers(roles', users') # {}

\* A role deletion that suspends users leaves an active administrator, unless
\* users or roles were written outside serializable transactions meanwhile; a
\* plan leaves exactly the roles it planned, unless roles were.
CommitHolds(r) ==
  stage[r] = "running" /\ stage'[r] = "committed" /\ overlap[r] = {} =>
    /\ users' # users => ActiveAdmins(roles', users') # {}
    /\ roles' = job[r].plan

\* The last administrator role goes only by a nested write, or by a role write or a
\* plan whose snapshot a nested write has falsified.
LastRoleGoes ==
  AdminRoles(roles) # {} /\ AdminRoles(roles') = {} =>
    \E r \in Requests :
      \/ job'[r].op = "nested" /\ stage[r] # "done" /\ stage'[r] = "done"
      \/ stage[r] = "running" /\ stage'[r] = "committed" /\ "demotion" \in overlap[r]

\* The checks of users.ts, roles.ts and apply-engine.ts hold when what they were
\* made for is written.
ChecksHold == [][LastRoleGoes /\ \A r \in Requests : CountHolds(r) /\ CommitHolds(r)]_adminVars

\* A deletion of users leaves an administrator, while nothing but users is deleted:
\* api/src/services/users.ts:111, "Make sure there's at least one admin user left
\* after this deletion is done".
DeletionLeavesAdmin ==
  [][(\A r \in Requests : job'[r].op \in {"none", "remove"}) /\ users' # users
       => AdminUsers(roles', users') # {}]_adminVars

\* No step turns off the last administrator role's flag: docs/guides/permissions.md:29,
\* "The last remaining admin role cannot be deleted, and you cannot turn off its
\* `admin_access` flag, until another admin role exists", and
\* docs/api/system-collections/access-control.md:128, "There is no override."
LastFlagStays ==
  [][(\E k \in Roles : roles[k] = "admin" /\ roles'[k] = "plain") => AdminRoles(roles') # {}]_adminVars
=============================================================================
