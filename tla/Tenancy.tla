------------------------------ MODULE Tenancy -------------------------------
(***************************************************************************)
(* What owner, admin and super admin configure in one tenant: the JSON     *)
(* columns feature_flags and settings of its row, its branches, and its    *)
(* custom roles with the users who hold them.                              *)
(*                                                                         *)
(* OwnerService and AdminService update the columns they name.             *)
(* TenantsService saves the whole row as it read it before: `save` reads   *)
(* the row once more and updates every column that differs, so that it may *)
(* write back an old value of a column it was not asked about.             *)
(*                                                                         *)
(* `branches` is one text column with two writers.  TenantsService takes   *)
(* it for a comma separated list, OwnerService for a JSON array.  Text     *)
(* that has a plain name in it does not parse, and reads as no branches.   *)
(*                                                                         *)
(* Not here: PATCH /roles/:id may rename a role; only its permissions are  *)
(* edited, which no other statement reads.  Clients give their own roles   *)
(* other names than those of the system roles.                             *)
(***************************************************************************)
EXTENDS Requests

CONSTANTS
    Columns,        \* the JSON columns: feature_flags and settings
    Keys,           \* keys of such an object
    Defaults,       \* what a reader takes for a key that is missing
    Patches,        \* objects that clients send
    Branches,       \* the uuids branches may get
    Names,          \* plain branch names
    SystemRoles,    \* SYSTEM_ROLES: the names of the roles every tenant has
    RoleIds,        \* the uuids roles may get
    Staff           \* users of the tenant who may hold a custom role

\* JSON objects of flags or settings.
Objects == UNION {[K -> BOOLEAN] : K \in SUBSET Keys}

ASSUME TenancyAssumption ==
    /\ Columns \subseteq {"feature_flags", "settings"}
    /\ Defaults \in [Keys -> BOOLEAN]
    /\ Patches \subseteq Objects
    /\ IsFiniteSet(RoleIds) /\ None \notin SystemRoles \cup RoleIds

VARIABLES
    json,       \* tenants.feature_flags and tenants.settings
    branches,   \* tenants.branches: the JSON objects and the plain names in the text
    roles,      \* table custom_roles
    holds,      \* users.custom_role_id
    away,       \* users.deleted_at: the users who are deleted
    asked,      \* history: what the answered requests made of each JSON column
    opened,     \* history: the branches whose creation was answered
    unchecked,  \* history: roles deleted by DELETE /roles/:id, which counts no users
    named,      \* history: whether plain names were added to the branches or replaced them
    stale,      \* history: columns written by others since a handler read the row
    mixed,      \* history: columns written by a handler to which they were stale
    bygone      \* history: users who were deleted when, or since, they got their role

tenantRow   == <<json, branches, asked, opened, named, stale, mixed>>
rolesTables == <<roles, holds, away, unchecked, bygone>>

tenancyTables == <<tenantRow, rolesTables>>

\* `name` is None for a role that a client created.
Role   == [state : {"absent", "live", "removed"}, system : BOOLEAN,
           name : SystemRoles \cup {None}]
NoRole == [state |-> "absent", system |-> FALSE, name |-> None]

\* { ...old, ...patch }
Merge(old, patch) ==
    [k \in DOMAIN old \cup DOMAIN patch |-> IF k \in DOMAIN patch THEN patch[k] ELSE old[k]]

\* flags.key ?? default
Shown(object, k) == IF k \in DOMAIN object THEN object[k] ELSE Defaults[k]

\* parseBranchesJson: text that is not a JSON array reads as the empty array.
Parsed(text) == IF text.plain = {} THEN text.objects ELSE {}

LiveRoles    == {r \in RoleIds : roles[r].state = "live"}
SeededAs(n)  == {r \in LiveRoles : roles[r].system /\ roles[r].name = n}
NamesOfRoles == {roles[r].name : r \in LiveRoles}
HoldersOf(r) == {u \in Staff \ away : holds[u] = r}

TenancyInit ==
    /\ json = [c \in Columns |-> Defaults]
    /\ branches = [objects |-> {}, plain |-> {}]
    /\ roles = [r \in RoleIds |-> NoRole]
    /\ holds = [u \in Staff |-> None]
    /\ asked = [c \in Columns |-> Defaults]
    /\ opened = {}
    /\ unchecked = {}
    /\ named = FALSE
    /\ stale = {} /\ mixed = {}
    /\ away = {} /\ bygone = {}
-----------------------------------------------------------------------------
(* Mistakes a change of the code could make, each against one property.    *)

PatchAlone(old, patch) == patch

NewAlone(read, b) == {b}

AllNames(found) == SystemRoles
-----------------------------------------------------------------------------
(* The row of the tenant.                                                  *)

\* The last statement of h writes `columns`, having been asked to change `own`.
Written(h, columns, own) ==
    /\ stale' = {p \in stale : p[1] # h}
                   \cup {p \in (Handlers \ {h}) \X columns : Busy(p[1])}
    /\ mixed' = mixed \cup {c \in columns \cup own : <<h, c>> \in stale}

\* PUT /admin/settings and /admin/settings/notifications read one column and write it back
\* with what the client sent.
MergeRead(h, c, patch) ==
    /\ Begin(h, "merge-write", <<"tenant">>, [column |-> c, read |-> json[c], patch |-> patch])
    /\ UNCHANGED tenancyTables

Merged(read, patch) == Merge(read, patch)

MergeWrite(h) ==
    LET c == Data(h).column IN
    /\ At(h, "merge-write")
    /\ json' = [json EXCEPT ![c] = Merged(Data(h).read, Data(h).patch)]
    /\ asked' = [asked EXCEPT ![c] = Merge(asked[c], Data(h).patch)]
    /\ Written(h, {c}, {c})
    /\ Answer(h)
    /\ UNCHANGED <<branches, opened, named, rolesTables>>

\* PATCH /owner/system-config replaces the flags by those of the request.
UpdateSystemConfig(h, flags) ==
    /\ "feature_flags" \in Columns
    /\ AtOnce(h, <<"tenant">>)
    /\ json' = [json EXCEPT !["feature_flags"] = flags]
    /\ asked' = [asked EXCEPT !["feature_flags"] = flags]
    /\ Written(h, {"feature_flags"}, {})
    /\ UNCHANGED <<branches, opened, named, rolesTables>>

\* findOne of TenantsService: the row that the handler will save, as it has changed it.
FindTenant(h, own, change, newJson, newBranches) ==
    /\ Begin(h, "tenant-load", <<"tenant">>,
             [own |-> own, change |-> change, json |-> newJson, branches |-> newBranches, dirty |-> {}])
    /\ UNCHANGED tenancyTables

\* PATCH /tenants/:id/feature-flags and /settings change keys of a column.
MergeInto(h, c, patch) ==
    FindTenant(h, {c}, [whole |-> FALSE, object |-> patch], [json EXCEPT ![c] = Merged(@, patch)], branches)

\* PATCH /tenants/:id replaces a column, or changes columns that are not here.
UpdateTenant(h, c, object) ==
    \/ FindTenant(h, {c}, [whole |-> TRUE, object |-> object], [json EXCEPT ![c] = object], branches)
    \/ FindTenant(h, {}, None, json, branches)

ReplaceBranches(h, names) ==
    FindTenant(h, {"branches"}, None, json, [objects |-> {}, plain |-> names])

\* POST /tenants/:id/branches appends a name to the list, unless it is there.
AddBranch(h, name) ==
    /\ name \notin branches.plain
    /\ FindTenant(h, {"branches"}, None, json, [branches EXCEPT !.plain = @ \cup {name}])

\* What save finds different when it has read the row again.
Dirty(held) ==
    {c \in Columns : held.json[c] # json[c]}
      \cup {c \in {"branches"} : held.branches # branches}

TenantLoad(h) ==
    /\ At(h, "tenant-load")
    /\ Goto(h, "tenant-save", [Data(h) EXCEPT !.dirty = Dirty(Data(h))])
    /\ UNCHANGED tenancyTables

TenantSave(h) ==
    LET held == Data(h) IN
    /\ At(h, "tenant-save")
    /\ json' = [c \in Columns |-> IF c \in held.dirty THEN held.json[c] ELSE json[c]]
    /\ branches' = IF "branches" \in held.dirty THEN held.branches ELSE branches
    /\ asked' = [c \in Columns |-> IF c \notin held.own THEN asked[c]
                                   ELSE IF held.change.whole THEN held.change.object
                                   ELSE Merge(asked[c], held.change.object)]
    /\ named' = (named \/ "branches" \in held.own)
    /\ Written(h, held.dirty, held.own)
    /\ Answer(h)
    /\ UNCHANGED <<opened, rolesTables>>

\* POST /owner/branches reads the text and writes JSON over it: one more object, or, with
\* an id, the objects as they are but for that one.
ManageBranches(h, step) ==
    /\ step = "branch-edit" => opened # {}
    /\ Begin(h, step, <<"tenant">>, Parsed(branches))
    /\ UNCHANGED tenancyTables

WithNew(read, b) == read \cup {b}

CreateBranch(h, b) ==
    /\ At(h, "branch-create")
    /\ b \notin opened
    /\ branches' = [objects |-> WithNew(Data(h), b), plain |-> {}]
    /\ opened' = opened \cup {b}
    /\ Written(h, {"branches"}, {})
    /\ Answer(h)
    /\ UNCHANGED <<json, asked, named, rolesTables>>

EditBranch(h) ==
    /\ At(h, "branch-edit")
    /\ branches' = [objects |-> Data(h), plain |-> {}]
    /\ Written(h, {"branches"}, {})
    /\ Answer(h)
    /\ UNCHANGED <<json, asked, opened, named, rolesTables>>
-----------------------------------------------------------------------------
(* Custom roles.                                                           *)

\* GET /roles and GET /owner/roles: the system roles that are missing are inserted, each by
\* a statement of its own and in any order, before the roles are listed.
Missing(found) == SystemRoles \ found

ListRoles(h) ==
    /\ Begin(h, "seed", <<"roles">>, Missing(NamesOfRoles))
    /\ UNCHANGED tenancyTables

SeedRole(h, n, r) ==
    /\ At(h, "seed") /\ n \in Data(h)
    /\ roles[r].state = "absent"
    /\ roles' = [roles EXCEPT ![r] = [state |-> "live", system |-> TRUE, name |-> n]]
    /\ Goto(h, "seed", Data(h) \ {n})
    /\ UNCHANGED <<tenantRow, holds, away, unchecked, bygone>>

RolesFind(h) ==
    /\ At(h, "seed") /\ Data(h) = {}
    /\ Goto(h, "roles-count", LiveRoles)
    /\ UNCHANGED tenancyTables

\* OwnerService counts the users of each role that was listed.
RolesCount(h) ==
    /\ At(h, "roles-count")
    /\ \/ Data(h) = {} /\ Answer(h)
       \/ \E r \in Data(h) : Goto(h, "roles-count", Data(h) \ {r})
    /\ UNCHANGED tenancyTables

CreateRole(h, r) ==
    /\ roles[r].state = "absent"
    /\ AtOnce(h, <<"role", r>>)
    /\ roles' = [roles EXCEPT ![r].state = "live"]
    /\ UNCHANGED <<tenantRow, holds, away, unchecked, bygone>>

\* PUT /owner/roles/:id/permissions: anyone's permissions but those of the owner role.  save
\* reads the role again and inserts it, as it was found, when it is gone by then; that of
\* two such insertions the second is rejected changes nothing.
UpdateRolePermissions(h, r) ==
    /\ r \in LiveRoles
    /\ ~(roles[r].system /\ roles[r].name = "owner")
    /\ Begin(h, "permissions-load", <<"permissions", r>>, r)
    /\ UNCHANGED tenancyTables

PermissionsLoad(h) ==
    /\ At(h, "permissions-load")
    /\ Goto(h, "permissions-write", [role |-> Data(h), gone |-> Data(h) \notin LiveRoles])
    /\ UNCHANGED tenancyTables

PermissionsWrite(h) ==
    /\ At(h, "permissions-write")
    /\ \/ Data(h).gone /\ roles' = [roles EXCEPT ![Data(h).role].state = "live"]
       \/ ~Data(h).gone /\ UNCHANGED roles
    /\ Answer(h)
    /\ UNCHANGED <<tenantRow, holds, away, unchecked, bygone>>

\* DELETE /owner/roles/:id goes on only with a role that nobody holds.
DeleteRole(h, r) ==
    /\ r \in LiveRoles /\ ~roles[r].system
    /\ Begin(h, "holders-count", <<"role", r>>, r)
    /\ UNCHANGED tenancyTables

Unheld(r) == HoldersOf(r) = {}

HoldersCount(h) ==
    /\ At(h, "holders-count")
    /\ \/ Unheld(Data(h)) /\ Goto(h, "role-find", Data(h))
       \/ ~Unheld(Data(h)) /\ Answer(h)
    /\ UNCHANGED tenancyTables

RoleFind(h) ==
    /\ At(h, "role-find")
    /\ \/ Data(h) \in LiveRoles /\ Goto(h, "role-remove", Data(h))
       \/ Data(h) \notin LiveRoles /\ Answer(h)
    /\ UNCHANGED tenancyTables

RoleRemove(h) ==
    /\ At(h, "role-remove")
    /\ roles' = [roles EXCEPT ![Data(h)].state = "removed"]
    /\ Answer(h)
    /\ UNCHANGED <<tenantRow, holds, away, unchecked, bygone>>

\* DELETE /roles/:id removes it without counting.
RemoveRole(h, r) ==
    /\ r \in LiveRoles /\ ~roles[r].system
    /\ Begin(h, "role-remove", <<"role", r>>, r)
    /\ unchecked' = unchecked \cup {r}
    /\ UNCHANGED <<tenantRow, roles, holds, away, bygone>>

\* POST /roles/:id/assign and /revoke look for the role and then write the user's column;
\* revoke clears it whatever role it held.  The column of a deleted user is written too.
AssignRole(h, r, u) ==
    /\ r \in LiveRoles
    /\ Begin(h, "assign", <<"role", r>>, [user |-> u, role |-> r])
    /\ UNCHANGED tenancyTables

RevokeRole(h, r, u) ==
    /\ r \in LiveRoles
    /\ Begin(h, "assign", <<"role", r>>, [user |-> u, role |-> None])
    /\ UNCHANGED tenancyTables

RoleAssign(h) ==
    /\ At(h, "assign")
    /\ holds' = [holds EXCEPT ![Data(h).user] = Data(h).role]
    /\ bygone' = IF Data(h).user \in away THEN bygone \cup {Data(h).user}
                 ELSE bygone \ {Data(h).user}
    /\ Answer(h)
    /\ UNCHANGED <<tenantRow, roles, away, unchecked>>

\* DELETE /owner/users/:id looks for a user who is not deleted, POST /owner/users/invite for
\* one of that address who is.  Neither touches custom_role_id.
FindUser(h, u) ==
    /\ Begin(h, IF u \in away THEN "user-restore" ELSE "user-delete", <<"user", u>>, u)
    /\ UNCHANGED tenancyTables

DeleteUser(h) ==
    /\ At(h, "user-delete")
    /\ away' = away \cup {Data(h)}
    /\ bygone' = bygone \cup {Data(h)}
    /\ Answer(h)
    /\ UNCHANGED <<tenantRow, roles, holds, unchecked>>

RestoreUser(h) ==
    /\ At(h, "user-restore")
    /\ away' = away \ {Data(h)}
    /\ Answer(h)
    /\ UNCHANGED <<tenantRow, roles, holds, unchecked, bygone>>
-----------------------------------------------------------------------------
TenancyBreaks(h) ==
    /\ Breaks(h)
    /\ stale' = {p \in stale : p[1] # h}
    /\ UNCHANGED <<json, branches, asked, opened, named, mixed, rolesTables>>

TenantNext ==
    \E h \in Handlers :
        \/ \E c \in Columns, p \in Patches :
              MergeRead(h, c, p) \/ MergeInto(h, c, p) \/ UpdateTenant(h, c, p)
        \/ \E p \in Patches : UpdateSystemConfig(h, p)
        \/ \E step \in {"branch-create", "branch-edit"} : ManageBranches(h, step)
        \/ \E b \in Branches : CreateBranch(h, b)
        \/ \E n \in Names : AddBranch(h, n)
        \/ \E names \in SUBSET Names : ReplaceBranches(h, names)
        \/ MergeWrite(h) \/ TenantLoad(h) \/ TenantSave(h) \/ EditBranch(h)
        \/ TenancyBreaks(h)

RolesNext ==
    \E h \in Handlers :
        \/ \E r \in RoleIds : CreateRole(h, r) \/ UpdateRolePermissions(h, r)
                              \/ DeleteRole(h, r) \/ RemoveRole(h, r)
        \/ \E r \in RoleIds, u \in Staff : AssignRole(h, r, u) \/ RevokeRole(h, r, u)
        \/ \E n \in SystemRoles, r \in RoleIds : SeedRole(h, n, r)
        \/ ListRoles(h) \/ RolesFind(h) \/ RolesCount(h)
        \/ PermissionsLoad(h) \/ PermissionsWrite(h)
        \/ \E u \in Staff : FindUser(h, u)
        \/ HoldersCount(h) \/ RoleFind(h) \/ RoleRemove(h) \/ RoleAssign(h)
        \/ DeleteUser(h) \/ RestoreUser(h)
        \/ TenancyBreaks(h)
-----------------------------------------------------------------------------
(* Properties.                                                             *)

\* What a reader is shown of a flag or a setting is what the last request about it asked
\* for, whichever endpoints were used and whatever else was saved with the row, unless a
\* request wrote the column that had read it before another one wrote it.
ConfigStands ==
    \A c \in Columns \ mixed : \A k \in Keys : Shown(json[c], k) = Shown(asked[c], k)

\* A branch the owner created is listed, whatever failed and whatever was saved with the
\* row, unless a request wrote the branches that had read them before another one wrote
\* them, or one added a plain name or replaced them by plain names.
BranchesStand == "branches" \notin mixed /\ ~named => opened \subseteq Parsed(branches)

\* A system role is there once, unless two requests that list the roles overlapped, and a
\* request that goes on to list them finds every one of them.
SystemRolesOnce ==
    /\ <<"roles">> \notin disturbed => \A n \in SystemRoles : Cardinality(SeededAs(n)) <= 1
    /\ \A h \in Handlers : At(h, "roles-count") => SystemRoles \subseteq NamesOfRoles

\* A user's custom role exists, unless it was deleted without counting its users, or while
\* it was being assigned, or the user was deleted with it: deleteRole does not count those,
\* and an invitation brings them back with the role they had.
HeldRolesExist ==
    \A u \in Staff \ bygone :
        holds[u] = None \/ holds[u] \in LiveRoles \cup unchecked \/ <<"role", holds[u]>> \in disturbed

\* A role is there once, and whoever holds one holds one that is there.
RolesStand == SystemRolesOnce /\ HeldRolesExist

=============================================================================
