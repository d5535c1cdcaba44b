-------------------------------- MODULE Accounts --------------------------------
(***************************************************************************)
(* AuthService: registration and the login with a wallet's signature, up   *)
(* to the rows they leave: roles and permissions (by the first user),      *)
(* the user, the two directories, the default agent, the wallet; and what  *)
(* AuthService and UserService write to a user's row afterwards.  Nothing  *)
(* runs in a transaction, and nothing but the unique columns user.username *)
(* and role.name orders two requests.  Usernames are the keys of users:    *)
(* a wallet's user is named by its address.  A password is the request     *)
(* that set it.                                                            *)
(*                                                                         *)
(* An action is one await: what is read before it stays as it was read.    *)
(***************************************************************************)
EXTENDS Storage

CONSTANTS
    Permissions,    \* the roles of the permission rows, in the order they are saved
    MaxFaults       \* queries that fail

ASSUME AccountsAssumption ==
    /\ MaxFaults \in Nat
    /\ Permissions \in Seq({"admin", "user"}) /\ Permissions # <<>>

VARIABLES
    users,          \* the user rows, by username
    roles,          \* the names of the role rows
    permissions,    \* how many permission rows each role has
    assigned,       \* names with a user_role row for the administrator's role
    agents,         \* how many default agents a user was given
    wallets,        \* how many wallets a user was given
    overlapped,     \* history: names that two requests used at the same time, all
                    \* of them when one was a call of the storage
    faults

own == <<users, roles, permissions, assigned, agents, wallets>>
rows == <<own, dirs, files, disk>>
vars == <<rows, run, overlapped, faults>>

Roles == {"admin", "user"}
NoUser == [role |-> "absent", isAdmin |-> FALSE, linked |-> FALSE, password |-> "none"]
User == [role: Roles, isAdmin: BOOLEAN, linked: BOOLEAN, password: Requests \cup {"none"}]
        \cup {NoUser}

PCs == {"idle", "count", "adminRole", "userRole", "permission", "user", "assign",
        "home", "testHome", "saveHome", "share", "testShare", "saveShare", "link", "agent",
        "wallet", "log", "password", "profile", "done", "rejected"}
AuthOps == {"register", "wallet"}
\* An update of the profile whose body holds no ids of directories, or holds some
ProfileOps == {"updateProfile", "updateDirs"}
UserOps == {"login", "changePassword"} \cup ProfileOps
Request == [op: {"none"} \cup AuthOps \cup UserOps, pc: PCs, name: Names \cup {"nobody"},
            first: BOOLEAN, next: 1..Len(Permissions), row: User]
IdleRequest == [op |-> "none", pc |-> "idle", name |-> "nobody", first |-> FALSE, next |-> 1,
                row |-> NoUser]

Rows(k) == Cardinality({i \in DOMAIN Permissions : Permissions[i] = k})

\* An empty database, or one in which n registered first
Fresh ==
    /\ users = [n \in Names |-> NoUser] /\ roles = {}
    /\ permissions = [k \in Roles |-> 0] /\ assigned = {}
    /\ agents = [n \in Names |-> 0] /\ dirs = <<>>
Registered(n) ==
    /\ users = [m \in Names |-> IF m = n THEN [role |-> "admin", isAdmin |-> TRUE, linked |-> TRUE,
                                                     password |-> "none"]
                                         ELSE NoUser]
    /\ roles = Roles /\ permissions = [k \in Roles |-> Rows(k)] /\ assigned = {n}
    /\ agents = [m \in Names |-> IF m = n THEN 1 ELSE 0]
    /\ dirs = <<[user |-> n, label |-> "home", parent |-> Root],
                [user |-> n, label |-> "share", parent |-> Root]>>
Init ==
    /\ Fresh \/ \E n \in Names : Registered(n)
    /\ StorageInit /\ wallets = [n \in Names |-> 0]
    /\ run = [r \in Requests |-> IdleRequest]
    /\ overlapped = {} /\ faults = 0

-----------------------------------------------------------------------------
Exists(n) == users[n] # NoUser
OthersLive(r) == {o \in Requests \ {r} : Live(o)}

NotesOverlap(r, n) ==
    overlapped' = IF \E o \in OthersLive(r) : run[o].op \in StorageOps THEN Names
                  ELSE IF \E o \in OthersLive(r) : run[o].name = n THEN overlapped \cup {n}
                  ELSE overlapped

\* The two directories come after each other; a registration then links them, a
\* login is done
NextDir(r, kind) ==
    CASE kind = "home" -> IF run[r].op = "register" THEN "testShare" ELSE "share"
      [] OTHER         -> IF run[r].op = "register" THEN "link" ELSE "done"

\* Both look the name up; the signature was valid.  A login of a known user is
\* given its token and goes on to ensureUserDirectories
FindUser(r, op, n) ==
    /\ At(r, "idle")
    /\ run' = [run EXCEPT ![r] = [IdleRequest EXCEPT !.op = op, !.name = n,
                  !.pc = IF ~Exists(n) THEN "count"
                         ELSE IF op = "register" THEN "rejected" ELSE "home"]]
    /\ NotesOverlap(r, n)
    /\ UNCHANGED <<rows, faults>>

\* A user who has an agent, the last row of a registration, calls the storage
UseStorage(r, n) ==
    /\ At(r, "idle") /\ agents[n] > 0
    /\ StorageBegin(r, n)
    /\ overlapped' = IF OthersLive(r) = {} THEN overlapped ELSE Names
    /\ UNCHANGED <<own, faults>>

\* Is it the first user?  The password is hashed afterwards
CountUsers(r) ==
    /\ At(r, "count")
    /\ LET first == \A n \in Names : ~Exists(n) IN
       run' = [run EXCEPT ![r].first = first,
                          ![r].pc = IF first /\ run[r].op = "register" THEN "adminRole" ELSE "user"]
    /\ UNCHANGED <<rows, overlapped, faults>>

\* Plausible bug: a role that is there already is taken instead
SaveRole_FindsFirst(r, name) ==
    /\ roles' = roles \cup {name}
    /\ Goto(r, IF name = "admin" THEN "userRole" ELSE "permission")

\* The name of a role is unique: a second first registration fails here
SaveRole(r, name) ==
    IF name \in roles
    THEN Goto(r, "rejected") /\ UNCHANGED roles
    ELSE /\ roles' = roles \cup {name}
         /\ Goto(r, IF name = "admin" THEN "userRole" ELSE "permission")

SaveRoles(r) ==
    /\ \/ At(r, "adminRole") /\ SaveRole(r, "admin")
       \/ At(r, "userRole") /\ SaveRole(r, "user")
    /\ UNCHANGED <<users, permissions, assigned, dirs, files, disk, agents, wallets, overlapped, faults>>

SavePermission(r) ==
    LET q == run[r] IN
    /\ At(r, "permission")
    /\ permissions' = [permissions EXCEPT ![Permissions[q.next]] = @ + 1]
    /\ run' = [run EXCEPT ![r] = IF q.next < Len(Permissions) THEN [q EXCEPT !.next = q.next + 1]
                                 ELSE [q EXCEPT !.pc = "user"]]
    /\ UNCHANGED <<users, roles, assigned, dirs, files, disk, agents, wallets, overlapped, faults>>

\* The user as it is saved: only a registration sets isAdmin
NewUser(r, q) == [role |-> IF q.first THEN "admin" ELSE "user",
               isAdmin |-> q.first /\ q.op = "register", linked |-> FALSE, password |-> r]
AfterUser(q) == IF q.op = "wallet" THEN "wallet" ELSE IF q.first THEN "assign" ELSE "testHome"

\* Plausible bug: the row of the same name is saved over
SaveUser_Overwrites(r) ==
    LET q == run[r] IN
    /\ At(r, "user")
    /\ users' = [users EXCEPT ![q.name] = NewUser(r, q)]
    /\ Goto(r, AfterUser(q))
    /\ UNCHANGED <<roles, permissions, assigned, dirs, files, disk, agents, wallets, overlapped, faults>>

\* The username is unique
SaveUser(r) ==
    LET q == run[r] IN
    /\ At(r, "user")
    /\ IF Exists(q.name)
       THEN Goto(r, "rejected") /\ UNCHANGED users
       ELSE users' = [users EXCEPT ![q.name] = NewUser(r, q)] /\ Goto(r, AfterUser(q))
    /\ UNCHANGED <<roles, permissions, assigned, dirs, files, disk, agents, wallets, overlapped, faults>>

\* The administrator's role is found by its name and assigned
AssignRole(r) ==
    /\ At(r, "assign")
    /\ assigned' = IF "admin" \in roles THEN assigned \cup {run[r].name} ELSE assigned
    /\ Goto(r, "testHome")
    /\ UNCHANGED <<users, roles, permissions, dirs, files, disk, agents, wallets, overlapped, faults>>

\* Plausible bug: a login does not look whether the directory is there
FindDir_Blind(r, kind) ==
    /\ At(r, kind)
    /\ Goto(r, IF kind = "home" THEN "saveHome" ELSE "saveShare")
    /\ UNCHANGED <<rows, overlapped, faults>>

\* ensureUserDirectories looks for the directory first
FindDir(r, kind) ==
    /\ At(r, kind)
    /\ Goto(r, IF RootDirs(run[r].name, kind) # {} THEN NextDir(r, kind)
               ELSE IF kind = "home" THEN "testHome" ELSE "testShare")
    /\ UNCHANGED <<rows, overlapped, faults>>

\* createDir refuses a name that is taken; a login catches that
TestDir(r, kind) ==
    /\ At(r, IF kind = "home" THEN "testHome" ELSE "testShare")
    /\ Goto(r, IF RootDirs(run[r].name, kind) = {}
               THEN IF kind = "home" THEN "saveHome" ELSE "saveShare"
               ELSE IF run[r].op = "register" THEN "rejected" ELSE "done")
    /\ UNCHANGED <<rows, overlapped, faults>>

SaveDir(r, kind) ==
    /\ At(r, IF kind = "home" THEN "saveHome" ELSE "saveShare")
    /\ InsertDir(run[r].name, kind, Root)
    /\ Goto(r, NextDir(r, kind))
    /\ UNCHANGED <<own, files, disk, overlapped, faults>>

\* The user is saved again with the ids of its directories, every other column as
\* it was first saved, then logged
LinkDirs(r) ==
    /\ At(r, "link")
    /\ users' = [users EXCEPT ![run[r].name] = [NewUser(r, run[r]) EXCEPT !.linked = TRUE]]
    /\ Goto(r, "agent")
    /\ UNCHANGED <<roles, permissions, assigned, dirs, files, disk, agents, wallets, overlapped, faults>>

CreateAgent(r) ==
    /\ At(r, "agent")
    /\ agents' = [agents EXCEPT ![run[r].name] = @ + 1]
    /\ Goto(r, "done")
    /\ UNCHANGED <<users, roles, permissions, assigned, dirs, files, disk, wallets, overlapped, faults>>

\* createWalletForUser; the login then reads the user it did not find (an inner
\* variable of the same name holds the new one), so that it always fails.  On
\* PostgreSQL the insertion does: wallet.userId is shorter than an id
CreateWallet(r) ==
    /\ At(r, "wallet")
    /\ \/ wallets' = [wallets EXCEPT ![run[r].name] = @ + 1]
       \/ UNCHANGED wallets
    /\ Goto(r, "rejected")
    /\ UNCHANGED <<users, roles, permissions, assigned, dirs, files, disk, agents, overlapped, faults>>

-----------------------------------------------------------------------------
(* The row of a user who is there *)

\* login and changePassword compare a password with the row's, resetPassword does
\* not; update and setUserProperty of the UserService keep the row, with what the
\* body holds assigned to it: home_dir_id and share_dir_id may be any ids, those of
\* the user's directories if there are some
UseAccount(r, op, n) ==
    /\ At(r, "idle") /\ Exists(n)
    /\ \E right \in BOOLEAN, ids \in {FALSE, \A k \in Kinds : RootDirs(n, k) # {}} :
           run' = [run EXCEPT ![r] = [IdleRequest EXCEPT !.op = op, !.name = n,
                      !.pc = IF op \in ProfileOps THEN "profile"
                             ELSE IF ~right THEN "rejected"
                             ELSE IF op = "login" THEN "log" ELSE "password",
                      !.row = CASE op = "updateProfile" -> users[n]
                                [] op = "updateDirs" -> [users[n] EXCEPT !.linked = ids]
                                [] OTHER -> @]]
    /\ NotesOverlap(r, n)
    /\ UNCHANGED <<rows, faults>>

\* The address and the time of the login are stored; the token is only signed
LogIn(r) ==
    /\ At(r, "log") /\ Goto(r, "done")
    /\ UNCHANGED <<rows, overlapped, faults>>

\* Plausible bug: the update has no condition
SavePassword_Everyone(r) ==
    /\ At(r, "password")
    /\ users' = [n \in Names |-> IF Exists(n) THEN [users[n] EXCEPT !.password = r] ELSE users[n]]
    /\ Goto(r, "done")
    /\ UNCHANGED <<roles, permissions, assigned, dirs, files, disk, agents, wallets, overlapped, faults>>

\* The new password, hashed, in an update of that column alone
SavePassword(r) ==
    /\ At(r, "password")
    /\ users' = [users EXCEPT ![run[r].name].password = r]
    /\ Goto(r, "done")
    /\ UNCHANGED <<roles, permissions, assigned, dirs, files, disk, agents, wallets, overlapped, faults>>

\* A save of the row that was found, all columns of it
SaveProfile(r) ==
    /\ At(r, "profile")
    /\ users' = [users EXCEPT ![run[r].name] = run[r].row]
    /\ run' = [run EXCEPT ![r].pc = "done", ![r].row = NoUser]
    /\ UNCHANGED <<roles, permissions, assigned, dirs, files, disk, agents, wallets, overlapped, faults>>

-----------------------------------------------------------------------------
\* A query fails, or the process ends: the rows stay as they are.  The errors of
\* ensureUserDirectories are caught
QueryFails(r) ==
    /\ faults < MaxFaults /\ Live(r)
    /\ faults' = faults + 1
    /\ IF run[r].op \in StorageOps THEN Answer(r, "rejected")
       ELSE run' = [run EXCEPT ![r].row = NoUser,
                        ![r].pc = IF run[r].op = "wallet" /\ @ \notin {"count", "user", "wallet"}
                                  THEN "done" ELSE "rejected"]
    /\ UNCHANGED <<rows, overlapped>>

Next ==
    \E r \in Requests :
        \/ \E op \in AuthOps, n \in Names : FindUser(r, op, n)
        \/ CountUsers(r) \/ SaveRoles(r) \/ SavePermission(r) \/ SaveUser(r) \/ AssignRole(r)
        \/ \E kind \in Kinds : FindDir(r, kind) \/ TestDir(r, kind) \/ SaveDir(r, kind)
        \/ LinkDirs(r) \/ CreateAgent(r) \/ CreateWallet(r)
        \/ \E n \in Names : UseStorage(r, n)
        \/ \E op \in UserOps, n \in Names : UseAccount(r, op, n)
        \/ LogIn(r) \/ SavePassword(r) \/ SaveProfile(r)
        \/ StorageStep(r) /\ UNCHANGED <<own, overlapped, faults>>
        \/ QueryFails(r)

Spec == Init /\ [][Next]_vars

-----------------------------------------------------------------------------
(* What accounts promise *)

TypeOK ==
    /\ users \in [Names -> User] /\ roles \subseteq Roles
    /\ permissions \in [Roles -> Nat] /\ assigned \subseteq Names
    /\ agents \in [Names -> Nat] /\ wallets \in [Names -> Nat]
    /\ StorageTypeOK
    /\ run \in [Requests -> Request \cup StorageCall \cup StorageAnswer]
    /\ overlapped \subseteq Names /\ faults \in 0..MaxFaults

Administrators == {n \in Names : users[n].isAdmin}

\* However many registrations believe they are the first (the count is read
\* before the password is hashed), one user becomes the administrator, and not
\* before both roles and every permission are stored
OneAdministrator ==
    /\ Cardinality(Administrators) <= 1
    /\ Administrators # {} => roles = Roles /\ \A k \in Roles : permissions[k] = Rows(k)

\* Somebody used the storage
Visited == \E r \in Requests : run[r].op \in StorageOps

Edited(n) == \E r \in Requests : run[r].op = "updateProfile" /\ run[r].name = n
Relinked(n) == \E r \in Requests : run[r].op = "updateDirs" /\ run[r].name = n

\* A registration that was answered left everything: the directories and their
\* ids in the user's row, one default agent, the administrator's role if it was the
\* first; and no other registration of that name was answered.  (The ids go again
\* with a profile that was saved meanwhile, or whose body gives other ids.)
RegisteredOnce ==
    \A r \in Requests : run[r].op = "register" /\ run[r].pc = "done" =>
        LET n == run[r].name IN
        /\ users[n].linked \/ (Edited(n) /\ n \in overlapped) \/ Relinked(n)
        /\ agents[n] = 1
        /\ Visited \/ \A k \in Kinds : RootDirs(n, k) # {}
        /\ run[r].first => users[n].isAdmin /\ n \in assigned
        /\ \A o \in Requests : run[o].op = "register" /\ run[o].pc = "done" /\ run[o].name = n => o = r

\* A user whose requests never overlapped has each directory once, however its
\* registrations, logins and calls of the storage failed and were repeated
DirsDistinct == \A n \in Names \ overlapped : \A k \in Kinds : Cardinality(RootDirs(n, k)) <= 1

\* A password changes only by the request that gives the new one.  (A registration
\* and a profile that were under way when it was changed save the old one again.)
PasswordKept ==
    [][\A n \in Names : Exists(n) /\ users'[n].password # users[n].password =>
           \/ \E r \in Requests : At(r, "password") /\ run[r].name = n /\ users'[n].password = r
           \/ /\ n \in overlapped
              /\ \E r \in Requests : run[r].name = n /\ run[r].pc \in {"link", "profile"}]_vars

\* Between requests that did not overlap and did not fail the directories form a tree
\* without orphans, with names of their own, a file outside of it was uploaded to a
\* directory that was gone, and each content on the disk is accounted for: removeDir
\* takes all there is with it, and saveFile and createDir agree on what is there
StorageSound ==
    overlapped = {} /\ faults = 0 /\ (\A r \in Requests : ~Live(r)) =>
        TreeSound /\ FilesPlaced /\ ContentsAccounted

\* A file row never loses its content and shares it with none, whatever requests
\* overlap: two uploads that find the same version keep contents of their own,
\* two removals of a row agree.  (But a share may save a row again that a removal
\* has deleted, and a query that fails leaves a removal half done.)
FilesBacked ==
    faults = 0 /\ (\A r \in Requests : run[r].op # "share") => \A f \in FileRows : ContentKept(f)
=============================================================================
