------------------------------ MODULE AccountsProofs ------------------------------
(***************************************************************************)
(* For any number of requests, names, permissions and failures: one        *)
(* administrator; a registration that was answered left everything, once;  *)
(* passwords change by those who give them; the two directories of a user  *)
(* whose requests never overlapped are there once; a file row keeps a      *)
(* content of its own; without overlap the rows form a tree.               *)
(*                                                                         *)
(* What each action does to the requests is a lemma of its own (...Goes):  *)
(* it keeps the types and the points where a request may stand (IInv), and *)
(* says where the request goes on.  Each property then has an invariant of *)
(* its own, kept by the few actions that write the rows it is about.       *)
(***************************************************************************)
EXTENDS Accounts, FiniteSetTheorems, SequenceTheorems, TLAPS
-----------------------------------------------------------------------------
(* Types, and where a request may stand *)

RegisterPCs == {"count", "adminRole", "userRole", "permission", "user", "assign", "testHome",
                "saveHome", "testShare", "saveShare", "link", "agent", "done", "rejected"}
WalletPCs == {"count", "user", "wallet", "home", "testHome", "saveHome", "share", "testShare",
              "saveShare", "done", "rejected"}

\* A registration or a login, a call on the row of a user, or no request yet
AuthFits(q) ==
    /\ q.op = "none" <=> q.pc = "idle"
    /\ q.op = "none" \/ q.name \in Names
    /\ q.op = "register" => q.pc \in RegisterPCs
    /\ q.op = "wallet" => q.pc \in WalletPCs
    /\ q.op = "login" => q.pc \in {"log", "done", "rejected"}
    /\ q.op = "changePassword" => q.pc \in {"password", "done", "rejected"}
    /\ q.op \in ProfileOps => q.pc \in {"profile", "done", "rejected"}
    /\ q.pc \in {"adminRole", "userRole", "permission", "assign"} => q.first
    /\ q.pc \in {"count", "adminRole", "userRole"} => q.next = 1
    /\ q.pc = "profile" => q.row # NoUser

\* A call of the storage that is not answered yet, of request r
CallFits(q, r) ==
    /\ q.op = "createDir" => q.pc \in {"parent", "testDir", "testFile", "save"}
    /\ q.op = "upload" => /\ q.pc \in {"testFile", "testDir", "save"}
                          /\ q.pc = "save" => q.row \in File /\ q.row.path.by = r
    /\ q.op = "rename" => q.pc \in {"testDir", "testFile", "save"} /\ q.row \in Dir /\ q.id = 0
    /\ q.op = "share" => q.pc = "save" /\ q.row \in (IF q.id = 0 THEN Dir ELSE File)
    /\ q.op \in {"removeFile", "removeDir"} => q.pc = "work" /\ q.todo # <<>>

Fits(q, r) ==
    \/ q \in Request /\ AuthFits(q)
    \/ q \in StorageCall /\ CallFits(q, r)
    \/ q \in StorageAnswer

\* A user whose row a request works on is there
Known == \A r \in Requests : run[r].pc \in {"password", "profile"} => Exists(run[r].name)

IInv == TypeOK /\ (\A r \in Requests : Fits(run[r], r)) /\ Known

-----------------------------------------------------------------------------
(* One administrator *)

\* The registration that stored the administrator's role, and goes on
Claims(r) == /\ run[r].op = "register" /\ run[r].first
             /\ run[r].pc \notin {"count", "adminRole", "rejected"}
\* A registration that has stored its user
HasUser(r) == /\ run[r].op = "register"
              /\ run[r].pc \in {"assign", "testHome", "saveHome", "testShare", "saveShare",
                                "link", "agent", "done"}
Granted == roles = Roles /\ \A k \in Roles : permissions[k] = Rows(k)
\* The permissions of role k before the i-th one
RowsBefore(k, i) == Cardinality({j \in 1 .. i - 1 : Permissions[j] = k})

OneClaim == \A r, o \in Requests : Claims(r) /\ Claims(o) => r = o
\* What a claim has stored so far
Claimed(r) ==
    /\ "admin" \in roles
    /\ At(r, "userRole") => \A k \in Roles : permissions[k] = 0
    /\ At(r, "permission") => roles = Roles /\ \A k \in Roles : permissions[k] = RowsBefore(k, run[r].next)
    /\ run[r].pc \notin {"userRole", "permission"} => Granted
    /\ \A n \in Administrators : HasUser(r) /\ run[r].name = n
RowsTell ==
    /\ "admin" \notin roles => \A k \in Roles : permissions[k] = 0
    /\ \A m, n \in Administrators : m = n
    /\ Administrators # {} => Granted
UserStored(r) == HasUser(r) => Exists(run[r].name) /\ users[run[r].name].isAdmin = run[r].first
CopyTells(r) == At(r, "profile") => users[run[r].name].isAdmin = run[r].row.isAdmin

AInv ==
    /\ OneClaim /\ RowsTell
    /\ \A r \in Requests : (Claims(r) => Claimed(r)) /\ UserStored(r) /\ CopyTells(r)

-----------------------------------------------------------------------------
(* Passwords *)

\* Two requests of one name that are both under way have overlapped
NameShared ==
    \A r, o \in Requests :
        /\ r # o /\ Live(r) /\ Live(o) /\ run[r].op \notin StorageOps /\ run[o].op \notin StorageOps
        /\ run[r].name = run[o].name
        => run[r].name \in overlapped

\* As long as nobody shared the name, what was saved last is still there
SavedLast(r) ==
    run[r].name \notin overlapped =>
        /\ HasUser(r) /\ Live(r) => users[run[r].name].password = r
        /\ At(r, "profile") => users[run[r].name].password = run[r].row.password

PInv == NameShared /\ \A r \in Requests : SavedLast(r)

-----------------------------------------------------------------------------
(* Registrations *)

OneHolder == \A r, o \in Requests : HasUser(r) /\ HasUser(o) /\ run[r].name = run[o].name => r = o

\* A profile that was saved may have taken the ids of the directories away
Excused(n) == (Edited(n) /\ n \in overlapped) \/ Relinked(n)

\* What a registration has stored besides its user
Holder(r) ==
    LET n == run[r].name IN
    /\ agents[n] = IF At(r, "done") THEN 1 ELSE 0
    /\ At(r, "agent") \/ At(r, "done") => users[n].linked \/ Excused(n)
    /\ run[r].first /\ ~At(r, "assign") => n \in assigned
\* A copy without the ids of the directories was read while the registration ran, or
\* after a body took them away
CopyOld(r) ==
    At(r, "profile") /\ run[r].op = "updateProfile" /\ ~run[r].row.linked =>
        \A o \in Requests : HasUser(o) /\ run[o].name = run[r].name =>
            run[r].name \in overlapped \/ Relinked(run[r].name)

GInv ==
    /\ OneHolder
    /\ \A n \in Names : ~Exists(n) => agents[n] = 0
    /\ \A r \in Requests : (HasUser(r) => Holder(r)) /\ CopyOld(r)

HasDirs(r) ==
    HasUser(r) =>
        /\ run[r].pc \notin {"assign", "testHome", "saveHome"} => RootDirs(run[r].name, "home") # {}
        /\ run[r].pc \in {"link", "agent", "done"} => RootDirs(run[r].name, "share") # {}
RInv == Visited \/ \A r \in Requests : HasDirs(r)

-----------------------------------------------------------------------------
(* Directories *)

Calm == overlapped # Names
Calling(r) == Live(r) /\ run[r].op \in StorageOps

\* A call of the storage that overlapped with none is alone
CallsAlone == Calm => \A r, o \in Requests : Calling(r) /\ o # r => ~Live(o)

\* What a request that will insert or rename a directory has tested
Tested(r) ==
    /\ At(r, "saveHome") /\ run[r].name \notin overlapped => RootDirs(run[r].name, "home") = {}
    /\ At(r, "saveShare") /\ run[r].name \notin overlapped => RootDirs(run[r].name, "share") = {}
    /\ Calm /\ run[r].op = "createDir" /\ run[r].pc \in {"testFile", "save"} =>
           \A d \in SubDirs(run[r].dir) : ~(dirs[d].user = run[r].name /\ dirs[d].label = run[r].label)
    /\ Calm /\ run[r].op = "rename" /\ run[r].pc \in {"testFile", "save"} =>
           \A d \in SubDirs(run[r].row.parent) : dirs[d].label # run[r].label
    /\ Calm /\ Calling(r) /\ run[r].op \in {"rename", "share"} /\ run[r].id = 0 =>
           run[r].dir \in DirRows /\ run[r].row = dirs[run[r].dir]

SameDirs(n) == \A kind \in Kinds : \A d, e \in RootDirs(n, kind) : d = e

DInv == NameShared /\ CallsAlone /\ (\A r \in Requests : Tested(r)) /\ (\A n \in Names \ overlapped : SameDirs(n))

-----------------------------------------------------------------------------
(* File contents *)

Undisturbed == faults = 0 /\ \A r \in Requests : run[r].op # "share"

\* A path belongs to one upload, which has stored one row under it, when it is answered
Uploading(r) == run[r].op = "upload" /\ Live(r)
FInv ==
    /\ Undisturbed =>
        /\ \A f \in FileRows : LET r == files[f].path.by IN run[r].op = "upload" /\ At(r, "done")
        /\ \A r \in Requests : Uploading(r) =>
               /\ [by |-> r, copied |-> FALSE] \in disk
               /\ At(r, "save") => run[r].row.path \in disk
        /\ \A f \in FileRows : ContentKept(f)
        /\ \A f, g \in FileRows : files[f].path.by = files[g].path.by => f = g

-----------------------------------------------------------------------------
(* Storage, as long as no requests overlap *)

\* Requests that neither overlapped nor failed
Serial == overlapped = {} /\ faults = 0

\* A removal that is at the files of a directory, or at its row, has first what is
\* still in the directory; the content of the row it is about to delete is deleted
Emptied(todo) ==
    \A i \in DOMAIN todo :
        /\ todo[i].kind \in {"files", "drop"} =>
               \A c \in SubDirs(todo[i].id) :
                   \E j \in 1 .. i - 1 : todo[j].kind \in {"dir", "files", "drop"} /\ todo[j].id = c
        /\ todo[i].kind = "drop" =>
               \A f \in FilesIn(todo[i].id) :
                   \E j \in 1 .. i - 1 : todo[j].kind \in {"file", "row"} /\ todo[j].id = f
        /\ todo[i].kind = "row" => /\ i = 1
                                   /\ todo[i].id \in FileRows => files[todo[i].id].path \notin disk

\* What a call has found still holds, since no other request is there
Found(r) ==
    LET q == run[r] IN
    /\ q.op = "createDir" =>
           /\ q.pc # "parent" => q.dir \in DirRows \cup {Root}
           /\ q.pc = "save" => \A f \in FilesIn(q.dir) : files[f].label # q.label
    /\ q.op = "rename" /\ q.pc = "save" => \A f \in FilesIn(q.row.parent) : files[f].label # q.label
    /\ q.op = "upload" =>
           /\ q.dir # Root
           /\ q.pc = "save" => /\ q.row.dir = q.dir
                               /\ \A d \in SubDirs(q.dir) : dirs[d].label # q.row.label
    /\ q.op = "share" /\ q.id # 0 => q.id \in FileRows /\ q.row = files[q.id]
    /\ q.op \in {"removeFile", "removeDir"} => Emptied(q.todo)

\* Contents are written by uploads only
Written == \A p \in disk : run[p.by].op = "upload"

\* A file is in a directory, or in one that was gone when it was uploaded to it
Placed == \A f \in FileRows : files[f].dir # Root /\ (files[f].dir \in DirRows \/ Stray(f))

SInv ==
    Serial => TreeSound /\ Placed /\ Written /\ ContentsAccounted /\ \A r \in Requests : Calling(r) => Found(r)

-----------------------------------------------------------------------------
(* The fields of a request, and of a call of the storage *)

LEMMA OpsDiffer == StorageOps \cap ({"none"} \cup AuthOps \cup UserOps) = {}
BY DEF StorageOps, AuthOps, UserOps, ProfileOps

LEMMA PointsDiffer == StoragePCs \cap (PCs \cup {"done", "rejected"}) = {}
BY DEF StoragePCs, PCs

\* Which operation may stand at a point, and of which kind its request is
LEMMA PointTells ==
    ASSUME IInv, NEW r \in Requests
    PROVE  /\ run[r].pc \in {"adminRole", "userRole", "permission", "assign", "link", "agent"}
                  => run[r].op = "register"
           /\ run[r].pc \in {"count", "user", "testHome", "saveHome", "testShare", "saveShare"}
                  => run[r].op \in AuthOps
           /\ run[r].pc \in {"home", "share", "wallet"} => run[r].op = "wallet"
           /\ run[r].pc = "profile" => run[r].op \in ProfileOps
           /\ run[r].pc = "password" => run[r].op = "changePassword"
           /\ run[r].pc = "log" => run[r].op = "login"
           /\ run[r].pc = "idle" => run[r].op = "none"
           /\ run[r].op \notin StorageOps => run[r] \in Request /\ AuthFits(run[r])
           /\ run[r].op \in StorageOps <=> run[r] \in StorageCall \cup StorageAnswer
           /\ run[r].op \in StorageOps /\ Live(r) => run[r] \in StorageCall /\ CallFits(run[r], r)
           /\ run[r].pc \notin StoragePCs \cup Ended => run[r].op \notin StorageOps
           /\ run[r].pc \in StoragePCs => run[r].op \in StorageOps
           /\ run[r].op \in StorageOps => run[r].pc \in StoragePCs \cup {"done", "rejected"}
           /\ run[r].op # "none" => run[r].name \in Names
<1> DEFINE q == run[r]
<1>1. Fits(q, r)
  BY DEF IInv
<1>2. CASE q \in Request /\ AuthFits(q)
  <2>1. q.op \in {"none"} \cup AuthOps \cup UserOps /\ q.pc \in PCs
    BY <1>2 DEF Request
  <2>2. q.op \notin StorageOps
    BY <2>1, OpsDiffer
  <2>3. q \notin StorageCall \cup StorageAnswer
    BY <2>2 DEF StorageCall, StorageAnswer, StorageOps
  <2>4. q.pc \notin StoragePCs
    BY <2>1, PointsDiffer
  <2> HIDE DEF q
  <2>5. /\ q.pc \in {"adminRole", "userRole", "permission", "assign", "link", "agent"} => q.op = "register"
        /\ q.pc \in {"count", "user", "testHome", "saveHome", "testShare", "saveShare"} => q.op \in AuthOps
        /\ q.pc \in {"home", "share", "wallet"} => q.op = "wallet"
        /\ q.pc = "profile" => q.op \in ProfileOps
        /\ q.pc = "password" => q.op = "changePassword"
        /\ q.pc = "log" => q.op = "login"
        /\ q.pc = "idle" => q.op = "none"
        /\ q.op # "none" => q.name \in Names
    BY <1>2, <2>1 DEF AuthFits, AuthOps, UserOps, ProfileOps, RegisterPCs, WalletPCs
  <2> USE DEF q
  <2>6. QED
    BY <1>2, <2>2, <2>3, <2>4, <2>5
<1>3. CASE q \in StorageCall /\ CallFits(q, r)
  <2>1. q.op \in StorageOps /\ q.pc \in StoragePCs /\ q.name \in Names
    BY <1>3 DEF StorageCall
  <2>2. QED
    BY <1>3, <2>1 DEF StoragePCs, StorageOps
<1>4. CASE q \in StorageAnswer
  <2>1. q.op \in StorageOps /\ q.pc \in {"done", "rejected"} /\ q.name \in Names
    BY <1>4 DEF StorageAnswer, StorageOps
  <2>2. QED
    BY <1>4, <2>1 DEF StoragePCs, StorageOps, Live, Ended
<1>5. QED
  BY <1>1, <1>2, <1>3, <1>4 DEF Fits

\* What a step of request r leaves alone
Others(r) == run' = [o \in Requests |-> IF o = r THEN run'[r] ELSE run[o]]

\* The request r goes on to the point p, its operation and its name stay
Advances(r, p) ==
    /\ Others(r)
    /\ run'[r].op = run[r].op /\ run'[r].name = run[r].name /\ run'[r].pc = p

LEMMA RequestGoesOn ==
    ASSUME NEW q \in Request, NEW p \in PCs
    PROVE  LET n == [q EXCEPT !.pc = p] IN
           /\ n \in Request
           /\ n.op = q.op /\ n.name = q.name /\ n.pc = p
           /\ n.first = q.first /\ n.next = q.next /\ n.row = q.row
BY DEF Request

\* Goto, in a registration, a login or a call on a user's row
LEMMA GotoGoes ==
    ASSUME IInv, NEW r \in Requests, NEW p \in PCs, Goto(r, p), run[r] \in Request
    PROVE  /\ Advances(r, p)
           /\ run'[r] \in Request
           /\ run'[r].first = run[r].first /\ run'[r].next = run[r].next /\ run'[r].row = run[r].row
<1>1. DOMAIN run = Requests
  BY DEF IInv, TypeOK
<1>2. run'[r] = [run[r] EXCEPT !.pc = p] /\ Others(r)
  BY <1>1 DEF Goto, Others
<1>3. QED
  BY <1>2, RequestGoesOn DEF Advances

-----------------------------------------------------------------------------
(* What the actions of accounts do to the requests *)

\* Rows of users are never removed
UsersStay == \A n \in Names : Exists(n) => users'[n] # NoUser

LEMMA TypesKept ==
    ASSUME IInv, NEW r \in Requests, Others(r), Fits(run'[r], r), UsersStay,
           run'[r].pc \in {"password", "profile"} => users'[run'[r].name] # NoUser,
           users' \in [Names -> User], roles' \subseteq Roles,
           permissions' \in [Roles -> Nat], assigned' \subseteq Names,
           agents' \in [Names -> Nat], wallets' \in [Names -> Nat],
           StorageTypeOK', overlapped' \subseteq Names, faults' \in 0..MaxFaults
    PROVE  IInv'
<1>1. \A o \in Requests : Fits(run'[o], o)
  BY DEF Others, IInv
<1>2. \A o \in Requests : run'[o] \in Request \cup StorageCall \cup StorageAnswer
  BY <1>1 DEF Fits
<1>3. run' \in [Requests -> Request \cup StorageCall \cup StorageAnswer]
  BY <1>2 DEF Others
<1>4. TypeOK'
  BY <1>3 DEF TypeOK
<1>5. ASSUME NEW o \in Requests, run'[o].pc \in {"password", "profile"}
      PROVE  users'[run'[o].name] # NoUser
  <2>1. CASE o # r
    <3>1. run'[o] = run[o]
      BY <2>1 DEF Others
    <3>2. run[o].name \in Names /\ Exists(run[o].name)
      BY <1>5, <3>1, PointTells DEF IInv, Known, ProfileOps
    <3>3. QED
      BY <3>1, <3>2 DEF UsersStay
  <2>2. QED
    BY <1>5, <2>1
<1>6. Known'
  BY <1>5 DEF Known, Exists
<1>7. QED
  BY <1>1, <1>4, <1>6 DEF IInv

\* A request that stays one of accounts
LEMMA AuthTypesKept ==
    ASSUME IInv, NEW r \in Requests, Others(r), run'[r] \in Request, AuthFits(run'[r]), UsersStay,
           run'[r].pc \in {"password", "profile"} => users'[run'[r].name] # NoUser,
           users' \in [Names -> User], roles' \subseteq Roles,
           permissions' \in [Roles -> Nat], assigned' \subseteq Names,
           agents' \in [Names -> Nat], wallets' \in [Names -> Nat],
           StorageTypeOK', overlapped' \subseteq Names, faults' \in 0..MaxFaults
    PROVE  IInv'
BY TypesKept DEF Fits

\* A request of accounts that goes on and loses or loads nothing
Proceeds(r, p) == /\ Advances(r, p) /\ run'[r] \in Request
                  /\ run'[r].first = run[r].first /\ run'[r].next = run[r].next
                  /\ run'[r].row = run[r].row

LEMMA ProceedsFits ==
    ASSUME IInv, NEW r \in Requests, NEW p \in PCs \ {"idle"}, Proceeds(r, p),
           run[r].op \in AuthOps \cup UserOps,
           run[r].op = "register" => p \in RegisterPCs,
           run[r].op = "wallet" => p \in WalletPCs,
           run[r].op \in UserOps => p \in {"done", "rejected"},
           p \in {"adminRole", "userRole", "permission", "assign"} => run[r].first,
           p \in {"count", "adminRole", "userRole"} => run[r].next = 1
    PROVE  AuthFits(run'[r])
<1>1. run[r].op # "none" /\ run[r].op \notin StorageOps
  BY DEF AuthOps, UserOps, ProfileOps, StorageOps
<1>2. run[r].name \in Names
  BY <1>1, PointTells
<1>3. /\ run'[r].op = run[r].op /\ run'[r].name = run[r].name /\ run'[r].pc = p
      /\ run'[r].first = run[r].first /\ run'[r].next = run[r].next /\ run'[r].row = run[r].row
  BY DEF Proceeds, Advances
<1>4. p # "profile"
  BY DEF RegisterPCs, WalletPCs, AuthOps
<1> HIDE DEF Proceeds, Advances
<1>5. QED
  BY <1>1, <1>2, <1>3, <1>4 DEF AuthFits, AuthOps, UserOps, ProfileOps

LEMMA GotoProceeds ==
    ASSUME IInv, NEW r \in Requests, NEW p \in PCs, Goto(r, p), run[r].op \notin StorageOps
    PROVE  Proceeds(r, p)
BY GotoGoes, PointTells DEF Proceeds

LEMMA NoUserTyped == NoUser \in User
BY DEF User

LEMMA IdleFields ==
    /\ IdleRequest \in Request
    /\ IdleRequest.first = FALSE /\ IdleRequest.next = 1 /\ IdleRequest.row = NoUser
<1>1. Len(Permissions) \in Nat /\ Len(Permissions) >= 1
  BY AccountsAssumption DEF AccountsAssumption
<1>2. QED
  BY <1>1, NoUserTyped DEF IdleRequest, Request, PCs

\* The row of a user who is there
UserRow == [role: Roles, isAdmin: BOOLEAN, linked: BOOLEAN, password: Requests \cup {"none"}]

LEMMA UserRows == User = UserRow \cup {NoUser} /\ NoUser \notin UserRow
BY DEF User, UserRow, NoUser, Roles

\* FindUser and UseAccount begin a request
BeginsAs(r, op, n) ==
    /\ Others(r) /\ run'[r] \in Request /\ AuthFits(run'[r])
    /\ At(r, "idle") /\ run'[r].op = op /\ run'[r].name = n
    /\ ~run'[r].first /\ run'[r].next = 1

LEMMA BeginGoes ==
    ASSUME IInv, NEW r \in Requests, NEW op \in AuthOps \cup UserOps, NEW n \in Names,
           NEW p \in PCs, NEW u \in User, At(r, "idle"),
           run' = [run EXCEPT ![r] = [IdleRequest EXCEPT !.op = op, !.name = n, !.pc = p, !.row = u]],
           op = "register" => p \in {"count", "rejected"},
           op = "wallet" => p \in {"count", "home"},
           op = "login" => p \in {"log", "rejected"},
           op = "changePassword" => p \in {"password", "rejected"},
           op \in ProfileOps => p = "profile" /\ u # NoUser
    PROVE  BeginsAs(r, op, n) /\ run'[r].pc = p /\ run'[r].row = u
<1> DEFINE q == [IdleRequest EXCEPT !.op = op, !.name = n, !.pc = p, !.row = u]
<1>1. /\ q \in Request /\ q.op = op /\ q.name = n /\ q.pc = p /\ q.row = u
      /\ q.first = FALSE /\ q.next = 1
  <2>1. \A i \in Request :
            LET j == [i EXCEPT !.op = op, !.name = n, !.pc = p, !.row = u] IN
            /\ j \in Request /\ j.op = op /\ j.name = n /\ j.pc = p /\ j.row = u
            /\ j.first = i.first /\ j.next = i.next
    BY DEF Request
  <2>2. QED
    BY <2>1, IdleFields
<1>2. run' = [run EXCEPT ![r] = q]
  OBVIOUS
<1> HIDE DEF q
<1>3. DOMAIN run = Requests
  BY DEF IInv, TypeOK
<1>4. Others(r) /\ run'[r] = q
  BY <1>2, <1>3 DEF Others
<1>5. AuthFits(q)
  BY <1>1 DEF AuthFits, AuthOps, UserOps, ProfileOps, RegisterPCs, WalletPCs
<1>6. QED
  BY <1>1, <1>4, <1>5 DEF BeginsAs

LEMMA FindUserGoes ==
    ASSUME IInv, NEW r \in Requests, NEW op \in AuthOps, NEW n \in Names, FindUser(r, op, n)
    PROVE  /\ BeginsAs(r, op, n) /\ IInv' /\ UNCHANGED rows
           /\ run'[r].pc \in {"count", "home", "rejected"} /\ run'[r].row = NoUser
           /\ (run'[r].pc = "count" <=> ~Exists(n))
<1> DEFINE p == IF ~Exists(n) THEN "count" ELSE IF op = "register" THEN "rejected" ELSE "home"
           q == [IdleRequest EXCEPT !.op = op, !.name = n, !.pc = p]
<1>1. p \in PCs /\ p \in {"count", "home", "rejected"} /\ (p = "count" <=> ~Exists(n))
      /\ (op = "register" => p # "home") /\ (op = "wallet" => p # "rejected")
  BY DEF PCs
<1>2. run' = [run EXCEPT ![r] = q]
  BY DEF FindUser
<1> HIDE DEF p
<1>3. /\ q \in Request /\ q.op = op /\ q.name = n /\ q.pc = p /\ q.row = NoUser
      /\ q.first = FALSE /\ q.next = 1
  <2>1. \A i \in Request :
            LET j == [i EXCEPT !.op = op, !.name = n, !.pc = p] IN
            /\ j \in Request /\ j.op = op /\ j.name = n /\ j.pc = p /\ j.row = i.row
            /\ j.first = i.first /\ j.next = i.next
    BY <1>1 DEF Request
  <2>2. QED
    BY <2>1, IdleFields
<1> HIDE DEF q
<1>4. DOMAIN run = Requests
  BY DEF IInv, TypeOK
<1>5. Others(r) /\ run'[r] = q
  BY <1>2, <1>4 DEF Others
<1>6. AuthFits(q)
  BY <1>1, <1>3 DEF AuthFits, AuthOps, UserOps, ProfileOps, RegisterPCs, WalletPCs
<1>7. UNCHANGED rows /\ faults' = faults /\ At(r, "idle")
  BY DEF FindUser
<1>8. overlapped' \subseteq Names
  BY DEF FindUser, NotesOverlap, IInv, TypeOK
<1>9. IInv'
  <2>1. /\ users' \in [Names -> User] /\ roles' \subseteq Roles /\ permissions' \in [Roles -> Nat]
        /\ assigned' \subseteq Names /\ agents' \in [Names -> Nat] /\ wallets' \in [Names -> Nat]
        /\ StorageTypeOK' /\ faults' \in 0..MaxFaults
    BY <1>7 DEF rows, own, IInv, TypeOK, StorageTypeOK
  <2>2. QED
    BY <1>1, <1>3, <1>5, <1>6, <1>7, <1>8, <2>1, AuthTypesKept DEF UsersStay, rows, own, Exists
<1>10. QED
  BY <1>1, <1>3, <1>5, <1>6, <1>7, <1>9 DEF BeginsAs

LEMMA UseAccountGoes ==
    ASSUME IInv, NEW r \in Requests, NEW op \in UserOps, NEW n \in Names, UseAccount(r, op, n)
    PROVE  /\ BeginsAs(r, op, n) /\ IInv' /\ UNCHANGED rows /\ Exists(n)
           /\ run'[r].pc \in {"profile", "rejected", "log", "password"}
           /\ run'[r].pc = "profile" => /\ run'[r].row.isAdmin = users[n].isAdmin
                                        /\ run'[r].row.password = users[n].password
                                        /\ op = "updateProfile" => run'[r].row = users[n]
<1>1. At(r, "idle") /\ Exists(n) /\ UNCHANGED rows /\ faults' = faults
  BY DEF UseAccount
<1>2. users[n] \in User /\ users[n] # NoUser
  BY <1>1 DEF IInv, TypeOK, Exists
<1>3. PICK right \in BOOLEAN, ids \in {FALSE, \A k \in Kinds : RootDirs(n, k) # {}} :
          run' = [run EXCEPT ![r] = [IdleRequest EXCEPT !.op = op, !.name = n,
                      !.pc = IF op \in ProfileOps THEN "profile"
                             ELSE IF ~right THEN "rejected"
                             ELSE IF op = "login" THEN "log" ELSE "password",
                      !.row = CASE op = "updateProfile" -> users[n]
                                [] op = "updateDirs" -> [users[n] EXCEPT !.linked = ids]
                                [] OTHER -> @]]
  BY DEF UseAccount
<1> DEFINE p == IF op \in ProfileOps THEN "profile"
                ELSE IF ~right THEN "rejected"
                ELSE IF op = "login" THEN "log" ELSE "password"
           w == [users[n] EXCEPT !.linked = ids]
           u == CASE op = "updateProfile" -> users[n] [] op = "updateDirs" -> w [] OTHER -> NoUser
<1>4. run' = [run EXCEPT ![r] = [IdleRequest EXCEPT !.op = op, !.name = n, !.pc = p, !.row = u]]
  BY <1>3, IdleFields
<1>12. ids \in BOOLEAN
  BY <1>3
<1>13. w \in User /\ w # NoUser /\ w.isAdmin = users[n].isAdmin /\ w.password = users[n].password
  <2>1. \A v \in UserRow : LET x == [v EXCEPT !.linked = ids] IN
            x \in UserRow /\ x.isAdmin = v.isAdmin /\ x.password = v.password
    BY <1>12 DEF UserRow
  <2>2. QED
    BY <1>2, <2>1, UserRows
<1> HIDE DEF w
<1>5. /\ p \in PCs /\ u \in User /\ p \in {"profile", "rejected", "log", "password"}
      /\ (p = "profile" => /\ op \in ProfileOps /\ u # NoUser
                           /\ u.isAdmin = users[n].isAdmin /\ u.password = users[n].password
                           /\ op = "updateProfile" => u = users[n])
      /\ (op \in ProfileOps => p = "profile")
      /\ (op = "login" => p \in {"log", "rejected"})
      /\ (op = "changePassword" => p \in {"password", "rejected"})
  BY <1>2, <1>13, NoUserTyped DEF PCs, ProfileOps
<1> HIDE DEF p, u
<1>6. op \in AuthOps \cup UserOps /\ op # "register" /\ op # "wallet"
  BY DEF AuthOps, UserOps, ProfileOps
<1>7. BeginsAs(r, op, n) /\ run'[r].pc = p /\ run'[r].row = u
  <2> HIDE DEF IInv
  <2>1. (op \in ProfileOps) => (p = "profile" /\ u # NoUser)
    BY <1>5
  <2>2. p \in PCs /\ u \in User /\ At(r, "idle")
    BY <1>1, <1>5
  <2>3. QED
    BY <1>4, <1>5, <1>6, <2>1, <2>2, BeginGoes
<1>8. overlapped' \subseteq Names
  BY DEF UseAccount, NotesOverlap, IInv, TypeOK
<1>9. /\ users' \in [Names -> User] /\ roles' \subseteq Roles /\ permissions' \in [Roles -> Nat]
      /\ assigned' \subseteq Names /\ agents' \in [Names -> Nat] /\ wallets' \in [Names -> Nat]
      /\ StorageTypeOK' /\ faults' \in 0..MaxFaults
  BY <1>1 DEF rows, own, IInv, TypeOK, StorageTypeOK
<1>10. IInv'
  <2>1. users' = users
    BY <1>1 DEF rows, own
  <2>2. UsersStay /\ users'[run'[r].name] # NoUser
    BY <1>2, <1>7, <2>1 DEF UsersStay, Exists, BeginsAs
  <2>3. QED
    BY <1>7, <1>8, <1>9, <2>2, AuthTypesKept DEF BeginsAs
<1>11. QED
  BY <1>1, <1>5, <1>7, <1>10

LEMMA CountUsersGoes ==
    ASSUME IInv, NEW r \in Requests, CountUsers(r)
    PROVE  /\ IInv' /\ UNCHANGED <<rows, overlapped>> /\ At(r, "count")
           /\ \E p \in {"adminRole", "user"} : Advances(r, p)
           /\ run'[r] \in Request /\ run'[r].next = 1
           /\ run'[r].first <=> \A n \in Names : ~Exists(n)
           /\ run[r].op = "register" => (At(r, "adminRole")' <=> run'[r].first)
<1> DEFINE first == \A n \in Names : ~Exists(n)
           p == IF first /\ run[r].op = "register" THEN "adminRole" ELSE "user"
<1>1. /\ At(r, "count") /\ UNCHANGED <<rows, overlapped, faults>>
      /\ run' = [run EXCEPT ![r].first = first, ![r].pc = p]
  BY DEF CountUsers
<1>2. run[r].op \in AuthOps /\ run[r].op \notin StorageOps
  BY <1>1, PointTells DEF At, AuthOps, StorageOps
<1>3. run[r] \in Request /\ AuthFits(run[r])
  BY <1>2, PointTells
<1>4. p \in {"adminRole", "user"} /\ first \in BOOLEAN /\ (p = "adminRole" <=> first /\ run[r].op = "register")
  OBVIOUS
<1> HIDE DEF first, p
<1> DEFINE q == [run[r] EXCEPT !.first = first, !.pc = p]
<1>5. DOMAIN run = Requests
  BY DEF IInv, TypeOK
<1>6. Others(r) /\ run'[r] = q
  BY <1>1, <1>5 DEF Others
<1>7. /\ q \in Request /\ q.op = run[r].op /\ q.name = run[r].name /\ q.pc = p
      /\ q.row = run[r].row /\ q.first = first /\ q.next = run[r].next
  BY <1>3, <1>4 DEF Request, PCs
<1> HIDE DEF q
<1>8. run[r].next = 1 /\ run[r].op # "none" /\ run[r].name \in Names
  BY <1>1, <1>2, <1>3 DEF AuthFits, At, AuthOps
<1>9. AuthFits(q)
  BY <1>2, <1>4, <1>7, <1>8 DEF AuthFits, RegisterPCs, WalletPCs, AuthOps, ProfileOps
<1>10. IInv'
  <2>1. /\ users' \in [Names -> User] /\ roles' \subseteq Roles /\ permissions' \in [Roles -> Nat]
        /\ assigned' \subseteq Names /\ agents' \in [Names -> Nat] /\ wallets' \in [Names -> Nat]
        /\ StorageTypeOK' /\ overlapped' \subseteq Names /\ faults' \in 0..MaxFaults
    BY <1>1 DEF rows, own, IInv, TypeOK, StorageTypeOK
  <2>2. QED
    BY <1>1, <1>4, <1>6, <1>7, <1>9, <2>1, AuthTypesKept DEF UsersStay, rows, own, Exists
<1>11. first <=> \A n \in Names : ~Exists(n)
  BY DEF first
<1>12. QED
  BY <1>1, <1>4, <1>6, <1>7, <1>8, <1>10, <1>11 DEF Advances, At

\* The actions that go on after a write of rows, or none
LEMMA ProceedsKeepsTypes ==
    ASSUME IInv, NEW r \in Requests, NEW p \in PCs \ {"idle"}, Goto(r, p),
           run[r].op \in AuthOps \cup UserOps,
           run[r].op = "register" => p \in RegisterPCs,
           run[r].op = "wallet" => p \in WalletPCs,
           run[r].op \in UserOps => p \in {"done", "rejected"},
           p \in {"adminRole", "userRole", "permission", "assign"} => run[r].first,
           p \in {"count", "adminRole", "userRole"} => run[r].next = 1,
           users' \in [Names -> User], roles' \subseteq Roles,
           permissions' \in [Roles -> Nat], assigned' \subseteq Names,
           agents' \in [Names -> Nat], wallets' \in [Names -> Nat],
           StorageTypeOK', overlapped' = overlapped, faults' = faults, UsersStay
    PROVE  IInv' /\ Proceeds(r, p)
<1>1. run[r].op \notin StorageOps
  BY DEF AuthOps, UserOps, ProfileOps, StorageOps
<1>2. Proceeds(r, p)
  BY <1>1, GotoProceeds
<1>3. AuthFits(run'[r])
  BY <1>2, ProceedsFits
<1>4. overlapped' \subseteq Names /\ faults' \in 0..MaxFaults
  BY DEF IInv, TypeOK
<1>5. p \notin {"password", "profile"}
  BY DEF RegisterPCs, WalletPCs, AuthOps
<1>6. QED
  BY <1>2, <1>3, <1>4, <1>5, AuthTypesKept DEF Proceeds, Advances

LEMMA RowsTyped ==
    ASSUME IInv
    PROVE  /\ users \in [Names -> User] /\ roles \subseteq Roles
           /\ permissions \in [Roles -> Nat] /\ assigned \subseteq Names
           /\ agents \in [Names -> Nat] /\ wallets \in [Names -> Nat] /\ StorageTypeOK
BY DEF IInv, TypeOK

LEMMA SaveRolesGoes ==
    ASSUME IInv, NEW r \in Requests, SaveRoles(r)
    PROVE  /\ IInv' /\ run[r].op = "register" /\ run[r].first
           /\ UNCHANGED <<users, permissions, assigned, dirs, files, disk, agents, wallets, overlapped, faults>>
           /\ \/ /\ At(r, "adminRole") /\ "admin" \notin roles /\ roles' = roles \cup {"admin"}
                 /\ Proceeds(r, "userRole")
              \/ /\ At(r, "userRole") /\ "user" \notin roles /\ roles' = roles \cup {"user"}
                 /\ Proceeds(r, "permission")
              \/ roles' = roles /\ Proceeds(r, "rejected")
<1>1. /\ UNCHANGED <<users, permissions, assigned, dirs, files, disk, agents, wallets, overlapped, faults>>
      /\ \/ At(r, "adminRole") /\ SaveRole(r, "admin")
         \/ At(r, "userRole") /\ SaveRole(r, "user")
  BY DEF SaveRoles
<1>2. run[r].op = "register" /\ run[r].op \in AuthOps /\ run[r].op \notin StorageOps
  BY <1>1, PointTells DEF At, AuthOps, StorageOps
<1>3. run[r].first /\ run[r].next = 1
  BY <1>1, <1>2, PointTells DEF AuthFits, At
<1>4. /\ users' \in [Names -> User] /\ permissions' \in [Roles -> Nat]
      /\ assigned' \subseteq Names /\ agents' \in [Names -> Nat] /\ wallets' \in [Names -> Nat]
      /\ StorageTypeOK'
  BY <1>1, RowsTyped DEF StorageTypeOK
<1>5. ASSUME NEW p \in {"userRole", "permission", "rejected"}, Goto(r, p), roles' \subseteq Roles
      PROVE  IInv' /\ Proceeds(r, p)
  <2>1. p \in PCs \ {"idle"} /\ p \in RegisterPCs /\ p \notin {"count", "adminRole"}
    BY DEF PCs, RegisterPCs
  <2>2. run[r].op # "wallet" /\ run[r].op \notin UserOps
    BY <1>2 DEF UserOps, ProfileOps
  <2>3. QED
    BY <1>1, <1>2, <1>3, <1>4, <1>5, <2>1, <2>2, ProceedsKeepsTypes DEF UsersStay, Exists
<1>6. roles \subseteq Roles /\ "admin" \in Roles /\ "user" \in Roles
  BY RowsTyped DEF Roles
<1>7. CASE At(r, "adminRole") /\ SaveRole(r, "admin")
  <2>1. CASE "admin" \in roles
    BY <1>1, <1>2, <1>3, <1>5, <1>6, <1>7, <2>1 DEF SaveRole
  <2>2. CASE "admin" \notin roles
    <3>1. roles' = roles \cup {"admin"} /\ Goto(r, "userRole")
      BY <1>7, <2>2 DEF SaveRole
    <3>2. IInv' /\ Proceeds(r, "userRole")
      BY <1>5, <1>6, <3>1
    <3>3. QED
      BY <1>1, <1>2, <1>3, <1>7, <2>2, <3>1, <3>2
  <2>3. QED
    BY <2>1, <2>2
<1>8. CASE At(r, "userRole") /\ SaveRole(r, "user")
  <2>1. CASE "user" \in roles
    BY <1>1, <1>2, <1>3, <1>5, <1>6, <1>8, <2>1 DEF SaveRole
  <2>2. CASE "user" \notin roles
    <3>1. roles' = roles \cup {"user"} /\ Goto(r, "permission")
      BY <1>8, <2>2 DEF SaveRole
    <3>2. IInv' /\ Proceeds(r, "permission")
      BY <1>5, <1>6, <3>1
    <3>3. QED
      BY <1>1, <1>2, <1>3, <1>8, <2>2, <3>1, <3>2
  <2>3. QED
    BY <2>1, <2>2
<1>9. QED
  BY <1>1, <1>7, <1>8

LEMMA SavePermissionGoes ==
    ASSUME IInv, NEW r \in Requests, SavePermission(r)
    PROVE  /\ IInv' /\ At(r, "permission") /\ run[r].op = "register" /\ run[r].first
           /\ UNCHANGED <<users, roles, assigned, dirs, files, disk, agents, wallets, overlapped, faults>>
           /\ run[r].next \in 1 .. Len(Permissions)
           /\ permissions' = [permissions EXCEPT ![Permissions[run[r].next]] = @ + 1]
           /\ run'[r] \in Request /\ run'[r].first
           /\ \/ /\ run[r].next < Len(Permissions) /\ Advances(r, "permission")
                 /\ run'[r].next = run[r].next + 1
              \/ run[r].next = Len(Permissions) /\ Advances(r, "user")
<1> DEFINE q == run[r]
           n == IF q.next < Len(Permissions) THEN [q EXCEPT !.next = q.next + 1]
                ELSE [q EXCEPT !.pc = "user"]
<1>1. /\ At(r, "permission")
      /\ permissions' = [permissions EXCEPT ![Permissions[q.next]] = @ + 1]
      /\ run' = [run EXCEPT ![r] = n]
      /\ UNCHANGED <<users, roles, assigned, dirs, files, disk, agents, wallets, overlapped, faults>>
  BY DEF SavePermission
<1>2. q.op = "register" /\ q.op \in AuthOps /\ q.op \notin StorageOps
  BY <1>1, PointTells DEF At, AuthOps, StorageOps
<1>3. q \in Request /\ AuthFits(q) /\ q.pc = "permission"
  BY <1>1, <1>2, PointTells DEF At
<1>4. DOMAIN run = Requests
  BY DEF IInv, TypeOK
<1>5. Others(r) /\ run'[r] = n
  BY <1>1, <1>4 DEF Others
<1> HIDE DEF q
<1>6. q.next \in 1 .. Len(Permissions) /\ Len(Permissions) \in Nat /\ q.first
  BY <1>3, AccountsAssumption DEF AccountsAssumption, Request, AuthFits
<1>7. /\ n \in Request /\ n.op = q.op /\ n.name = q.name /\ n.first = q.first
      /\ \/ q.next < Len(Permissions) /\ n.pc = "permission" /\ n.next = q.next + 1
         \/ q.next = Len(Permissions) /\ n.pc = "user"
  <2>1. CASE q.next < Len(Permissions)
    <3>1. n = [q EXCEPT !.next = q.next + 1] /\ q.next + 1 \in 1 .. Len(Permissions)
      BY <1>6, <2>1
    <3>2. QED
      BY <1>3, <2>1, <3>1 DEF Request
  <2>2. CASE ~(q.next < Len(Permissions))
    <3>1. n = [q EXCEPT !.pc = "user"] /\ q.next = Len(Permissions)
      BY <1>6, <2>2
    <3>2. n \in Request /\ n.op = q.op /\ n.name = q.name /\ n.first = q.first /\ n.pc = "user"
      BY <1>3, <3>1 DEF Request, PCs
    <3>3. QED
      BY <3>1, <3>2
  <2>3. QED
    BY <2>1, <2>2
<1> HIDE DEF n
<1>8. AuthFits(n)
  BY <1>2, <1>3, <1>6, <1>7 DEF AuthFits, RegisterPCs, WalletPCs, AuthOps
<1>9. permissions' \in [Roles -> Nat]
  <2>1. permissions \in [Roles -> Nat]
    BY RowsTyped
  <2>2. Permissions[q.next] \in Roles
    BY <1>6, AccountsAssumption DEF AccountsAssumption, Roles
  <2>3. QED
    BY <1>1, <2>1, <2>2
<1>10. IInv'
  <2>1. /\ users' \in [Names -> User] /\ roles' \subseteq Roles
        /\ assigned' \subseteq Names /\ agents' \in [Names -> Nat] /\ wallets' \in [Names -> Nat]
        /\ StorageTypeOK' /\ overlapped' \subseteq Names /\ faults' \in 0..MaxFaults
    BY <1>1 DEF IInv, TypeOK, StorageTypeOK
  <2>2. QED
    BY <1>1, <1>5, <1>7, <1>8, <1>9, <2>1, AuthTypesKept DEF UsersStay, Exists
<1>11. QED
  BY <1>1, <1>2, <1>3, <1>5, <1>6, <1>7, <1>10 DEF Advances, q

LEMMA SaveUserGoes ==
    ASSUME IInv, NEW r \in Requests, SaveUser(r)
    PROVE  /\ IInv' /\ At(r, "user") /\ run[r].op \in AuthOps
           /\ UNCHANGED <<roles, permissions, assigned, dirs, files, disk, agents, wallets, overlapped, faults>>
           /\ \/ Exists(run[r].name) /\ users' = users /\ Proceeds(r, "rejected")
              \/ /\ ~Exists(run[r].name)
                 /\ users' = [users EXCEPT ![run[r].name] = NewUser(r, run[r])]
                 /\ NewUser(r, run[r]) # NoUser
                 /\ Proceeds(r, IF run[r].op = "wallet" THEN "wallet"
                                ELSE IF run[r].first THEN "assign" ELSE "testHome")
<1> DEFINE q == run[r]
           p == AfterUser(q)
<1>1. /\ At(r, "user")
      /\ UNCHANGED <<roles, permissions, assigned, dirs, files, disk, agents, wallets, overlapped, faults>>
      /\ \/ Exists(q.name) /\ Goto(r, "rejected") /\ users' = users
         \/ ~Exists(q.name) /\ users' = [users EXCEPT ![q.name] = NewUser(r, q)] /\ Goto(r, p)
  BY DEF SaveUser
<1>2. q.op \in AuthOps /\ q.op \notin StorageOps /\ q.op \notin UserOps
  BY <1>1, PointTells DEF At, AuthOps, StorageOps, UserOps, ProfileOps
<1>3. q \in Request /\ q.name \in Names
  BY <1>2, PointTells DEF AuthOps
<1>4. NewUser(r, q) \in User /\ NewUser(r, q) # NoUser
  BY <1>3 DEF NewUser, User, NoUser, Request, Roles
<1>5. /\ roles' \subseteq Roles /\ permissions' \in [Roles -> Nat]
      /\ assigned' \subseteq Names /\ agents' \in [Names -> Nat] /\ wallets' \in [Names -> Nat]
      /\ StorageTypeOK'
  BY <1>1, RowsTyped DEF StorageTypeOK
<1>6. users \in [Names -> User]
  BY RowsTyped
<1>7. q.first \in BOOLEAN
  BY <1>3 DEF Request
<1>8. /\ p = (IF q.op = "wallet" THEN "wallet" ELSE IF q.first THEN "assign" ELSE "testHome")
      /\ p \in PCs \ {"idle"} /\ p \notin {"adminRole", "userRole", "permission", "count"}
      /\ (p = "assign" => q.first)
      /\ (q.op = "register" => p \in RegisterPCs) /\ (q.op = "wallet" => p \in WalletPCs)
  BY <1>2, <1>7 DEF AfterUser, PCs, RegisterPCs, WalletPCs
<1> HIDE DEF p
<1>9. CASE Exists(q.name) /\ Goto(r, "rejected") /\ users' = users
  <2>1. "rejected" \in PCs \ {"idle"} /\ "rejected" \in RegisterPCs /\ "rejected" \in WalletPCs
    BY DEF PCs, RegisterPCs, WalletPCs
  <2>2. users' \in [Names -> User]
    BY <1>6, <1>9
  <2>3. IInv' /\ Proceeds(r, "rejected")
    BY <1>1, <1>2, <1>5, <1>9, <2>1, <2>2, ProceedsKeepsTypes DEF UsersStay, Exists
  <2>4. QED
    BY <1>1, <1>2, <1>9, <2>3
<1>10. CASE ~Exists(q.name) /\ users' = [users EXCEPT ![q.name] = NewUser(r, q)] /\ Goto(r, p)
  <2>1. users' \in [Names -> User]
    BY <1>4, <1>6, <1>10
  <2>2. UsersStay
    BY <1>4, <1>6, <1>10 DEF UsersStay, Exists
  <2>3. IInv' /\ Proceeds(r, p)
    BY <1>1, <1>2, <1>5, <1>8, <1>10, <2>1, <2>2, ProceedsKeepsTypes
  <2>4. QED
    BY <1>1, <1>2, <1>4, <1>8, <1>10, <2>3
<1>11. QED
  BY <1>1, <1>9, <1>10

LEMMA AssignRoleGoes ==
    ASSUME IInv, NEW r \in Requests, AssignRole(r)
    PROVE  /\ IInv' /\ At(r, "assign") /\ run[r].op = "register" /\ run[r].first
           /\ UNCHANGED <<users, roles, permissions, dirs, files, disk, agents, wallets, overlapped, faults>>
           /\ Proceeds(r, "testHome")
           /\ assigned' = IF "admin" \in roles THEN assigned \cup {run[r].name} ELSE assigned
<1>1. /\ At(r, "assign") /\ Goto(r, "testHome")
      /\ UNCHANGED <<users, roles, permissions, dirs, files, disk, agents, wallets, overlapped, faults>>
      /\ assigned' = IF "admin" \in roles THEN assigned \cup {run[r].name} ELSE assigned
  BY DEF AssignRole
<1>2. /\ run[r].op = "register" /\ run[r].op \in AuthOps /\ run[r].op \notin UserOps
      /\ run[r].name \in Names
  BY <1>1, PointTells DEF At, AuthOps, UserOps, ProfileOps
<1>3. run[r].first
  BY <1>1, <1>2, PointTells DEF AuthFits, At, StorageOps
<1>4. /\ users' \in [Names -> User] /\ roles' \subseteq Roles /\ permissions' \in [Roles -> Nat]
      /\ agents' \in [Names -> Nat] /\ wallets' \in [Names -> Nat] /\ StorageTypeOK'
      /\ assigned' \subseteq Names
  BY <1>1, <1>2, RowsTyped DEF StorageTypeOK
<1>5. "testHome" \in PCs \ {"idle"} /\ "testHome" \in RegisterPCs
  BY DEF PCs, RegisterPCs
<1>6. IInv' /\ Proceeds(r, "testHome")
  BY <1>1, <1>2, <1>3, <1>4, <1>5, ProceedsKeepsTypes DEF UsersStay, Exists
<1>7. QED
  BY <1>1, <1>2, <1>3, <1>6

\* The actions on the two directories go on to a point of theirs
DirPoint(p) == p \in {"testHome", "saveHome", "share", "testShare", "saveShare", "link", "done", "rejected"}

LEMMA DirStepTypes ==
    ASSUME IInv, NEW r \in Requests, NEW p, DirPoint(p), Goto(r, p),
           run[r].op \in AuthOps, run[r].op = "register" => p # "share",
           run[r].op = "wallet" => p # "link",
           UNCHANGED <<own, files, disk, overlapped, faults>>, StorageTypeOK'
    PROVE  IInv' /\ Proceeds(r, p)
<1>1. /\ p \in PCs \ {"idle"} /\ p \notin {"adminRole", "userRole", "permission", "assign", "count"}
      /\ run[r].op \notin UserOps
      /\ (run[r].op = "register" => p \in RegisterPCs) /\ (run[r].op = "wallet" => p \in WalletPCs)
  BY DEF DirPoint, PCs, RegisterPCs, WalletPCs, AuthOps, UserOps, ProfileOps
<1>2. /\ users' \in [Names -> User] /\ roles' \subseteq Roles /\ permissions' \in [Roles -> Nat]
      /\ agents' \in [Names -> Nat] /\ wallets' \in [Names -> Nat] /\ assigned' \subseteq Names
      /\ overlapped' = overlapped /\ faults' = faults /\ UsersStay
  BY RowsTyped DEF own, UsersStay, Exists
<1>3. QED
  BY <1>1, <1>2, ProceedsKeepsTypes

LEMMA FindDirGoes ==
    ASSUME IInv, NEW r \in Requests, NEW kind \in Kinds, FindDir(r, kind)
    PROVE  /\ IInv' /\ run[r].op = "wallet" /\ UNCHANGED <<rows, overlapped, faults>>
           /\ Proceeds(r, IF RootDirs(run[r].name, kind) # {}
                          THEN IF kind = "home" THEN "share" ELSE "done"
                          ELSE IF kind = "home" THEN "testHome" ELSE "testShare")
<1>1. At(r, kind) /\ kind \in {"home", "share"}
  BY DEF FindDir, Kinds
<1>2. run[r].op = "wallet" /\ run[r].op \in AuthOps /\ run[r].op # "register"
  BY <1>1, PointTells DEF At, AuthOps
<1> DEFINE p == IF RootDirs(run[r].name, kind) # {}
                THEN IF kind = "home" THEN "share" ELSE "done"
                ELSE IF kind = "home" THEN "testHome" ELSE "testShare"
<1>3. Goto(r, p) /\ UNCHANGED <<rows, overlapped, faults>>
  BY <1>1, <1>2 DEF FindDir, NextDir
<1>4. DirPoint(p) /\ p # "link"
  BY DEF DirPoint
<1> HIDE DEF p
<1>5. UNCHANGED <<own, files, disk, overlapped, faults>> /\ StorageTypeOK'
  BY <1>3, RowsTyped DEF rows, StorageTypeOK
<1>6. IInv' /\ Proceeds(r, p)
  BY <1>2, <1>3, <1>4, <1>5, DirStepTypes
<1>7. QED
  BY <1>2, <1>3, <1>6 DEF p

LEMMA TestDirGoes ==
    ASSUME IInv, NEW r \in Requests, NEW kind \in Kinds, TestDir(r, kind)
    PROVE  /\ IInv' /\ run[r].op \in AuthOps /\ UNCHANGED <<rows, overlapped, faults>>
           /\ At(r, IF kind = "home" THEN "testHome" ELSE "testShare")
           /\ \/ /\ RootDirs(run[r].name, kind) = {}
                 /\ Proceeds(r, IF kind = "home" THEN "saveHome" ELSE "saveShare")
              \/ Proceeds(r, IF run[r].op = "register" THEN "rejected" ELSE "done")
<1>1. At(r, IF kind = "home" THEN "testHome" ELSE "testShare") /\ kind \in {"home", "share"}
  BY DEF TestDir, Kinds
<1>2. run[r].op \in AuthOps
  BY <1>1, PointTells DEF At
<1> DEFINE p == IF RootDirs(run[r].name, kind) = {}
                THEN IF kind = "home" THEN "saveHome" ELSE "saveShare"
                ELSE IF run[r].op = "register" THEN "rejected" ELSE "done"
<1>3. Goto(r, p) /\ UNCHANGED <<rows, overlapped, faults>>
  BY DEF TestDir
<1>4. DirPoint(p) /\ p # "link" /\ p # "share"
  BY DEF DirPoint
<1> HIDE DEF p
<1>5. UNCHANGED <<own, files, disk, overlapped, faults>> /\ StorageTypeOK'
  BY <1>3, RowsTyped DEF rows, StorageTypeOK
<1>6. IInv' /\ Proceeds(r, p)
  BY <1>2, <1>3, <1>4, <1>5, DirStepTypes
<1>7. QED
  BY <1>1, <1>2, <1>3, <1>6 DEF p

LEMMA SaveDirGoes ==
    ASSUME IInv, NEW r \in Requests, NEW kind \in Kinds, SaveDir(r, kind)
    PROVE  /\ IInv' /\ run[r].op \in AuthOps /\ run[r].name \in Names
           /\ UNCHANGED <<own, files, disk, overlapped, faults>>
           /\ At(r, IF kind = "home" THEN "saveHome" ELSE "saveShare")
           /\ dirs' = Append(dirs, [user |-> run[r].name, label |-> kind, parent |-> Root])
           /\ Proceeds(r, IF kind = "home" THEN IF run[r].op = "register" THEN "testShare" ELSE "share"
                          ELSE IF run[r].op = "register" THEN "link" ELSE "done")
<1>1. At(r, IF kind = "home" THEN "saveHome" ELSE "saveShare") /\ kind \in {"home", "share"}
  BY DEF SaveDir, Kinds
<1>2. run[r].op \in AuthOps
  BY <1>1, PointTells DEF At
<1>3. run[r].name \in Names /\ run[r].op # "none"
  BY <1>2, PointTells DEF AuthOps
<1> DEFINE p == IF kind = "home" THEN IF run[r].op = "register" THEN "testShare" ELSE "share"
                ELSE IF run[r].op = "register" THEN "link" ELSE "done"
<1>4. /\ Goto(r, p) /\ UNCHANGED <<own, files, disk, overlapped, faults>>
      /\ dirs' = Append(dirs, [user |-> run[r].name, label |-> kind, parent |-> Root])
  BY <1>1 DEF SaveDir, NextDir, InsertDir
<1>5. DirPoint(p) /\ (run[r].op = "register" => p # "share") /\ (run[r].op = "wallet" => p # "link")
  BY DEF DirPoint
<1> HIDE DEF p
<1>6. [user |-> run[r].name, label |-> kind, parent |-> Root] \in Dir
  BY <1>3 DEF Dir, Labels, Root
<1>7. StorageTypeOK'
  BY <1>4, <1>6, RowsTyped DEF StorageTypeOK
<1>8. IInv' /\ Proceeds(r, p)
  BY <1>2, <1>4, <1>5, <1>7, DirStepTypes
<1>9. QED
  BY <1>1, <1>2, <1>3, <1>4, <1>8 DEF p

LEMMA LinkDirsGoes ==
    ASSUME IInv, NEW r \in Requests, LinkDirs(r)
    PROVE  /\ IInv' /\ At(r, "link") /\ run[r].op = "register" /\ run[r].name \in Names
           /\ UNCHANGED <<roles, permissions, assigned, dirs, files, disk, agents, wallets, overlapped, faults>>
           /\ Proceeds(r, "agent")
           /\ users' = [users EXCEPT ![run[r].name] = [NewUser(r, run[r]) EXCEPT !.linked = TRUE]]
           /\ LET u == [NewUser(r, run[r]) EXCEPT !.linked = TRUE] IN
              u # NoUser /\ u.linked /\ u.password = r /\ u.isAdmin = run[r].first
<1> DEFINE u == [NewUser(r, run[r]) EXCEPT !.linked = TRUE]
<1>1. /\ At(r, "link") /\ Goto(r, "agent") /\ users' = [users EXCEPT ![run[r].name] = u]
      /\ UNCHANGED <<roles, permissions, assigned, dirs, files, disk, agents, wallets, overlapped, faults>>
  BY DEF LinkDirs
<1>2. /\ run[r].op = "register" /\ run[r].op \in AuthOps /\ run[r].op \notin UserOps
      /\ run[r].name \in Names /\ run[r] \in Request
  BY <1>1, PointTells DEF At, AuthOps, UserOps, ProfileOps, StorageOps
<1>3. u \in User /\ u # NoUser /\ u.linked /\ u.password = r /\ u.isAdmin = run[r].first
  <2> DEFINE w == NewUser(r, run[r])
  <2>1. w \in UserRow /\ w.password = r /\ w.isAdmin = run[r].first
    BY <1>2 DEF NewUser, UserRow, Request, Roles
  <2> HIDE DEF w
  <2>2. u = [w EXCEPT !.linked = TRUE]
    BY DEF w
  <2>3. u \in UserRow /\ u.linked /\ u.password = w.password /\ u.isAdmin = w.isAdmin
    BY <2>1, <2>2 DEF UserRow
  <2>4. QED
    BY <2>1, <2>3, UserRows
<1> HIDE DEF u
<1>4. /\ users' \in [Names -> User] /\ roles' \subseteq Roles /\ permissions' \in [Roles -> Nat]
      /\ agents' \in [Names -> Nat] /\ wallets' \in [Names -> Nat] /\ StorageTypeOK'
      /\ assigned' \subseteq Names
  BY <1>1, <1>3, RowsTyped DEF StorageTypeOK
<1>5. "agent" \in PCs \ {"idle"} /\ "agent" \in RegisterPCs
  BY DEF PCs, RegisterPCs
<1>6. IInv' /\ Proceeds(r, "agent")
  <2>1. UsersStay
    BY <1>1, <1>3, RowsTyped DEF UsersStay, Exists
  <2>2. QED
    BY <1>1, <1>2, <1>4, <1>5, <2>1, ProceedsKeepsTypes
<1>7. QED
  BY <1>1, <1>2, <1>3, <1>6 DEF u

LEMMA CreateAgentGoes ==
    ASSUME IInv, NEW r \in Requests, CreateAgent(r)
    PROVE  /\ IInv' /\ At(r, "agent") /\ run[r].op = "register" /\ run[r].name \in Names
           /\ UNCHANGED <<users, roles, permissions, assigned, dirs, files, disk, wallets, overlapped, faults>>
           /\ Proceeds(r, "done")
           /\ agents' = [agents EXCEPT ![run[r].name] = @ + 1]
<1>1. /\ At(r, "agent") /\ Goto(r, "done") /\ agents' = [agents EXCEPT ![run[r].name] = @ + 1]
      /\ UNCHANGED <<users, roles, permissions, assigned, dirs, files, disk, wallets, overlapped, faults>>
  BY DEF CreateAgent
<1>2. /\ run[r].op = "register" /\ run[r].op \in AuthOps /\ run[r].op \notin UserOps
      /\ run[r].name \in Names
  BY <1>1, PointTells DEF At, AuthOps, UserOps, ProfileOps
<1>3. /\ users' \in [Names -> User] /\ roles' \subseteq Roles /\ permissions' \in [Roles -> Nat]
      /\ agents' \in [Names -> Nat] /\ wallets' \in [Names -> Nat] /\ StorageTypeOK'
      /\ assigned' \subseteq Names
  BY <1>1, <1>2, RowsTyped DEF StorageTypeOK
<1>4. "done" \in PCs \ {"idle"} /\ "done" \in RegisterPCs
  BY DEF PCs, RegisterPCs
<1>5. IInv' /\ Proceeds(r, "done")
  BY <1>1, <1>2, <1>3, <1>4, ProceedsKeepsTypes DEF UsersStay, Exists, rows, own
<1>6. QED
  BY <1>1, <1>2, <1>5

LEMMA CreateWalletGoes ==
    ASSUME IInv, NEW r \in Requests, CreateWallet(r)
    PROVE  /\ IInv' /\ At(r, "wallet") /\ run[r].op = "wallet"
           /\ UNCHANGED <<users, roles, permissions, assigned, dirs, files, disk, agents, overlapped, faults>>
           /\ Proceeds(r, "rejected")
<1>1. /\ At(r, "wallet") /\ Goto(r, "rejected")
      /\ \/ wallets' = [wallets EXCEPT ![run[r].name] = @ + 1]
         \/ wallets' = wallets
      /\ UNCHANGED <<users, roles, permissions, assigned, dirs, files, disk, agents, overlapped, faults>>
  BY DEF CreateWallet
<1>2. /\ run[r].op = "wallet" /\ run[r].op \in AuthOps /\ run[r].op \notin UserOps
      /\ run[r].name \in Names /\ run[r].op # "register"
  BY <1>1, PointTells DEF At, AuthOps, UserOps, ProfileOps
<1>3. /\ users' \in [Names -> User] /\ roles' \subseteq Roles /\ permissions' \in [Roles -> Nat]
      /\ agents' \in [Names -> Nat] /\ StorageTypeOK'
      /\ assigned' \subseteq Names
  BY <1>1, <1>2, RowsTyped DEF StorageTypeOK
<1>4. wallets' \in [Names -> Nat]
  BY <1>1, <1>2, RowsTyped
<1>5. "rejected" \in PCs \ {"idle"} /\ "rejected" \in WalletPCs
  BY DEF PCs, WalletPCs
<1>6. IInv' /\ Proceeds(r, "rejected")
  BY <1>1, <1>2, <1>3, <1>4, <1>5, ProceedsKeepsTypes DEF UsersStay, Exists
<1>7. QED
  BY <1>1, <1>2, <1>6

LEMMA LogInGoes ==
    ASSUME IInv, NEW r \in Requests, LogIn(r)
    PROVE  /\ IInv' /\ run[r].op = "login" /\ UNCHANGED <<rows, overlapped, faults>>
           /\ Proceeds(r, "done")
<1>1. At(r, "log") /\ Goto(r, "done") /\ UNCHANGED <<rows, overlapped, faults>>
  BY DEF LogIn
<1>2. /\ run[r].op = "login" /\ run[r].op \in UserOps /\ run[r].op \notin AuthOps
  BY <1>1, PointTells DEF At, AuthOps, UserOps, ProfileOps
<1>3. /\ users' \in [Names -> User] /\ roles' \subseteq Roles /\ permissions' \in [Roles -> Nat]
      /\ agents' \in [Names -> Nat] /\ wallets' \in [Names -> Nat] /\ StorageTypeOK'
      /\ assigned' \subseteq Names
  BY <1>1, RowsTyped DEF StorageTypeOK, rows, own
<1>4. "done" \in PCs \ {"idle"} /\ run[r].op # "register" /\ run[r].op # "wallet"
  BY <1>2 DEF PCs
<1>5. IInv' /\ Proceeds(r, "done")
  BY <1>1, <1>2, <1>3, <1>4, ProceedsKeepsTypes DEF UsersStay, Exists, rows, own
<1>6. QED
  BY <1>1, <1>2, <1>5

LEMMA SavePasswordGoes ==
    ASSUME IInv, NEW r \in Requests, SavePassword(r)
    PROVE  /\ IInv' /\ At(r, "password") /\ run[r].op = "changePassword" /\ run[r].name \in Names
           /\ UNCHANGED <<roles, permissions, assigned, dirs, files, disk, agents, wallets, overlapped, faults>>
           /\ Proceeds(r, "done")
           /\ \E u \in User :
                 /\ users' = [users EXCEPT ![run[r].name] = u]
                 /\ u.isAdmin = users[run[r].name].isAdmin /\ u.linked = users[run[r].name].linked
                 /\ u.password = r /\ u # NoUser
<1> DEFINE q == run[r]
           u == [users[q.name] EXCEPT !.password = r]
<1>1. /\ At(r, "password") /\ Goto(r, "done") /\ users' = [users EXCEPT ![q.name] = u]
      /\ UNCHANGED <<roles, permissions, assigned, dirs, files, disk, agents, wallets, overlapped, faults>>
  BY DEF SavePassword
<1>2. /\ q.op = "changePassword" /\ q.op \in UserOps /\ q.op \notin AuthOps
      /\ q.op # "register" /\ q.op # "wallet" /\ q.name \in Names
  BY <1>1, PointTells DEF At, AuthOps, UserOps, ProfileOps
<1>3. users[q.name] \in User /\ users[q.name] # NoUser
  BY <1>1, <1>2, RowsTyped DEF IInv, Known, Exists, At
<1>4. /\ u.isAdmin = users[q.name].isAdmin /\ u.linked = users[q.name].linked
      /\ u.password = r /\ u # NoUser /\ u \in User
  <2>1. \A w \in UserRow : LET v == [w EXCEPT !.password = r] IN
            v \in UserRow /\ v.isAdmin = w.isAdmin /\ v.linked = w.linked /\ v.password = r
    BY DEF UserRow
  <2>2. QED
    BY <1>3, <2>1, UserRows
<1> HIDE DEF u
<1>5. /\ users' \in [Names -> User] /\ roles' \subseteq Roles /\ permissions' \in [Roles -> Nat]
      /\ agents' \in [Names -> Nat] /\ wallets' \in [Names -> Nat] /\ StorageTypeOK'
      /\ assigned' \subseteq Names
  BY <1>1, <1>4, RowsTyped DEF StorageTypeOK
<1>6. UsersStay
  BY <1>1, <1>4, RowsTyped DEF UsersStay, Exists
<1>7. "done" \in PCs \ {"idle"}
  BY DEF PCs
<1>8. IInv' /\ Proceeds(r, "done")
  BY <1>1, <1>2, <1>5, <1>6, <1>7, ProceedsKeepsTypes
<1>9. QED
  BY <1>1, <1>2, <1>4, <1>8

LEMMA SaveProfileGoes ==
    ASSUME IInv, NEW r \in Requests, SaveProfile(r)
    PROVE  /\ IInv' /\ At(r, "profile") /\ run[r].op \in ProfileOps /\ run[r].name \in Names
           /\ UNCHANGED <<roles, permissions, assigned, dirs, files, disk, agents, wallets, overlapped, faults>>
           /\ Advances(r, "done") /\ users' = [users EXCEPT ![run[r].name] = run[r].row]
           /\ run[r].row \in User /\ run[r].row # NoUser
<1> DEFINE q == run[r]
           n == [q EXCEPT !.pc = "done", !.row = NoUser]
<1>1. /\ At(r, "profile") /\ users' = [users EXCEPT ![q.name] = q.row]
      /\ run' = [run EXCEPT ![r].pc = "done", ![r].row = NoUser]
      /\ UNCHANGED <<roles, permissions, assigned, dirs, files, disk, agents, wallets, overlapped, faults>>
  BY DEF SaveProfile
<1>2. /\ q.op \in ProfileOps /\ q.op \in UserOps /\ q.op \notin StorageOps /\ q.name \in Names
  BY <1>1, PointTells DEF At, StorageOps, UserOps, ProfileOps
<1>3. q \in Request /\ AuthFits(q) /\ q.pc = "profile"
  BY <1>1, <1>2, PointTells DEF At
<1>4. DOMAIN run = Requests
  BY DEF IInv, TypeOK
<1>5. Others(r) /\ run'[r] = n
  BY <1>1, <1>4 DEF Others
<1> HIDE DEF q
<1>6. n \in Request /\ n.op = q.op /\ n.name = q.name /\ n.pc = "done"
  BY <1>3, NoUserTyped DEF Request, PCs
<1> HIDE DEF n
<1>7. AuthFits(n)
  BY <1>2, <1>6 DEF AuthFits, ProfileOps
<1>8. q.row \in User /\ q.row # NoUser
  BY <1>3 DEF Request, AuthFits
<1>9. users' \in [Names -> User] /\ UsersStay
  BY <1>1, <1>2, <1>8, RowsTyped DEF UsersStay, Exists
<1>10. /\ roles' \subseteq Roles /\ permissions' \in [Roles -> Nat]
       /\ assigned' \subseteq Names /\ agents' \in [Names -> Nat] /\ wallets' \in [Names -> Nat]
       /\ StorageTypeOK' /\ overlapped' \subseteq Names /\ faults' \in 0..MaxFaults
  BY <1>1 DEF IInv, TypeOK, StorageTypeOK
<1>11. IInv'
  BY <1>5, <1>6, <1>7, <1>9, <1>10, AuthTypesKept
<1>12. QED
  BY <1>1, <1>2, <1>5, <1>6, <1>8, <1>11 DEF Advances, q

\* A call of the storage is answered
LEMMA AnswerGoes ==
    ASSUME IInv, NEW r \in Requests, run[r].op \in StorageOps,
           NEW p \in {"done", "rejected"}, Answer(r, p)
    PROVE  Advances(r, p) /\ run'[r] \in StorageAnswer
<1> DEFINE q == [op |-> run[r].op, name |-> run[r].name, pc |-> p]
<1>1. DOMAIN run = Requests
  BY DEF IInv, TypeOK
<1>2. Others(r) /\ run'[r] = q
  BY <1>1 DEF Answer, Others
<1>3. run[r].name \in Names
  BY PointTells DEF StorageOps
<1>4. q \in StorageAnswer
  BY <1>3 DEF StorageAnswer
<1>5. QED
  BY <1>2, <1>4 DEF Advances

LEMMA QueryFailsGoes ==
    ASSUME IInv, NEW r \in Requests, QueryFails(r)
    PROVE  /\ IInv' /\ UNCHANGED <<rows, overlapped>> /\ faults' # 0 /\ Live(r)
           /\ \E p \in {"done", "rejected"} :
                 /\ Advances(r, p)
                 /\ run[r].op = "register" => p = "rejected"
           /\ (run'[r] \in Request /\ run[r].op \notin StorageOps) \/ run'[r] \in StorageAnswer
<1>1. /\ UNCHANGED <<rows, overlapped>> /\ Live(r) /\ faults' = faults + 1 /\ faults < MaxFaults
      /\ IF run[r].op \in StorageOps THEN Answer(r, "rejected")
         ELSE run' = [run EXCEPT ![r].row = NoUser,
                        ![r].pc = IF run[r].op = "wallet" /\ @ \notin {"count", "user", "wallet"}
                                  THEN "done" ELSE "rejected"]
  BY DEF QueryFails
<1>2. faults \in 0 .. MaxFaults /\ MaxFaults \in Nat
  BY AccountsAssumption DEF IInv, TypeOK, AccountsAssumption
<1>3. faults' \in 0 .. MaxFaults /\ faults' # 0
  BY <1>1, <1>2
<1>4. /\ users' \in [Names -> User] /\ roles' \subseteq Roles /\ permissions' \in [Roles -> Nat]
      /\ assigned' \subseteq Names /\ agents' \in [Names -> Nat] /\ wallets' \in [Names -> Nat]
      /\ StorageTypeOK' /\ overlapped' \subseteq Names /\ UsersStay
  BY <1>1 DEF IInv, TypeOK, StorageTypeOK, UsersStay, Exists, rows, own
<1>5. CASE run[r].op \in StorageOps
  <2>1. Advances(r, "rejected") /\ run'[r] \in StorageAnswer
    BY <1>1, <1>5, AnswerGoes
  <2>2. IInv'
    BY <1>3, <1>4, <2>1, TypesKept DEF Fits, Advances
  <2>3. QED
    BY <1>1, <1>3, <2>1, <2>2
<1>6. CASE run[r].op \notin StorageOps
  <2> DEFINE q == run[r]
             p == IF q.op = "wallet" /\ q.pc \notin {"count", "user", "wallet"} THEN "done" ELSE "rejected"
             n == [q EXCEPT !.row = NoUser, !.pc = p]
  <2>1. DOMAIN run = Requests
    BY DEF IInv, TypeOK
  <2>2. q \in Request /\ AuthFits(q)
    BY <1>6, PointTells
  <2>3. Others(r) /\ run'[r] = n
    <3>1. run' = [run EXCEPT ![r].row = NoUser,
                        ![r].pc = IF run[r].op = "wallet" /\ @ \notin {"count", "user", "wallet"}
                                  THEN "done" ELSE "rejected"]
      BY <1>1, <1>6
    <3>2. run'[r].pc = p /\ Others(r) /\ run'[r] = n
      BY <2>1, <2>2, <3>1 DEF Others, Request
    <3>3. QED
      BY <3>2
  <2>4. p \in {"done", "rejected"} /\ (q.op = "register" => p = "rejected")
    OBVIOUS
  <2>5. q.op # "none" /\ q.name \in Names
    BY <1>1, <2>2 DEF Live, Ended, AuthFits
  <2> HIDE DEF q, p
  <2>6. n \in Request /\ n.op = q.op /\ n.name = q.name /\ n.pc = p
    BY <2>2, <2>4, NoUserTyped DEF Request, PCs
  <2> HIDE DEF n
  <2>7. AuthFits(n)
    BY <2>4, <2>5, <2>6 DEF AuthFits, RegisterPCs, WalletPCs
  <2>8. IInv'
    BY <1>3, <1>4, <2>3, <2>4, <2>6, <2>7, AuthTypesKept
  <2>9. QED
    BY <1>1, <1>3, <1>6, <2>3, <2>4, <2>6, <2>8 DEF Advances, q
<1>7. QED
  BY <1>5, <1>6

-----------------------------------------------------------------------------
(* The lists of work of a removal *)

LEMMA SequenceOfSet ==
    ASSUME NEW S, IsFiniteSet(S)
    PROVE  SetToSeq(S) \in [1 .. Cardinality(S) -> S] /\ SetToSeq(S) \in Seq(S)
<1>1. Cardinality(S) \in Nat /\ ExistsBijection(1 .. Cardinality(S), S)
  BY FS_CardinalityType
<1>2. PICK g : g \in [1 .. Cardinality(S) -> S] /\ IsInjective(g)
  <2>1. Bijection(1 .. Cardinality(S), S) # {}
    BY <1>1 DEF ExistsBijection
  <2>2. QED
    BY <2>1 DEF Bijection, Injection, IsInjective
<1>3. SetToSeq(S) \in [1 .. Cardinality(S) -> S]
  <2>1. \E f \in [1 .. Cardinality(S) -> S] : IsInjective(f)
    BY <1>2
  <2>2. QED
    BY <2>1, Zenon DEF SetToSeq
<1>4. QED
  BY <1>1, <1>3, SeqDef

LEMMA WorkTyped ==
    ASSUME NEW kind \in {"dir", "files", "drop", "file", "row"}, NEW ids \in SUBSET Nat, IsFiniteSet(ids)
    PROVE  Work(kind, ids) \in Seq(Item) /\ (ids # {} => Work(kind, ids) # <<>>)
<1> DEFINE T == {[kind |-> kind, id |-> i] : i \in ids}
           f == [i \in ids |-> [kind |-> kind, id |-> i]]
<1>1. f \in Surjection(ids, T)
  BY DEF Surjection
<1>2. IsFiniteSet(T)
  BY <1>1, FS_Surjection
<1>3. SetToSeq(T) \in Seq(T) /\ SetToSeq(T) \in [1 .. Cardinality(T) -> T]
  BY <1>2, SequenceOfSet
<1>4. T \subseteq Item
  BY DEF Item
<1>5. ASSUME ids # {} PROVE SetToSeq(T) # <<>>
  <2>1. T # {} /\ Cardinality(T) # 0 /\ Cardinality(T) \in Nat
    BY <1>2, <1>5, FS_EmptySet, FS_CardinalityType
  <2>2. DOMAIN SetToSeq(T) = 1 .. Cardinality(T)
    BY <1>3
  <2>3. QED
    BY <2>1, <2>2
<1> HIDE DEF T
<1>6. SetToSeq(T) \in Seq(Item)
  BY <1>3, <1>4, SeqMonotonic
<1>7. QED
  BY <1>5, <1>6 DEF Work, T

LEMMA WorkOfOne ==
    ASSUME NEW kind \in {"dir", "files", "drop", "file", "row"}, NEW i \in Nat
    PROVE  Work(kind, {i}) \in Seq(Item) /\ Work(kind, {i}) = <<[kind |-> kind, id |-> i]>>
<1> DEFINE e == [kind |-> kind, id |-> i]
<1>1. IsFiniteSet({e}) /\ Cardinality({e}) = 1 /\ IsFiniteSet({i})
  BY FS_Singleton
<1>2. SetToSeq({e}) \in [1 .. 1 -> {e}]
  BY <1>1, SequenceOfSet
<1>3. SetToSeq({e}) = <<e>>
  BY <1>2
<1>4. {[kind |-> kind, id |-> j] : j \in {i}} = {e}
  OBVIOUS
<1>5. Work(kind, {i}) = <<e>>
  BY <1>3, <1>4 DEF Work
<1>6. QED
  BY <1>1, <1>5, WorkTyped

LEMMA IdsFinite ==
    ASSUME IInv
    PROVE  /\ \A d \in Nat : /\ SubDirs(d) \subseteq Nat /\ IsFiniteSet(SubDirs(d))
                             /\ FilesIn(d) \subseteq Nat /\ IsFiniteSet(FilesIn(d))
           /\ DirRows \subseteq Nat /\ FileRows \subseteq Nat
           /\ \A d \in DirRows : dirs[d] \in Dir
           /\ \A f \in FileRows : files[f] \in File
<1>1. dirs \in Seq(Dir \cup {NoDir}) /\ files \in Seq(File \cup {NoFile})
  BY DEF IInv, TypeOK, StorageTypeOK
<1>2. /\ DOMAIN dirs = 1 .. Len(dirs) /\ Len(dirs) \in Nat
      /\ DOMAIN files = 1 .. Len(files) /\ Len(files) \in Nat
  BY <1>1, LenProperties
<1>3. IsFiniteSet(1 .. Len(dirs)) /\ IsFiniteSet(1 .. Len(files))
  BY <1>2, FS_Interval
<1>4. DirRows \subseteq 1 .. Len(dirs) /\ FileRows \subseteq 1 .. Len(files)
  BY <1>2 DEF DirRows, FileRows
<1>5. ASSUME NEW d \in Nat
      PROVE  IsFiniteSet(SubDirs(d)) /\ IsFiniteSet(FilesIn(d))
  <2>1. SubDirs(d) \in SUBSET (1 .. Len(dirs)) /\ FilesIn(d) \in SUBSET (1 .. Len(files))
    BY <1>4 DEF SubDirs, FilesIn
  <2>2. QED
    BY <1>3, <2>1, FS_Subset
<1>6. \A d \in DirRows : dirs[d] \in Dir
  BY <1>1, <1>2 DEF DirRows
<1>7. \A f \in FileRows : files[f] \in File
  BY <1>1, <1>2 DEF FileRows
<1>8. DirRows \subseteq Nat /\ FileRows \subseteq Nat
  BY <1>4
<1>9. \A d : SubDirs(d) \subseteq Nat /\ FilesIn(d) \subseteq Nat
  BY <1>8 DEF SubDirs, FilesIn
<1>10. QED
  BY <1>5, <1>6, <1>7, <1>8, <1>9

LEMMA DirIds ==
    ASSUME IInv
    PROVE  DOMAIN dirs \subseteq Nat \ {Root}
BY LenProperties DEF IInv, TypeOK, StorageTypeOK, Root

-----------------------------------------------------------------------------
(* What the actions of the storage do to the requests *)

\* What a step of the storage leaves to accounts
Beside == UNCHANGED <<own, faults>> /\ overlapped' \subseteq Names

LEMMA CallTypes ==
    ASSUME IInv, NEW r \in Requests, Beside, Others(r), StorageTypeOK',
           run'[r] \in StorageAnswer \/ (run'[r] \in StorageCall /\ CallFits(run'[r], r))
    PROVE  IInv'
<1>1. /\ users' \in [Names -> User] /\ roles' \subseteq Roles /\ permissions' \in [Roles -> Nat]
      /\ assigned' \subseteq Names /\ agents' \in [Names -> Nat] /\ wallets' \in [Names -> Nat]
      /\ overlapped' \subseteq Names /\ faults' \in 0 .. MaxFaults /\ UsersStay
  BY DEF IInv, TypeOK, UsersStay, Exists, own, Beside
<1>2. Fits(run'[r], r)
  BY DEF Fits
<1>3. run'[r].pc \notin {"password", "profile"}
  BY DEF StorageAnswer, StorageCall, StoragePCs
<1>4. QED
  BY <1>1, <1>2, <1>3, TypesKept

\* A call that goes on with what it has loaded
Stays(r, p) ==
    /\ Advances(r, p) /\ run'[r] \in StorageCall
    /\ run'[r].dir = run[r].dir /\ run'[r].label = run[r].label /\ run'[r].id = run[r].id
    /\ run'[r].row = run[r].row /\ run'[r].todo = run[r].todo

LEMMA CallGoes ==
    ASSUME IInv, NEW r \in Requests, NEW p \in StoragePCs, Goto(r, p), run[r] \in StorageCall
    PROVE  Stays(r, p)
<1> DEFINE q == run[r]
           n == [q EXCEPT !.pc = p]
<1>1. DOMAIN run = Requests
  BY DEF IInv, TypeOK
<1>2. Others(r) /\ run'[r] = n
  BY <1>1 DEF Goto, Others
<1>3. q \in StorageCall
  OBVIOUS
<1> HIDE DEF q
<1>4. /\ n \in StorageCall /\ n.op = q.op /\ n.name = q.name /\ n.pc = p /\ n.dir = q.dir
      /\ n.label = q.label /\ n.id = q.id /\ n.row = q.row /\ n.todo = q.todo
  BY <1>3 DEF StorageCall
<1>5. QED
  BY <1>2, <1>4 DEF Stays, Advances, q

\* A call that begins as q
LEMMA CallBegins ==
    ASSUME IInv, NEW r \in Requests, NEW q, run' = [run EXCEPT ![r] = q]
    PROVE  Others(r) /\ run'[r] = q
<1>1. DOMAIN run = Requests
  BY DEF IInv, TypeOK
<1>2. QED
  BY <1>1 DEF Others

LEMMA EmptyIsSeq == <<>> \in Seq(Item)
BY EmptySeq

\* What stands at a point of the storage
LEMMA CallAt ==
    ASSUME IInv, NEW r \in Requests, run[r].pc \in StoragePCs
    PROVE  /\ run[r].op \in StorageOps /\ run[r] \in StorageCall /\ CallFits(run[r], r)
           /\ run[r].name \in Names /\ run[r].dir \in Nat /\ run[r].label \in Labels /\ run[r].id \in Nat
           /\ run[r].todo \in Seq(Item)
<1>1. run[r].op \in StorageOps /\ run[r].pc \notin Ended
  BY PointTells DEF StoragePCs, Ended
<1>2. run[r] \in StorageCall /\ CallFits(run[r], r)
  BY <1>1, PointTells DEF Live
<1>3. QED
  BY <1>1, <1>2 DEF StorageCall

LEMMA CreateDirGoes ==
    ASSUME IInv, NEW r \in Requests, NEW n \in Names, CreateDir(r, n), Beside
    PROVE  /\ IInv' /\ Others(r) /\ run'[r].op = "createDir" /\ UNCHANGED <<dirs, files, disk>>
           /\ run'[r].pc \in {"testDir", "parent"} /\ run'[r].name = n
<1>1. PICK d \in DirRows \cup {Root}, l \in Labels :
          run' = [run EXCEPT ![r] = [op |-> "createDir", name |-> n, dir |-> d, label |-> l,
                     pc |-> IF d = Root THEN "testDir" ELSE "parent",
                     id |-> 0, row |-> NoDir, todo |-> <<>>]]
  BY DEF CreateDir, Begin
<1>2. UNCHANGED <<dirs, files, disk>>
  BY DEF CreateDir
<1> DEFINE q == [op |-> "createDir", name |-> n, dir |-> d, label |-> l,
                 pc |-> IF d = Root THEN "testDir" ELSE "parent",
                 id |-> 0, row |-> NoDir, todo |-> <<>>]
<1>3. Others(r) /\ run'[r] = q
  BY <1>1, CallBegins
<1>4. d \in Nat
  BY IdsFinite DEF Root
<1>5. q \in StorageCall /\ CallFits(q, r)
  BY <1>4, EmptyIsSeq DEF StorageCall, StorageOps, StoragePCs, CallFits
<1>6. StorageTypeOK'
  BY <1>2, RowsTyped DEF StorageTypeOK
<1>7. IInv'
  BY <1>3, <1>5, <1>6, CallTypes
<1>8. QED
  BY <1>2, <1>3, <1>7

LEMMA UploadGoes ==
    ASSUME IInv, NEW r \in Requests, NEW n \in Names, Upload(r, n), Beside
    PROVE  /\ IInv' /\ Others(r) /\ run'[r].op = "upload" /\ UNCHANGED <<dirs, files>>
           /\ disk' = disk \cup {[by |-> r, copied |-> FALSE]} /\ run'[r].name = n
           /\ run'[r].pc \in {"testFile", "rejected"}
<1>1. /\ UNCHANGED <<dirs, files>> /\ disk' = disk \cup {[by |-> r, copied |-> FALSE]}
      /\ \/ \E d \in DOMAIN dirs : Begin(r, "upload", n, d, "notes", "testFile")
         \/ run' = [run EXCEPT ![r] = [op |-> "upload", name |-> n, pc |-> "rejected"]]
  BY DEF Upload
<1>2. StorageTypeOK'
  <2>1. [by |-> r, copied |-> FALSE] \in Path
    BY DEF Path
  <2>2. QED
    BY <1>1, <2>1, RowsTyped DEF StorageTypeOK
<1>3. CASE \E d \in DOMAIN dirs : Begin(r, "upload", n, d, "notes", "testFile")
  <2>1. PICK d \in DOMAIN dirs :
            run' = [run EXCEPT ![r] = [op |-> "upload", name |-> n, dir |-> d, label |-> "notes",
                        pc |-> "testFile", id |-> 0, row |-> NoDir, todo |-> <<>>]]
    BY <1>3 DEF Begin
  <2> DEFINE q == [op |-> "upload", name |-> n, dir |-> d, label |-> "notes",
                   pc |-> "testFile", id |-> 0, row |-> NoDir, todo |-> <<>>]
  <2>2. Others(r) /\ run'[r] = q
    BY <2>1, CallBegins
  <2>3. d \in Nat
    BY DirIds
  <2>4. q \in StorageCall /\ CallFits(q, r)
    BY <2>3, EmptyIsSeq DEF StorageCall, StorageOps, StoragePCs, CallFits, Labels
  <2>5. IInv'
    BY <1>2, <2>2, <2>4, CallTypes
  <2>6. QED
    BY <1>1, <2>2, <2>5
<1>4. CASE run' = [run EXCEPT ![r] = [op |-> "upload", name |-> n, pc |-> "rejected"]]
  <2> DEFINE q == [op |-> "upload", name |-> n, pc |-> "rejected"]
  <2>1. Others(r) /\ run'[r] = q
    BY <1>4, CallBegins
  <2>2. q \in StorageAnswer
    BY DEF StorageAnswer, StorageOps
  <2>3. IInv'
    BY <1>2, <2>1, <2>2, CallTypes
  <2>4. QED
    BY <1>1, <2>1, <2>3
<1>5. QED
  BY <1>1, <1>3, <1>4

LEMMA LoadDirGoes ==
    ASSUME IInv, NEW r \in Requests, NEW n \in Names, NEW op, LoadDir(r, op, n), Beside
    PROVE  /\ IInv' /\ Others(r) /\ run'[r].op = op /\ op \in {"rename", "share"} /\ run'[r].name = n
           /\ UNCHANGED <<dirs, files, disk>>
           /\ run'[r].pc = IF op = "rename" THEN "testDir" ELSE "save"
           /\ run'[r].dir \in DirRows /\ run'[r].row = dirs[run'[r].dir] /\ run'[r].id = 0
<1>1. UNCHANGED <<dirs, files, disk>> /\ op \in {"rename", "share"}
  BY DEF LoadDir
<1>2. PICK d \in DirRows, l \in IF op = "rename" THEN Labels ELSE {"notes"} :
           run' = [run EXCEPT ![r] = [op |-> op, name |-> n, dir |-> d, label |-> l, id |-> 0,
                       pc |-> IF op = "rename" THEN "testDir" ELSE "save",
                       row |-> dirs[d], todo |-> <<>>]]
  BY DEF LoadDir
<1> DEFINE q == [op |-> op, name |-> n, dir |-> d, label |-> l, id |-> 0,
                 pc |-> IF op = "rename" THEN "testDir" ELSE "save",
                 row |-> dirs[d], todo |-> <<>>]
<1>3. Others(r) /\ run'[r] = q
  BY <1>2, CallBegins
<1>4. d \in Nat /\ dirs[d] \in Dir /\ l \in Labels
  BY IdsFinite DEF Labels
<1>5. q \in StorageCall /\ CallFits(q, r)
  BY <1>1, <1>4, EmptyIsSeq DEF StorageCall, StorageOps, StoragePCs, CallFits
<1>6. StorageTypeOK'
  BY <1>1, RowsTyped DEF StorageTypeOK
<1>7. IInv'
  BY <1>3, <1>5, <1>6, CallTypes
<1>8. QED
  BY <1>1, <1>3, <1>7

LEMMA LoadFileGoes ==
    ASSUME IInv, NEW r \in Requests, NEW n \in Names, LoadFile(r, n), Beside
    PROVE  /\ IInv' /\ Others(r) /\ run'[r].op = "share" /\ run'[r].name = n
           /\ UNCHANGED <<dirs, files, disk>> /\ run'[r].pc = "save" /\ run'[r].id # 0
<1>1. UNCHANGED <<dirs, files, disk>>
  BY DEF LoadFile
<1>2. PICK f \in FileRows :
           run' = [run EXCEPT ![r] = [op |-> "share", name |-> n, dir |-> Root, label |-> "notes",
                       id |-> f, pc |-> "save", row |-> files[f], todo |-> <<>>]]
  BY DEF LoadFile
<1> DEFINE q == [op |-> "share", name |-> n, dir |-> Root, label |-> "notes",
                 id |-> f, pc |-> "save", row |-> files[f], todo |-> <<>>]
<1>3. Others(r) /\ run'[r] = q
  BY <1>2, CallBegins
<1>4. f \in Nat /\ files[f] \in File
  BY IdsFinite
<1>5. f # 0
  BY LenProperties DEF FileRows, IInv, TypeOK, StorageTypeOK
<1>6. q \in StorageCall /\ CallFits(q, r)
  BY <1>4, <1>5, EmptyIsSeq DEF StorageCall, StorageOps, StoragePCs, CallFits, Labels, Root
<1>7. StorageTypeOK'
  BY <1>1, RowsTyped DEF StorageTypeOK
<1>8. IInv'
  BY <1>3, <1>6, <1>7, CallTypes
<1>9. QED
  BY <1>1, <1>3, <1>5, <1>8

LEMMA StartRemovalGoes ==
    ASSUME IInv, NEW r \in Requests, NEW n \in Names, NEW op, StartRemoval(r, op, n), Beside
    PROVE  /\ IInv' /\ Others(r) /\ run'[r].op = op /\ op \in {"removeFile", "removeDir"}
           /\ run'[r].name = n /\ UNCHANGED <<dirs, files, disk>>
           /\ run'[r].pc = "work" /\ Head(run'[r].todo).kind \in {"file", "dir"}
<1>1. UNCHANGED <<dirs, files, disk>> /\ op \in {"removeFile", "removeDir"}
  BY DEF StartRemoval
<1> DEFINE kind == IF op = "removeFile" THEN "file" ELSE "dir"
<1>2. PICK i \in IF op = "removeFile" THEN FileRows ELSE DOMAIN dirs :
           run' = [run EXCEPT ![r] = [op |-> op, name |-> n, dir |-> Root, label |-> "notes",
                       id |-> 0, pc |-> "work", row |-> NoDir, todo |-> Work(kind, {i})]]
  BY DEF StartRemoval
<1>3. i \in Nat
  BY IdsFinite, DirIds
<1>4. /\ Work(kind, {i}) \in Seq(Item) /\ Work(kind, {i}) # <<>>
      /\ Head(Work(kind, {i})).kind \in {"file", "dir"}
  <2>1. kind \in {"dir", "files", "drop", "file", "row"} /\ kind \in {"file", "dir"}
    OBVIOUS
  <2> HIDE DEF kind
  <2>2. Work(kind, {i}) \in Seq(Item) /\ Work(kind, {i}) = <<[kind |-> kind, id |-> i]>>
    BY <1>3, <2>1, WorkOfOne
  <2>3. QED
    BY <2>1, <2>2
<1> HIDE DEF kind
<1> DEFINE q == [op |-> op, name |-> n, dir |-> Root, label |-> "notes",
                 id |-> 0, pc |-> "work", row |-> NoDir, todo |-> Work(kind, {i})]
<1>5. Others(r) /\ run'[r] = q
  BY <1>2, CallBegins
<1>6. q \in StorageCall /\ CallFits(q, r)
  BY <1>1, <1>4 DEF StorageCall, StorageOps, StoragePCs, CallFits, Labels, Root
<1>7. StorageTypeOK'
  BY <1>1, RowsTyped DEF StorageTypeOK
<1>8. IInv'
  BY <1>5, <1>6, <1>7, CallTypes
<1>9. QED
  BY <1>1, <1>4, <1>5, <1>8

\* A row is written, if it is there
LEMMA RowWritten ==
    ASSUME NEW S, NEW s \in Seq(S), NEW i, NEW e \in S
    PROVE  /\ [s EXCEPT ![i] = e] \in Seq(S) /\ DOMAIN [s EXCEPT ![i] = e] = DOMAIN s
           /\ \A j \in DOMAIN s : [s EXCEPT ![i] = e][j] = IF j = i THEN e ELSE s[j]
<1>1. Len(s) \in Nat /\ s \in [1 .. Len(s) -> S] /\ DOMAIN s = 1 .. Len(s)
  BY LenProperties
<1>2. [s EXCEPT ![i] = e] \in [1 .. Len(s) -> S]
  BY <1>1
<1>3. [s EXCEPT ![i] = e] \in Seq(S)
  BY <1>1, <1>2, SeqDef
<1>4. QED
  BY <1>1, <1>3

\* A call that is answered, and leaves the rows
LEMMA AnswerTypes ==
    ASSUME IInv, NEW r \in Requests, run[r].op \in StorageOps, NEW p \in {"done", "rejected"},
           Answer(r, p), Beside, StorageTypeOK'
    PROVE  IInv' /\ Advances(r, p) /\ run'[r] \in StorageAnswer
BY AnswerGoes, CallTypes DEF Advances

\* A call that goes on
LEMMA StayTypes ==
    ASSUME IInv, NEW r \in Requests, NEW p \in StoragePCs \ {"work"}, run[r].pc \in StoragePCs \ {"work"},
           Goto(r, p), Beside, StorageTypeOK',
           run[r].op \in {"createDir", "rename"}, run[r].op = "rename" => p # "parent"
    PROVE  IInv' /\ Stays(r, p)
<1>1. run[r] \in StorageCall /\ CallFits(run[r], r)
  BY CallAt
<1>2. Stays(r, p)
  BY <1>1, CallGoes
<1>3. CallFits(run'[r], r)
  BY <1>1, <1>2 DEF CallFits, Stays, Advances, StoragePCs
<1>4. QED
  BY <1>2, <1>3, CallTypes DEF Stays, Advances

LEMMA RowsStay ==
    ASSUME IInv, UNCHANGED <<dirs, files, disk>>
    PROVE  StorageTypeOK'
BY RowsTyped DEF StorageTypeOK

LEMMA TestParentGoes ==
    ASSUME IInv, NEW r \in Requests, TestParent(r), Beside
    PROVE  /\ IInv' /\ UNCHANGED <<dirs, files, disk>> /\ run[r].op = "createDir" /\ Live(r)
           /\ Stays(r, "testDir") \/ (Advances(r, "rejected") /\ run'[r] \in StorageAnswer)
<1>1. /\ run[r].op = "createDir" /\ run[r].pc = "parent" /\ UNCHANGED <<dirs, files, disk>>
      /\ Goto(r, "testDir") \/ Answer(r, "rejected")
  BY DEF TestParent, Calls, At
<1>2. "parent" \in StoragePCs \ {"work"} /\ "testDir" \in StoragePCs \ {"work"} /\ Live(r)
      /\ run[r].op \in StorageOps
  BY <1>1 DEF StoragePCs, Live, Ended, StorageOps
<1>3. QED
  BY <1>1, <1>2, RowsStay, StayTypes, AnswerTypes

LEMMA TestDirNameGoes ==
    ASSUME IInv, NEW r \in Requests, TestDirName(r), Beside
    PROVE  /\ IInv' /\ UNCHANGED <<dirs, files, disk>> /\ run[r].op = "createDir" /\ Live(r)
           /\ \/ /\ Stays(r, "testFile")
                 /\ \A d \in SubDirs(run[r].dir) : ~(dirs[d].user = run[r].name /\ dirs[d].label = run[r].label)
              \/ Advances(r, "rejected") /\ run'[r] \in StorageAnswer
<1>1. /\ run[r].op = "createDir" /\ run[r].pc = "testDir" /\ UNCHANGED <<dirs, files, disk>>
      /\ \/ /\ Goto(r, "testFile")
            /\ \A d \in SubDirs(run[r].dir) : ~(dirs[d].user = run[r].name /\ dirs[d].label = run[r].label)
         \/ Answer(r, "rejected")
  BY DEF TestDirName, Calls, At
<1>2. "testFile" \in StoragePCs \ {"work"} /\ "testDir" \in StoragePCs \ {"work"} /\ Live(r)
      /\ run[r].op \in StorageOps
  BY <1>1 DEF StoragePCs, Live, Ended, StorageOps
<1>3. StorageTypeOK'
  BY <1>1, RowsStay
<1>4. ASSUME Goto(r, "testFile") PROVE IInv' /\ Stays(r, "testFile")
  BY <1>1, <1>2, <1>3, <1>4, StayTypes
<1>5. ASSUME Answer(r, "rejected") PROVE IInv' /\ Advances(r, "rejected") /\ run'[r] \in StorageAnswer
  BY <1>1, <1>2, <1>3, <1>5, AnswerTypes
<1>6. QED
  BY <1>1, <1>2, <1>4, <1>5

LEMMA TestFileNameGoes ==
    ASSUME IInv, NEW r \in Requests, TestFileName(r), Beside
    PROVE  /\ IInv' /\ UNCHANGED <<dirs, files, disk>> /\ run[r].op \in {"createDir", "rename"} /\ Live(r)
           /\ At(r, "testFile")
           /\ Stays(r, "save") \/ (Advances(r, "rejected") /\ run'[r] \in StorageAnswer)
<1>1. /\ run[r].op \in {"createDir", "rename"} /\ run[r].pc = "testFile" /\ UNCHANGED <<dirs, files, disk>>
      /\ Goto(r, "save") \/ Answer(r, "rejected")
  BY DEF TestFileName, At
<1>2. "testFile" \in StoragePCs \ {"work"} /\ "save" \in StoragePCs \ {"work"} /\ Live(r)
      /\ run[r].op \in StorageOps
  BY <1>1 DEF StoragePCs, Live, Ended, StorageOps
<1>3. QED
  BY <1>1, <1>2, RowsStay, StayTypes, AnswerTypes DEF At

LEMMA TestSiblingsGoes ==
    ASSUME IInv, NEW r \in Requests, TestSiblings(r), Beside
    PROVE  /\ IInv' /\ UNCHANGED <<dirs, files, disk>> /\ run[r].op = "rename" /\ Live(r)
           /\ \/ Stays(r, "testFile") /\ \A d \in SubDirs(run[r].row.parent) : dirs[d].label # run[r].label
              \/ Advances(r, "rejected") /\ run'[r] \in StorageAnswer
<1>1. /\ run[r].op = "rename" /\ run[r].pc = "testDir" /\ UNCHANGED <<dirs, files, disk>>
      /\ \/ Goto(r, "testFile") /\ \A d \in SubDirs(run[r].row.parent) : dirs[d].label # run[r].label
         \/ Answer(r, "rejected")
  BY DEF TestSiblings, Calls, At
<1>2. "testFile" \in StoragePCs \ {"work"} /\ "testDir" \in StoragePCs \ {"work"} /\ Live(r)
      /\ run[r].op \in StorageOps
  BY <1>1 DEF StoragePCs, Live, Ended, StorageOps
<1>3. StorageTypeOK'
  BY <1>1, RowsStay
<1>4. ASSUME Goto(r, "testFile") PROVE IInv' /\ Stays(r, "testFile")
  BY <1>1, <1>2, <1>3, <1>4, StayTypes
<1>5. ASSUME Answer(r, "rejected") PROVE IInv' /\ Advances(r, "rejected") /\ run'[r] \in StorageAnswer
  BY <1>1, <1>2, <1>3, <1>5, AnswerTypes
<1>6. QED
  BY <1>1, <1>2, <1>4, <1>5

LEMMA SaveNewDirGoes ==
    ASSUME IInv, NEW r \in Requests, SaveNewDir(r), Beside
    PROVE  /\ IInv' /\ UNCHANGED <<files, disk>> /\ run[r].op = "createDir" /\ Live(r) /\ At(r, "save")
           /\ Advances(r, "done") /\ run'[r] \in StorageAnswer
           /\ dirs' = Append(dirs, [user |-> run[r].name, label |-> run[r].label, parent |-> run[r].dir])
<1>1. /\ run[r].op = "createDir" /\ run[r].pc = "save" /\ UNCHANGED <<files, disk>> /\ Answer(r, "done")
      /\ dirs' = Append(dirs, [user |-> run[r].name, label |-> run[r].label, parent |-> run[r].dir])
  BY DEF SaveNewDir, Calls, At, InsertDir
<1>2. run[r].pc \in StoragePCs /\ run[r].pc \notin Ended /\ run[r].op \in StorageOps
  BY <1>1 DEF StoragePCs, Ended, StorageOps
<1>3. [user |-> run[r].name, label |-> run[r].label, parent |-> run[r].dir] \in Dir
  BY <1>2, CallAt DEF Dir
<1>4. StorageTypeOK'
  BY <1>1, <1>3, RowsTyped DEF StorageTypeOK
<1>5. QED
  BY <1>1, <1>2, <1>4, AnswerTypes DEF Live, At

LEMMA SaveDirRowGoes ==
    ASSUME IInv, NEW r \in Requests, SaveDirRow(r), Beside
    PROVE  /\ IInv' /\ UNCHANGED <<files, disk>> /\ run[r].op \in {"rename", "share"} /\ Live(r) /\ At(r, "save")
           /\ run[r].id = 0 /\ Advances(r, "done") /\ run'[r] \in StorageAnswer /\ run[r].row \in Dir
           /\ \E e \in Dir :
                 /\ dirs' = [dirs EXCEPT ![run[r].dir] = e]
                 /\ e.user = run[r].row.user /\ e.parent = run[r].row.parent
                 /\ e.label = IF run[r].op = "rename" THEN run[r].label ELSE run[r].row.label
<1> DEFINE q == run[r]
           e == IF q.op = "rename" THEN [q.row EXCEPT !.label = q.label] ELSE q.row
<1>1. /\ q.op \in {"rename", "share"} /\ q.pc = "save" /\ q.id = 0 /\ UNCHANGED <<files, disk>>
      /\ dirs' = [dirs EXCEPT ![q.dir] = e] /\ Answer(r, "done")
  BY DEF SaveDirRow, At
<1>2. q.pc \in StoragePCs /\ q.pc \notin Ended /\ q.op \in StorageOps
  BY <1>1 DEF StoragePCs, Ended, StorageOps
<1>3. q.row \in Dir /\ q.label \in Labels
  BY <1>1, <1>2, CallAt DEF CallFits
<1>4. /\ e \in Dir /\ e.user = q.row.user /\ e.parent = q.row.parent
      /\ e.label = IF q.op = "rename" THEN q.label ELSE q.row.label
  <2>1. \A w \in Dir : LET v == [w EXCEPT !.label = q.label] IN
            v \in Dir /\ v.user = w.user /\ v.parent = w.parent /\ v.label = q.label
    BY <1>3 DEF Dir
  <2>2. QED
    BY <1>3, <2>1
<1> HIDE DEF e
<1>5. StorageTypeOK'
  <2>1. dirs \in Seq(Dir \cup {NoDir}) /\ files \in Seq(File \cup {NoFile}) /\ disk \subseteq Path
    BY RowsTyped DEF StorageTypeOK
  <2>2. dirs' \in Seq(Dir \cup {NoDir})
    BY <1>1, <1>4, <2>1, RowWritten
  <2>3. QED
    BY <1>1, <2>1, <2>2 DEF StorageTypeOK
<1>6. IInv' /\ Advances(r, "done") /\ run'[r] \in StorageAnswer
  BY <1>1, <1>2, <1>5, AnswerTypes
<1>7. QED
  BY <1>1, <1>2, <1>3, <1>4, <1>6 DEF Live, At

LEMMA SaveFileRowGoes ==
    ASSUME IInv, NEW r \in Requests, SaveFileRow(r), Beside
    PROVE  /\ IInv' /\ UNCHANGED <<dirs, disk>> /\ run[r].op = "share" /\ Live(r)
           /\ Advances(r, "done") /\ run'[r] \in StorageAnswer
<1>1. /\ run[r].op = "share" /\ run[r].pc = "save" /\ run[r].id # 0 /\ UNCHANGED <<dirs, disk>>
      /\ files' = [files EXCEPT ![run[r].id] = run[r].row] /\ Answer(r, "done")
  BY DEF SaveFileRow, Calls, At
<1>2. run[r].pc \in StoragePCs /\ run[r].pc \notin Ended /\ run[r].op \in StorageOps
  BY <1>1 DEF StoragePCs, Ended, StorageOps
<1>3. run[r].row \in File
  BY <1>1, <1>2, CallAt DEF CallFits
<1>4. StorageTypeOK'
  <2>1. dirs \in Seq(Dir \cup {NoDir}) /\ files \in Seq(File \cup {NoFile}) /\ disk \subseteq Path
    BY RowsTyped DEF StorageTypeOK
  <2>2. files' \in Seq(File \cup {NoFile})
    BY <1>1, <1>3, <2>1, RowWritten
  <2>3. QED
    BY <1>1, <2>1, <2>2 DEF StorageTypeOK
<1>5. QED
  BY <1>1, <1>2, <1>4, AnswerTypes DEF Live

-----------------------------------------------------------------------------
(* Uploads and removals *)

\* An upload has found which version it stores, and under which path
Chooses(r, copied) ==
    /\ Advances(r, "save") /\ run'[r] \in StorageCall
    /\ run'[r].row \in File /\ run'[r].row.path = [by |-> r, copied |-> copied]

LEMMA VersionGoes ==
    ASSUME IInv, NEW r \in Requests, run[r].op = "upload", run[r].pc \in StoragePCs,
           NEW version \in Nat \ {0}, NEW copied \in BOOLEAN, Version(r, version, copied), Beside,
           StorageTypeOK'
    PROVE  IInv' /\ Chooses(r, copied)
<1> DEFINE q == run[r]
           f == [dir |-> q.dir, label |-> q.label, version |-> version,
                 path |-> [by |-> r, copied |-> copied]]
           n == [q EXCEPT !.pc = "save", !.row = f]
<1>1. run' = [run EXCEPT ![r].pc = "save", ![r].row = f]
  BY DEF Version
<1>2. q \in StorageCall /\ q.dir \in Nat /\ q.label \in Labels
  BY CallAt
<1>3. f \in File /\ f.path = [by |-> r, copied |-> copied] /\ f.path.by = r
  BY <1>2 DEF File, Path
<1> HIDE DEF f
<1>4. DOMAIN run = Requests
  BY DEF IInv, TypeOK
<1>5. Others(r) /\ run'[r] = n
  BY <1>1, <1>4 DEF Others
<1> HIDE DEF q
<1>6. /\ n \in StorageCall /\ n.op = q.op /\ n.name = q.name /\ n.pc = "save" /\ n.row = f
  BY <1>2, <1>3 DEF StorageCall, StoragePCs
<1> HIDE DEF n
<1>7. CallFits(n, r)
  BY <1>3, <1>6 DEF CallFits, q
<1>8. IInv'
  BY <1>5, <1>6, <1>7, CallTypes
<1>9. QED
  BY <1>3, <1>5, <1>6, <1>8 DEF Chooses, Advances, q

LEMMA FindVersionGoes ==
    ASSUME IInv, NEW r \in Requests, FindVersion(r), Beside
    PROVE  /\ IInv' /\ UNCHANGED <<dirs, files>> /\ run[r].op = "upload" /\ Live(r)
           /\ \/ Stays(r, "testDir") /\ disk' = disk
              \/ Chooses(r, TRUE) /\ disk' = disk \cup {[by |-> r, copied |-> TRUE]}
<1> DEFINE found == {f \in FilesIn(run[r].dir) : files[f].label = run[r].label}
<1>1. /\ run[r].op = "upload" /\ run[r].pc = "testFile" /\ UNCHANGED <<dirs, files>>
      /\ \/ found = {} /\ Goto(r, "testDir") /\ disk' = disk
         \/ \E f \in found : /\ disk' = disk \cup {[by |-> r, copied |-> TRUE]}
                             /\ Version(r, files[f].version + 1, TRUE)
  BY DEF FindVersion, Calls, At
<1>2. run[r].pc \in StoragePCs /\ Live(r) /\ run[r].op \in StorageOps
  BY <1>1 DEF StoragePCs, Live, Ended, StorageOps
<1>3. CASE found = {} /\ Goto(r, "testDir") /\ disk' = disk
  <2>1. run[r] \in StorageCall /\ "testDir" \in StoragePCs
    BY <1>2, CallAt DEF StoragePCs
  <2>2. Stays(r, "testDir")
    BY <1>3, <2>1, CallGoes
  <2>3. CallFits(run'[r], r)
    BY <1>1, <2>2 DEF CallFits, Stays, Advances
  <2>4. StorageTypeOK'
    BY <1>1, <1>3, RowsStay
  <2>5. IInv'
    BY <2>2, <2>3, <2>4, CallTypes DEF Stays, Advances
  <2>6. QED
    BY <1>1, <1>2, <1>3, <2>2, <2>5
<1>4. CASE \E f \in found : /\ disk' = disk \cup {[by |-> r, copied |-> TRUE]}
                            /\ Version(r, files[f].version + 1, TRUE)
  <2>1. PICK f \in found : Version(r, files[f].version + 1, TRUE)
    BY <1>4
  <2>2. disk' = disk \cup {[by |-> r, copied |-> TRUE]}
    BY <1>4
  <2>3. f \in FileRows
    BY DEF FilesIn
  <2>4. files[f].version + 1 \in Nat \ {0}
    BY <2>3, IdsFinite DEF File
  <2>5. [by |-> r, copied |-> TRUE] \in Path
    BY DEF Path
  <2>6. StorageTypeOK'
    BY <1>1, <2>2, <2>5, RowsTyped DEF StorageTypeOK
  <2>7. IInv' /\ Chooses(r, TRUE)
    BY <1>1, <1>2, <2>1, <2>4, <2>6, VersionGoes
  <2>8. QED
    BY <1>1, <1>2, <2>2, <2>7
<1>5. QED
  BY <1>1, <1>3, <1>4

LEMMA TestNoDirGoes ==
    ASSUME IInv, NEW r \in Requests, TestNoDir(r), Beside
    PROVE  /\ IInv' /\ UNCHANGED <<dirs, files, disk>> /\ run[r].op = "upload" /\ Live(r)
           /\ (Advances(r, "rejected") /\ run'[r] \in StorageAnswer) \/ Chooses(r, FALSE)
<1>1. /\ run[r].op = "upload" /\ run[r].pc = "testDir" /\ UNCHANGED <<dirs, files, disk>>
      /\ Answer(r, "rejected") \/ Version(r, 1, FALSE)
  BY DEF TestNoDir, Calls, At
<1>2. run[r].pc \in StoragePCs /\ Live(r) /\ run[r].op \in StorageOps
  BY <1>1 DEF StoragePCs, Live, Ended, StorageOps
<1>3. StorageTypeOK'
  BY <1>1, RowsStay
<1>4. ASSUME Answer(r, "rejected") PROVE IInv' /\ Advances(r, "rejected") /\ run'[r] \in StorageAnswer
  BY <1>1, <1>2, <1>3, <1>4, AnswerTypes
<1>5. ASSUME Version(r, 1, FALSE) PROVE IInv' /\ Chooses(r, FALSE)
  <2>1. 1 \in Nat \ {0} /\ FALSE \in BOOLEAN
    OBVIOUS
  <2>2. QED
    BY <1>1, <1>2, <1>3, <1>5, <2>1, VersionGoes
<1>6. QED
  BY <1>1, <1>2, <1>4, <1>5

LEMMA SaveFileGoes ==
    ASSUME IInv, NEW r \in Requests, SaveFile(r), Beside
    PROVE  /\ IInv' /\ UNCHANGED <<dirs, disk>> /\ run[r].op = "upload" /\ Live(r) /\ At(r, "save")
           /\ Advances(r, "done") /\ run'[r] \in StorageAnswer
           /\ run[r].row \in File /\ run[r].row.path.by = r /\ files' = Append(files, run[r].row)
           /\ run'[r].stray = (run[r].dir \notin DirRows)
<1> DEFINE q == [op |-> "upload", name |-> run[r].name, pc |-> "done", path |-> run[r].row.path,
                 stray |-> run[r].dir \notin DirRows]
<1>1. /\ run[r].op = "upload" /\ run[r].pc = "save" /\ UNCHANGED <<dirs, disk>>
      /\ files' = Append(files, run[r].row) /\ run' = [run EXCEPT ![r] = q]
  BY DEF SaveFile, Calls, At
<1>2. run[r].pc \in StoragePCs /\ Live(r) /\ run[r].op \in StorageOps
  BY <1>1 DEF StoragePCs, Live, Ended, StorageOps
<1>3. run[r].row \in File /\ run[r].row.path.by = r /\ run[r].name \in Names
  BY <1>1, <1>2, CallAt DEF CallFits
<1>4. Others(r) /\ run'[r] = q
  BY <1>1, CallBegins
<1>5. q \in StorageAnswer
  BY <1>3 DEF StorageAnswer, File
<1>6. StorageTypeOK'
  BY <1>1, <1>3, RowsTyped DEF StorageTypeOK
<1>7. IInv'
  BY <1>4, <1>5, <1>6, CallTypes
<1>8. QED
  BY <1>1, <1>2, <1>3, <1>4, <1>5, <1>7 DEF Advances, At

\* A removal goes on to the items, the last one ends it
LEMMA ReplaceGoes ==
    ASSUME IInv, NEW r \in Requests, At(r, "work"), NEW items \in Seq(Item), Replace(r, items), Beside,
           StorageTypeOK'
    PROVE  /\ IInv' /\ run[r].op \in {"removeFile", "removeDir"} /\ Live(r)
           /\ \/ Advances(r, "done") /\ run'[r] \in StorageAnswer /\ items = <<>>
              \/ Advances(r, "work") /\ run'[r] \in StorageCall /\ run'[r].todo = items \o Tail(run[r].todo)
<1> DEFINE q == run[r]
           left == items \o Tail(q.todo)
<1>1. q.pc = "work" /\ q.pc \in StoragePCs /\ Live(r)
  BY DEF At, StoragePCs, Live, Ended
<1>2. q \in StorageCall /\ CallFits(q, r) /\ q.todo \in Seq(Item) /\ q.op \in StorageOps
  BY <1>1, CallAt
<1>3. q.op \in {"removeFile", "removeDir"} /\ q.todo # <<>>
  BY <1>1, <1>2 DEF CallFits, StorageOps
<1>4. Tail(q.todo) \in Seq(Item)
  BY <1>2, <1>3, HeadTailProperties
<1>5. left \in Seq(Item) /\ (left = <<>> => items = <<>>)
  BY <1>4, ConcatProperties, ConcatEqualIffEmpty
<1>6. IF left = <<>> THEN Answer(r, "done") ELSE run' = [run EXCEPT ![r].todo = left]
  BY DEF Replace
<1>7. CASE left = <<>>
  <2>1. Answer(r, "done")
    BY <1>6, <1>7
  <2>2. IInv' /\ Advances(r, "done") /\ run'[r] \in StorageAnswer
    BY <1>2, <2>1, AnswerTypes
  <2>3. QED
    BY <1>1, <1>3, <1>5, <1>7, <2>2
<1>8. CASE left # <<>>
  <2> DEFINE n == [q EXCEPT !.todo = left]
  <2>1. DOMAIN run = Requests
    BY DEF IInv, TypeOK
  <2>2. Others(r) /\ run'[r] = n
    BY <1>6, <1>8, <2>1 DEF Others
  <2> HIDE DEF left, q
  <2>3. n \in StorageCall /\ n.op = q.op /\ n.name = q.name /\ n.pc = q.pc /\ n.todo = left
    BY <1>2, <1>5 DEF StorageCall
  <2> HIDE DEF n
  <2>4. CallFits(n, r)
    BY <1>1, <1>3, <1>8, <2>3 DEF CallFits
  <2>5. IInv'
    BY <2>2, <2>3, <2>4, CallTypes
  <2>6. QED
    BY <1>1, <1>3, <2>2, <2>3, <2>5 DEF Advances, left, q
<1>9. QED
  BY <1>7, <1>8

\* The item a removal works on
LEMMA WorkingOn ==
    ASSUME IInv, NEW r \in Requests, At(r, "work")
    PROVE  Head(run[r].todo) \in Item /\ Current(r) \in Nat
<1>1. run[r].pc = "work" /\ run[r].pc \in StoragePCs
  BY DEF At, StoragePCs
<1>2. run[r].todo \in Seq(Item) /\ run[r].todo # <<>>
  BY <1>1, CallAt DEF CallFits, StorageOps
<1>3. Head(run[r].todo) \in Item
  BY <1>2, HeadTailProperties
<1>4. QED
  BY <1>3 DEF Item, Current

LEMMA RemoveSubDirsGoes ==
    ASSUME IInv, NEW r \in Requests, RemoveSubDirs(r), Beside
    PROVE  /\ IInv' /\ UNCHANGED <<dirs, files, disk>> /\ run[r].op \in {"removeFile", "removeDir"} /\ Live(r)
           /\ Working(r, "dir") /\ \E p \in {"done", "work"} : Advances(r, p)
<1> DEFINE items == Work("dir", SubDirs(Current(r))) \o Work("files", {Current(r)})
<1>1. At(r, "work") /\ Working(r, "dir") /\ Replace(r, items) /\ UNCHANGED <<dirs, files, disk>>
  BY DEF RemoveSubDirs, Working
<1>2. Current(r) \in Nat
  BY <1>1, WorkingOn
<1>3. Work("dir", SubDirs(Current(r))) \in Seq(Item) /\ Work("files", {Current(r)}) \in Seq(Item)
  BY <1>2, IdsFinite, WorkTyped, WorkOfOne
<1>4. items \in Seq(Item)
  BY <1>3, ConcatProperties
<1> HIDE DEF items
<1>5. QED
  BY <1>1, <1>4, RowsStay, ReplaceGoes

LEMMA RemoveFilesInGoes ==
    ASSUME IInv, NEW r \in Requests, RemoveFilesIn(r), Beside
    PROVE  /\ IInv' /\ UNCHANGED <<dirs, files, disk>> /\ run[r].op \in {"removeFile", "removeDir"} /\ Live(r)
           /\ Working(r, "files") /\ \E p \in {"done", "work"} : Advances(r, p)
<1> DEFINE items == Work("file", FilesIn(Current(r))) \o Work("drop", {Current(r)})
<1>1. At(r, "work") /\ Working(r, "files") /\ Replace(r, items) /\ UNCHANGED <<dirs, files, disk>>
  BY DEF RemoveFilesIn, Working
<1>2. Current(r) \in Nat
  BY <1>1, WorkingOn
<1>3. Work("file", FilesIn(Current(r))) \in Seq(Item) /\ Work("drop", {Current(r)}) \in Seq(Item)
  BY <1>2, IdsFinite, WorkTyped, WorkOfOne
<1>4. items \in Seq(Item)
  BY <1>3, ConcatProperties
<1> HIDE DEF items
<1>5. QED
  BY <1>1, <1>4, RowsStay, ReplaceGoes

LEMMA DeleteContentGoes ==
    ASSUME IInv, NEW r \in Requests, DeleteContent(r), Beside
    PROVE  /\ IInv' /\ UNCHANGED <<dirs, files>> /\ run[r].op \in {"removeFile", "removeDir"} /\ Live(r)
           /\ Working(r, "file")
           /\ \/ /\ Current(r) \in FileRows /\ disk' = disk \ {files[Current(r)].path}
                 /\ Advances(r, "work") /\ Head(run'[r].todo) = [kind |-> "row", id |-> Current(r)]
              \/ disk' = disk /\ \E p \in {"done", "work"} : Advances(r, p)
<1> DEFINE f == Current(r)
<1>1. /\ At(r, "work") /\ Working(r, "file") /\ UNCHANGED <<dirs, files>>
      /\ \/ f \in FileRows /\ disk' = disk \ {files[f].path} /\ Replace(r, Work("row", {f}))
         \/ Replace(r, <<>>) /\ disk' = disk
  BY DEF DeleteContent, Working
<1>2. f \in Nat
  BY <1>1, WorkingOn
<1>3. StorageTypeOK'
  BY <1>1, RowsTyped DEF StorageTypeOK
<1>4. CASE f \in FileRows /\ disk' = disk \ {files[f].path} /\ Replace(r, Work("row", {f}))
  <2> DEFINE items == Work("row", {f})
  <2>1. items \in Seq(Item) /\ items = <<[kind |-> "row", id |-> f]>>
    BY <1>2, WorkOfOne
  <2>2. Replace(r, items)
    BY <1>4
  <2>3. items # <<>>
    <3>1. IsFiniteSet({f}) /\ {f} \in SUBSET Nat /\ {f} # {}
      BY <1>2, FS_Singleton
    <3>2. QED
      BY <3>1, WorkTyped
  <2>4. /\ IInv' /\ run[r].op \in {"removeFile", "removeDir"} /\ Live(r)
        /\ Advances(r, "work") /\ run'[r].todo = items \o Tail(run[r].todo)
    <3> HIDE DEF items
    <3>1. QED
      BY <1>1, <1>3, <2>1, <2>2, <2>3, ReplaceGoes
  <2>5. run[r].todo \in Seq(Item) /\ run[r].todo # <<>>
    BY <1>1, CallAt DEF CallFits, StorageOps, At, StoragePCs
  <2>6. Tail(run[r].todo) \in Seq(Item)
    BY <2>5, HeadTailProperties
  <2>7. Head(items \o Tail(run[r].todo)) = [kind |-> "row", id |-> f]
    BY <2>1, <2>6
  <2>8. QED
    BY <1>1, <1>4, <2>4, <2>7
<1>5. CASE Replace(r, <<>>) /\ disk' = disk
  BY <1>1, <1>3, <1>5, EmptyIsSeq, ReplaceGoes
<1>6. QED
  BY <1>1, <1>4, <1>5

LEMMA DeleteFileGoes ==
    ASSUME IInv, NEW r \in Requests, DeleteFile(r), Beside
    PROVE  /\ IInv' /\ UNCHANGED <<dirs, disk>> /\ run[r].op \in {"removeFile", "removeDir"} /\ Live(r)
           /\ Working(r, "row") /\ files' = [files EXCEPT ![Current(r)] = NoFile]
           /\ \E p \in {"done", "work"} : Advances(r, p)
<1>1. /\ At(r, "work") /\ Working(r, "row") /\ UNCHANGED <<dirs, disk>> /\ Replace(r, <<>>)
      /\ files' = [files EXCEPT ![Current(r)] = NoFile]
  BY DEF DeleteFile, Working
<1>2. files' \in Seq(File \cup {NoFile})
  BY <1>1, RowsTyped, RowWritten DEF StorageTypeOK
<1>3. StorageTypeOK'
  BY <1>1, <1>2, RowsTyped DEF StorageTypeOK
<1>4. QED
  BY <1>1, <1>3, EmptyIsSeq, ReplaceGoes

LEMMA DeleteDirGoes ==
    ASSUME IInv, NEW r \in Requests, DeleteDir(r), Beside
    PROVE  /\ IInv' /\ UNCHANGED <<files, disk>> /\ run[r].op \in {"removeFile", "removeDir"} /\ Live(r)
           /\ Working(r, "drop") /\ dirs' = [dirs EXCEPT ![Current(r)] = NoDir]
           /\ \E p \in {"done", "work"} : Advances(r, p)
<1>1. /\ At(r, "work") /\ Working(r, "drop") /\ UNCHANGED <<files, disk>> /\ Replace(r, <<>>)
      /\ dirs' = [dirs EXCEPT ![Current(r)] = NoDir]
  BY DEF DeleteDir, Working
<1>2. dirs' \in Seq(Dir \cup {NoDir})
  BY <1>1, RowsTyped, RowWritten DEF StorageTypeOK
<1>3. StorageTypeOK'
  BY <1>1, <1>2, RowsTyped DEF StorageTypeOK
<1>4. QED
  BY <1>1, <1>3, EmptyIsSeq, ReplaceGoes

-----------------------------------------------------------------------------
(* Types *)

LEMMA InitTypes ==
    ASSUME Init
    PROVE  IInv
<1>1. /\ Fresh \/ \E n \in Names : Registered(n)
      /\ files = <<>> /\ disk = {} /\ wallets = [n \in Names |-> 0]
      /\ run = [r \in Requests |-> IdleRequest]
      /\ overlapped = {} /\ faults = 0
  BY DEF Init, StorageInit
<1>2. 0 \in 0 .. MaxFaults
  BY AccountsAssumption DEF AccountsAssumption
<1>3. \A k \in Roles : Rows(k) \in Nat
  <2>1. Permissions \in Seq({"admin", "user"})
    BY AccountsAssumption DEF AccountsAssumption
  <2>2. Len(Permissions) \in Nat /\ DOMAIN Permissions = 1 .. Len(Permissions)
    BY <2>1, LenProperties
  <2>3. IsFiniteSet(1 .. Len(Permissions))
    BY <2>2, FS_Interval
  <2>4. ASSUME NEW k \in Roles PROVE Rows(k) \in Nat
    <3>1. {i \in DOMAIN Permissions : Permissions[i] = k} \in SUBSET (1 .. Len(Permissions))
      BY <2>2
    <3>2. IsFiniteSet({i \in DOMAIN Permissions : Permissions[i] = k})
      BY <2>3, <3>1, FS_Subset
    <3>3. QED
      BY <3>2, FS_CardinalityType DEF Rows
  <2>5. QED
    BY <2>4
<1>4. /\ users \in [Names -> User] /\ roles \subseteq Roles /\ permissions \in [Roles -> Nat]
      /\ assigned \subseteq Names /\ agents \in [Names -> Nat]
      /\ dirs \in Seq(Dir \cup {NoDir})
  <2>1. CASE Fresh
    BY <2>1, NoUserTyped, EmptySeq DEF Fresh
  <2>2. CASE \E n \in Names : Registered(n)
    <3>1. PICK n \in Names : Registered(n)
      BY <2>2
    <3>2. dirs \in Seq(Dir \cup {NoDir})
      <4> DEFINE h == [user |-> n, label |-> "home", parent |-> Root]
                 s == [user |-> n, label |-> "share", parent |-> Root]
      <4>1. h \in Dir /\ s \in Dir
        BY DEF Dir, Labels, Kinds, Root
      <4>2. dirs = <<h, s>>
        BY <3>1 DEF Registered
      <4> HIDE DEF h, s
      <4>3. QED
        BY <4>1, <4>2
    <3>3. users \in [Names -> User]
      <4>1. [role |-> "admin", isAdmin |-> TRUE, linked |-> TRUE, password |-> "none"] \in User
        BY DEF User, Roles
      <4>2. QED
        BY <3>1, <4>1, NoUserTyped DEF Registered
    <3>4. permissions \in [Roles -> Nat]
      BY <1>3, <3>1 DEF Registered
    <3>5. roles \subseteq Roles /\ assigned \subseteq Names /\ agents \in [Names -> Nat]
      BY <3>1 DEF Registered
    <3>6. QED
      BY <3>2, <3>3, <3>4, <3>5
  <2>3. QED
    BY <1>1, <2>1, <2>2
<1>5. TypeOK
  <2>1. run \in [Requests -> Request \cup StorageCall \cup StorageAnswer]
    BY <1>1, IdleFields
  <2>2. StorageTypeOK
    BY <1>1, <1>4, EmptySeq DEF StorageTypeOK
  <2>3. QED
    BY <1>1, <1>2, <1>4, <2>1, <2>2 DEF TypeOK
<1>6. IdleRequest.pc = "idle" /\ AuthFits(IdleRequest)
  BY DEF IdleRequest, AuthFits, ProfileOps
<1>7. \A r \in Requests : Fits(run[r], r)
  BY <1>1, <1>6, IdleFields DEF Fits
<1>8. Known
  BY <1>1, <1>6 DEF Known
<1>9. QED
  BY <1>5, <1>7, <1>8 DEF IInv

\* A step of the storage, between others
LEMMA StorageTypes ==
    ASSUME IInv, NEW r \in Requests, Beside,
           (\E n \in Names : StorageBegin(r, n)) \/ StorageStep(r)
    PROVE  IInv'
<1>1. ASSUME NEW n \in Names, StorageBegin(r, n) PROVE IInv'
  <2>1. CASE CreateDir(r, n)
    BY <2>1, CreateDirGoes
  <2>2. CASE Upload(r, n)
    BY <2>2, UploadGoes
  <2>3. CASE LoadFile(r, n)
    BY <2>3, LoadFileGoes
  <2>4. ASSUME NEW op \in StorageOps, LoadDir(r, op, n) PROVE IInv'
    BY <2>4, LoadDirGoes
  <2>5. ASSUME NEW op \in StorageOps, StartRemoval(r, op, n) PROVE IInv'
    BY <2>5, StartRemovalGoes
  <2>6. QED
    BY <1>1, <2>1, <2>2, <2>3, <2>4, <2>5 DEF StorageBegin
<1>2. QED
  BY <1>1, TestParentGoes, TestDirNameGoes, TestFileNameGoes, SaveNewDirGoes, FindVersionGoes,
     TestNoDirGoes, SaveFileGoes, TestSiblingsGoes, SaveDirRowGoes, SaveFileRowGoes,
     RemoveSubDirsGoes, RemoveFilesInGoes, DeleteContentGoes, DeleteFileGoes, DeleteDirGoes
  DEF StorageStep

\* The steps of Next that are calls of the storage
StorageMoves(r) ==
    \/ \E n \in Names : UseStorage(r, n)
    \/ StorageStep(r) /\ UNCHANGED <<own, overlapped, faults>>

LEMMA MovesBeside ==
    ASSUME IInv, NEW r \in Requests, StorageMoves(r)
    PROVE  /\ Beside
           /\ \/ StorageStep(r) /\ overlapped' = overlapped
              \/ /\ \E n \in Names : StorageBegin(r, n)
                 /\ At(r, "idle") /\ overlapped' = IF OthersLive(r) = {} THEN overlapped ELSE Names
<1>1. overlapped \subseteq Names
  BY DEF IInv, TypeOK
<1>2. QED
  BY <1>1 DEF StorageMoves, UseStorage, Beside

LEMMA NextTypes ==
    ASSUME IInv, [Next]_vars
    PROVE  IInv'
<1>1. CASE UNCHANGED vars
  BY <1>1 DEF vars, rows, own, IInv, TypeOK, StorageTypeOK, Known, Exists
<1>2. ASSUME NEW r \in Requests, StorageMoves(r) PROVE IInv'
  BY <1>2, MovesBeside, StorageTypes
<1>3. ASSUME NEW r \in Requests, NEW op \in AuthOps, NEW n \in Names, FindUser(r, op, n) PROVE IInv'
  BY <1>3, FindUserGoes
<1>4. ASSUME NEW r \in Requests, NEW op \in UserOps, NEW n \in Names, UseAccount(r, op, n) PROVE IInv'
  BY <1>4, UseAccountGoes
<1>5. ASSUME NEW r \in Requests, NEW kind \in Kinds, FindDir(r, kind) \/ TestDir(r, kind) \/ SaveDir(r, kind)
      PROVE  IInv'
  BY <1>5, FindDirGoes, TestDirGoes, SaveDirGoes
<1>6. ASSUME NEW r \in Requests,
             \/ CountUsers(r) \/ SaveRoles(r) \/ SavePermission(r) \/ SaveUser(r) \/ AssignRole(r)
             \/ LinkDirs(r) \/ CreateAgent(r) \/ CreateWallet(r)
             \/ LogIn(r) \/ SavePassword(r) \/ SaveProfile(r) \/ QueryFails(r)
      PROVE  IInv'
  BY <1>6, CountUsersGoes, SaveRolesGoes, SavePermissionGoes, SaveUserGoes, AssignRoleGoes,
     LinkDirsGoes, CreateAgentGoes, CreateWalletGoes, LogInGoes, SavePasswordGoes, SaveProfileGoes,
     QueryFailsGoes
<1>7. QED
  BY <1>1, <1>2, <1>3, <1>4, <1>5, <1>6 DEF Next, StorageMoves

\* Types, and where a request may stand
THEOREM TypeCorrect == Spec => []TypeOK
<1>1. IInv /\ [Next]_vars => IInv'
  BY NextTypes
<1>2. IInv => TypeOK
  BY DEF IInv
<1>3. QED
  BY <1>1, <1>2, InitTypes, PTL DEF Spec

-----------------------------------------------------------------------------
(* One administrator *)

\* A call of the storage touches no row and no request of accounts
LEMMA MovesQuiet ==
    ASSUME IInv, NEW r \in Requests, StorageMoves(r)
    PROVE  /\ Others(r) /\ UNCHANGED <<own, faults>> /\ overlapped \subseteq overlapped'
           /\ run'[r].op \in StorageOps
           /\ run[r].op \in StorageOps \/ At(r, "idle")
           /\ run[r].op \in StorageOps => run'[r].op = run[r].op /\ overlapped' = overlapped
<1>1. Beside /\ overlapped \subseteq Names
  BY MovesBeside DEF IInv, TypeOK
<1>2. UNCHANGED <<own, faults>>
  BY <1>1 DEF Beside
<1>3. CASE StorageStep(r) /\ overlapped' = overlapped
  <2>1. /\ run[r].op \in StorageOps /\ \E p : Advances(r, p)
    BY <1>1, <1>3, TestParentGoes, TestDirNameGoes, TestFileNameGoes, SaveNewDirGoes, FindVersionGoes,
       TestNoDirGoes, SaveFileGoes, TestSiblingsGoes, SaveDirRowGoes, SaveFileRowGoes,
       RemoveSubDirsGoes, RemoveFilesInGoes, DeleteContentGoes, DeleteFileGoes, DeleteDirGoes
    DEF StorageStep, StorageOps, Stays, Chooses
  <2>2. QED
    BY <1>2, <1>3, <2>1 DEF Advances
<1>4. CASE /\ \E n \in Names : StorageBegin(r, n)
           /\ At(r, "idle") /\ overlapped' = IF OthersLive(r) = {} THEN overlapped ELSE Names
  <2>1. PICK n \in Names : StorageBegin(r, n)
    BY <1>4
  <2>2. Others(r) /\ run'[r].op \in StorageOps
    <3>1. CASE CreateDir(r, n)
      BY <1>1, <3>1, CreateDirGoes DEF StorageOps
    <3>2. CASE Upload(r, n)
      BY <1>1, <3>2, UploadGoes DEF StorageOps
    <3>3. CASE LoadFile(r, n)
      BY <1>1, <3>3, LoadFileGoes DEF StorageOps
    <3>4. ASSUME NEW op \in StorageOps, LoadDir(r, op, n) PROVE Others(r) /\ run'[r].op \in StorageOps
      BY <1>1, <3>4, LoadDirGoes DEF StorageOps
    <3>5. ASSUME NEW op \in StorageOps, StartRemoval(r, op, n) PROVE Others(r) /\ run'[r].op \in StorageOps
      BY <1>1, <3>5, StartRemovalGoes DEF StorageOps
    <3>6. QED
      BY <2>1, <3>1, <3>2, <3>3, <3>4, <3>5 DEF StorageBegin
  <2>3. run[r].op \notin StorageOps
    BY <1>4, PointTells DEF At, StorageOps
  <2>4. QED
    BY <1>1, <1>2, <1>4, <2>2, <2>3
<1>5. QED
  BY <1>3, <1>4, MovesBeside

\* What the administrator's invariant asks of a step that grants nothing
LEMMA GrantsNothing ==
    ASSUME IInv, IInv', AInv, NEW r \in Requests, Others(r), roles' = roles, permissions' = permissions,
           \A n \in Names : users'[n].isAdmin = users[n].isAdmin, UsersStay,
           Claims(r)' => /\ Claims(r) /\ run[r].pc \notin {"userRole", "permission"}
                         /\ run'[r].pc \notin {"userRole", "permission"}
                         /\ HasUser(r) => HasUser(r)' /\ run'[r].name = run[r].name,
           HasUser(r)' => HasUser(r) /\ run'[r].name = run[r].name /\ run'[r].first = run[r].first,
           At(r, "profile")' => run'[r].name \in Names /\ users[run'[r].name].isAdmin = run'[r].row.isAdmin
    PROVE  AInv'
<1>1. \A o \in Requests \ {r} : run'[o] = run[o]
  BY DEF Others
<1>2. \A o \in Requests \ {r} : (Claims(o)' <=> Claims(o)) /\ (HasUser(o)' <=> HasUser(o))
  BY <1>1 DEF Claims, HasUser
<1>3. Administrators' = Administrators /\ (Granted' <=> Granted)
  BY DEF Administrators, Granted
<1>4. OneClaim'
  BY <1>2 DEF AInv, OneClaim
<1>5. RowsTell'
  BY <1>3 DEF AInv, RowsTell
<1>6. ASSUME NEW o \in Requests, Claims(o)' PROVE Claimed(o)'
  <2>1. Claims(o) /\ Claimed(o)
    BY <1>2, <1>6 DEF AInv
  <2>2. CASE o # r
    BY <1>1, <1>2, <1>3, <2>1, <2>2 DEF Claimed, At
  <2>3. CASE o = r
    BY <1>3, <1>6, <2>1, <2>3 DEF Claimed, At
  <2>4. QED
    BY <2>2, <2>3
<1>7. ASSUME NEW o \in Requests, HasUser(o)' PROVE UserStored(o)'
  <2>1. HasUser(o) /\ run'[o].name = run[o].name /\ run'[o].first = run[o].first
    BY <1>1, <1>2, <1>7
  <2>2. run[o].name \in Names
    BY <2>1, PointTells DEF HasUser
  <2>3. QED
    BY <2>1, <2>2 DEF AInv, UserStored, UsersStay, Exists
<1>8. ASSUME NEW o \in Requests, At(o, "profile")' PROVE CopyTells(o)'
  <2>1. CASE o # r
    <3>1. run'[o] = run[o] /\ At(o, "profile")
      BY <1>1, <1>8, <2>1 DEF At
    <3>2. run[o].name \in Names
      BY <3>1, PointTells DEF At, ProfileOps
    <3>3. QED
      BY <3>1, <3>2 DEF AInv, CopyTells
  <2>2. CASE o = r
    BY <1>8, <2>2 DEF CopyTells
  <2>3. QED
    BY <2>1, <2>2
<1>9. QED
  BY <1>4, <1>5, <1>6, <1>7, <1>8 DEF AInv, UserStored, CopyTells

\* A registration that goes on between its points
LEMMA GoesOnGrantsNothing ==
    ASSUME IInv, IInv', AInv, NEW r \in Requests, NEW p, Proceeds(r, p), roles' = roles,
           permissions' = permissions, \A n \in Names : users'[n].isAdmin = users[n].isAdmin, UsersStay,
           p # "profile", p = "rejected" \/ HasUser(r) \/ run[r].op # "register",
           p \notin {"count", "adminRole", "userRole", "permission", "user"}
    PROVE  AInv'
<1>1. /\ Others(r) /\ run'[r].op = run[r].op /\ run'[r].name = run[r].name /\ run'[r].pc = p
      /\ run'[r].first = run[r].first
  BY DEF Proceeds, Advances
<1>2. ASSUME Claims(r)'
      PROVE  /\ Claims(r) /\ run[r].pc \notin {"userRole", "permission"}
             /\ run'[r].pc \notin {"userRole", "permission"}
             /\ HasUser(r) => HasUser(r)' /\ run'[r].name = run[r].name
  <2>1. run[r].op = "register" /\ run[r].first /\ HasUser(r) /\ p # "rejected"
    BY <1>1, <1>2 DEF Claims
  <2>2. p \in RegisterPCs
    <3>1. run'[r] \in Request /\ AuthFits(run'[r])
      BY <1>1, <2>1, PointTells DEF IInv, Fits, Proceeds, StorageCall, StorageAnswer, StorageOps
    <3>2. QED
      BY <1>1, <2>1, <3>1 DEF AuthFits
  <2>3. QED
    BY <1>1, <2>1, <2>2 DEF Claims, HasUser, RegisterPCs
<1>3. HasUser(r)' => HasUser(r) /\ run'[r].name = run[r].name /\ run'[r].first = run[r].first
  BY <1>1 DEF HasUser
<1>4. ~At(r, "profile")'
  BY <1>1 DEF At
<1>5. QED
  BY <1>1, <1>2, <1>3, <1>4, GrantsNothing

\* The permissions of a role, one more at a time
LEMMA RowsCounted ==
    /\ \A k : RowsBefore(k, 1) = 0 /\ RowsBefore(k, Len(Permissions) + 1) = Rows(k)
    /\ \A k : \A i \in 1 .. Len(Permissions) :
           /\ RowsBefore(k, i) \in Nat
           /\ RowsBefore(k, i + 1) = IF Permissions[i] = k THEN RowsBefore(k, i) + 1 ELSE RowsBefore(k, i)
<1>1. Len(Permissions) \in Nat /\ DOMAIN Permissions = 1 .. Len(Permissions)
  BY LenProperties, AccountsAssumption DEF AccountsAssumption
<1>2. ASSUME NEW k PROVE RowsBefore(k, 1) = 0 /\ RowsBefore(k, Len(Permissions) + 1) = Rows(k)
  <2>1. {j \in 1 .. 1 - 1 : Permissions[j] = k} = {}
    OBVIOUS
  <2>2. RowsBefore(k, 1) = 0
    BY <2>1, FS_EmptySet DEF RowsBefore
  <2>3. 1 .. (Len(Permissions) + 1) - 1 = DOMAIN Permissions
    BY <1>1
  <2>4. QED
    BY <2>2, <2>3 DEF RowsBefore, Rows
<1>3. ASSUME NEW k, NEW i \in 1 .. Len(Permissions)
      PROVE  /\ RowsBefore(k, i) \in Nat
             /\ RowsBefore(k, i + 1) = IF Permissions[i] = k THEN RowsBefore(k, i) + 1 ELSE RowsBefore(k, i)
  <2> DEFINE S == {j \in 1 .. i - 1 : Permissions[j] = k}
  <2>1. IsFiniteSet(1 .. i - 1) /\ S \in SUBSET (1 .. i - 1)
    BY FS_Interval
  <2>2. IsFiniteSet(S) /\ Cardinality(S) \in Nat /\ i \notin S
    BY <2>1, FS_Subset, FS_CardinalityType
  <2>3. {j \in 1 .. (i + 1) - 1 : Permissions[j] = k} = IF Permissions[i] = k THEN S \cup {i} ELSE S
    OBVIOUS
  <2> HIDE DEF S
  <2>4. Cardinality(S \cup {i}) = Cardinality(S) + 1
    BY <2>2, FS_AddElement
  <2>5. RowsBefore(k, i) = Cardinality(S)
    BY DEF RowsBefore, S
  <2>6. QED
    BY <2>2, <2>3, <2>4, <2>5 DEF RowsBefore
<1>4. QED
  BY <1>2, <1>3

LEMMA SaveRolesKeepsOne ==
    ASSUME IInv, AInv, NEW r \in Requests, SaveRoles(r)
    PROVE  AInv'
<1>1. /\ IInv' /\ run[r].op = "register" /\ run[r].first
      /\ UNCHANGED <<users, permissions>>
  BY SaveRolesGoes
<1>2. CASE roles' = roles /\ Proceeds(r, "rejected")
  BY <1>1, <1>2, GoesOnGrantsNothing DEF UsersStay, Exists
<1>3. ASSUME Proceeds(r, "userRole") \/ Proceeds(r, "permission"),
             At(r, "adminRole") \/ At(r, "userRole")
      PROVE  /\ \A o \in Requests \ {r} : run'[o] = run[o]
             /\ run'[r].op = "register" /\ run'[r].first /\ run'[r].next = 1
             /\ ~HasUser(r)' /\ ~At(r, "profile")' /\ ~HasUser(r)
             /\ \A o \in Requests \ {r} : (Claims(o)' <=> Claims(o)) /\ (HasUser(o)' <=> HasUser(o))
             /\ \A o \in Requests : UserStored(o)' /\ CopyTells(o)'
  <2>1. \A o \in Requests \ {r} : run'[o] = run[o]
    BY <1>3 DEF Proceeds, Advances, Others
  <2>2. run'[r].op = "register" /\ run'[r].first /\ run'[r].next = run[r].next
        /\ run'[r].pc \in {"userRole", "permission"}
    BY <1>1, <1>3 DEF Proceeds, Advances
  <2>3. run[r].next = 1
    BY <1>1, <1>3, PointTells DEF AuthFits, At, StorageOps
  <2>4. ~HasUser(r)' /\ ~At(r, "profile")' /\ ~HasUser(r)
    BY <1>3, <2>2 DEF HasUser, At
  <2>5. \A o \in Requests \ {r} : (Claims(o)' <=> Claims(o)) /\ (HasUser(o)' <=> HasUser(o))
    BY <2>1 DEF Claims, HasUser
  <2>6. ASSUME NEW o \in Requests PROVE UserStored(o)' /\ CopyTells(o)'
    BY <1>1, <2>1, <2>4, <2>5 DEF AInv, UserStored, CopyTells, At, Exists
  <2>7. QED
    BY <2>1, <2>2, <2>3, <2>4, <2>5, <2>6
<1>4. CASE /\ At(r, "adminRole") /\ "admin" \notin roles /\ roles' = roles \cup {"admin"}
           /\ Proceeds(r, "userRole")
  <2>1. \A o \in Requests : ~Claims(o)
    BY <1>4 DEF AInv, Claimed
  <2>2. Administrators' = {} /\ \A k \in Roles : permissions'[k] = 0
    BY <1>1, <1>4 DEF AInv, RowsTell, Granted, Roles, Administrators
  <2>3. OneClaim' /\ RowsTell'
    BY <1>3, <1>4, <2>1, <2>2 DEF OneClaim, RowsTell
  <2>4. Claimed(r)' /\ run'[r].pc = "userRole"
    BY <1>4, <2>2 DEF Claimed, At, Proceeds, Advances
  <2>5. QED
    BY <1>3, <1>4, <2>1, <2>3, <2>4 DEF AInv
<1>5. CASE /\ At(r, "userRole") /\ "user" \notin roles /\ roles' = roles \cup {"user"}
           /\ Proceeds(r, "permission")
  <2>1. Claims(r) /\ Claimed(r)
    BY <1>1, <1>5 DEF AInv, Claims, At
  <2>2. \A o \in Requests \ {r} : ~Claims(o)
    BY <2>1 DEF AInv, OneClaim
  <2>3. Administrators' = {} /\ (\A k \in Roles : permissions'[k] = 0)
    BY <1>1, <1>3, <1>5, <2>1 DEF Claimed, Administrators
  <2>4. roles' = Roles
    BY <1>5, <2>1, RowsTyped DEF Claimed, Roles
  <2>5. OneClaim' /\ RowsTell'
    BY <1>3, <1>5, <2>2, <2>3, <2>4 DEF OneClaim, RowsTell, Roles
  <2>6. Claimed(r)'
    BY <1>3, <1>5, <2>3, <2>4, RowsCounted DEF Claimed, At, Proceeds, Advances, Roles
  <2>7. QED
    BY <1>3, <1>5, <2>2, <2>5, <2>6 DEF AInv
<1>6. QED
  BY <1>2, <1>4, <1>5, SaveRolesGoes

LEMMA SavePermissionKeepsOne ==
    ASSUME IInv, AInv, NEW r \in Requests, SavePermission(r)
    PROVE  AInv'
<1> DEFINE i == run[r].next
<1>1. /\ At(r, "permission") /\ run[r].op = "register" /\ run[r].first
      /\ UNCHANGED <<users, roles>> /\ i \in 1 .. Len(Permissions)
      /\ permissions' = [permissions EXCEPT ![Permissions[i]] = @ + 1]
      /\ run'[r].first
      /\ \/ i < Len(Permissions) /\ Advances(r, "permission") /\ run'[r].next = i + 1
         \/ i = Len(Permissions) /\ Advances(r, "user")
  BY SavePermissionGoes
<1>2. /\ \A o \in Requests \ {r} : run'[o] = run[o]
      /\ run'[r].op = "register" /\ run'[r].pc \in {"permission", "user"}
  BY <1>1 DEF Advances, Others
<1>3. Claims(r) /\ Claimed(r)
  BY <1>1 DEF AInv, Claims, At
<1>4. \A o \in Requests \ {r} : ~Claims(o)
  BY <1>3 DEF AInv, OneClaim
<1>5. ~HasUser(r) /\ ~HasUser(r)' /\ ~At(r, "profile")'
  BY <1>1, <1>2 DEF HasUser, At
<1>6. \A o \in Requests \ {r} : ~Claims(o)' /\ (HasUser(o)' <=> HasUser(o))
  BY <1>2, <1>4 DEF Claims, HasUser
<1>7. Administrators' = {}
  BY <1>1, <1>3, <1>5 DEF Claimed, Administrators
<1>8. \A k \in Roles : permissions'[k] = RowsBefore(k, i + 1)
  <2>1. roles = Roles /\ \A k \in Roles : permissions[k] = RowsBefore(k, i)
    BY <1>1, <1>3 DEF Claimed
  <2>2. DOMAIN permissions = Roles
    BY RowsTyped
  <2>3. QED
    BY <1>1, <2>1, <2>2, RowsCounted
<1>9. roles' = Roles
  BY <1>1, <1>3 DEF Claimed
<1>10. OneClaim' /\ RowsTell'
  BY <1>6, <1>7, <1>9 DEF OneClaim, RowsTell, Roles
<1>11. Claimed(r)'
  <2>1. CASE i < Len(Permissions) /\ Advances(r, "permission") /\ run'[r].next = i + 1
    BY <1>7, <1>8, <1>9, <2>1 DEF Claimed, At, Advances, Roles
  <2>2. CASE i = Len(Permissions) /\ Advances(r, "user")
    BY <1>7, <1>8, <1>9, <2>2, RowsCounted DEF Claimed, At, Advances, Roles, Granted
  <2>3. QED
    BY <1>1, <2>1, <2>2
<1>12. ASSUME NEW o \in Requests PROVE UserStored(o)' /\ CopyTells(o)'
  BY <1>1, <1>2, <1>5, <1>6 DEF AInv, UserStored, CopyTells, At, Exists
<1>13. QED
  BY <1>6, <1>10, <1>11, <1>12 DEF AInv

LEMMA SaveUserKeepsOne ==
    ASSUME IInv, AInv, NEW r \in Requests, SaveUser(r)
    PROVE  AInv'
<1> DEFINE q == run[r]
           p == IF q.op = "wallet" THEN "wallet" ELSE IF q.first THEN "assign" ELSE "testHome"
<1>1. /\ IInv' /\ At(r, "user") /\ q.op \in AuthOps /\ UNCHANGED <<roles, permissions>>
      /\ \/ Exists(q.name) /\ users' = users /\ Proceeds(r, "rejected")
         \/ /\ ~Exists(q.name) /\ users' = [users EXCEPT ![q.name] = NewUser(r, q)]
            /\ NewUser(r, q) # NoUser /\ Proceeds(r, p)
  BY SaveUserGoes
<1>2. CASE Exists(q.name) /\ users' = users /\ Proceeds(r, "rejected")
  BY <1>1, <1>2, GoesOnGrantsNothing DEF UsersStay, Exists
<1>3. CASE /\ ~Exists(q.name) /\ users' = [users EXCEPT ![q.name] = NewUser(r, q)]
           /\ NewUser(r, q) # NoUser /\ Proceeds(r, p)
  <2>1. /\ \A o \in Requests \ {r} : run'[o] = run[o]
        /\ run'[r].op = q.op /\ run'[r].name = q.name /\ run'[r].pc = p /\ run'[r].first = q.first
    BY <1>3 DEF Proceeds, Advances, Others
  <2>2. q \in Request /\ q.name \in Names /\ q.first \in BOOLEAN
    BY <1>1, PointTells DEF AuthOps, StorageOps, Request
  <2>3. DOMAIN users = Names
    BY RowsTyped
  <2>4. /\ \A n \in Names \ {q.name} : users'[n] = users[n]
        /\ users'[q.name] = NewUser(r, q) /\ users'[q.name].isAdmin = (q.first /\ q.op = "register")
    BY <1>3, <2>2, <2>3 DEF NewUser
  <2>5. \A o \in Requests \ {r} : (Claims(o)' <=> Claims(o)) /\ (HasUser(o)' <=> HasUser(o))
    BY <2>1 DEF Claims, HasUser
  <2>6. ~HasUser(r) /\ ~At(r, "profile")' /\ (HasUser(r)' <=> q.op = "register")
    BY <1>1, <2>1 DEF HasUser, At, AuthOps
  <2>7. (Claims(r)' <=> Claims(r)) /\ (Claims(r) <=> q.op = "register" /\ q.first)
    BY <1>1, <2>1 DEF Claims, At, AuthOps
  <2>8. users[q.name].isAdmin = FALSE
    BY <1>3 DEF Exists, NoUser
  <2>9. ASSUME NEW o \in Requests PROVE UserStored(o)' /\ CopyTells(o)'
    <3>1. CASE o = r
      <4>1. q.op = "register" => users'[q.name].isAdmin = q.first
        BY <2>2, <2>4
      <4>2. users'[q.name] # NoUser
        BY <1>3, <2>4
      <4> HIDE DEF p
      <4>3. UserStored(r)'
        BY <2>1, <2>6, <4>1, <4>2 DEF UserStored, Exists
      <4>4. CopyTells(r)'
        BY <2>6 DEF CopyTells
      <4>5. QED
        BY <3>1, <4>3, <4>4
    <3>2. CASE o # r
      <4>1. ASSUME HasUser(o) \/ At(o, "profile") PROVE run[o].name \in Names \ {q.name}
        BY <1>3, <4>1, PointTells DEF AInv, UserStored, IInv, Known, At, HasUser, ProfileOps
      <4>2. QED
        BY <2>1, <2>4, <2>5, <3>2, <4>1 DEF AInv, UserStored, CopyTells, At, Exists
    <3>3. QED
      BY <3>1, <3>2
  <2>10. OneClaim'
    BY <2>5, <2>7 DEF AInv, OneClaim
  <2>11. CASE Claims(r)
    <3>1. Claimed(r) /\ \A o \in Requests \ {r} : ~Claims(o)'
      BY <2>5, <2>11 DEF AInv, OneClaim
    <3>2. Administrators = {} /\ Granted /\ "admin" \in roles
      BY <1>1, <2>6, <3>1 DEF Claimed, At, Administrators
    <3>3. Administrators' = {q.name} /\ Granted' /\ "admin" \in roles'
      BY <1>1, <2>2, <2>4, <2>7, <2>11, <3>2 DEF Administrators, Granted
    <3>4. RowsTell'
      BY <3>3 DEF RowsTell
    <3>5. Claimed(r)'
      BY <2>1, <2>6, <2>7, <2>11, <3>3 DEF Claimed, At, AuthOps
    <3>6. QED
      BY <2>9, <2>10, <3>1, <3>4, <3>5 DEF AInv
  <2>12. CASE ~Claims(r)
    <3>1. Administrators' = Administrators /\ (Granted' <=> Granted)
      BY <1>1, <2>4, <2>7, <2>8, <2>12 DEF Administrators, Granted
    <3>2. RowsTell'
      BY <1>1, <3>1 DEF AInv, RowsTell
    <3>3. ASSUME NEW o \in Requests, Claims(o)' PROVE Claimed(o)'
      <4>1. o # r /\ Claims(o) /\ Claimed(o) /\ run'[o] = run[o]
        BY <2>1, <2>5, <2>7, <2>12, <3>3 DEF AInv
      <4>2. QED
        BY <1>1, <2>5, <3>1, <4>1 DEF Claimed, At
    <3>4. QED
      BY <2>9, <2>10, <3>2, <3>3 DEF AInv
  <2>13. QED
    BY <2>11, <2>12
<1>4. QED
  BY <1>1, <1>2, <1>3

LEMMA NextKeepsOne ==
    ASSUME IInv, AInv, [Next]_vars
    PROVE  AInv'
<1>0. IInv'
  BY NextTypes
<1>1. CASE UNCHANGED vars
  BY <1>1 DEF vars, rows, own, AInv, OneClaim, RowsTell, Claims, Claimed, UserStored, CopyTells,
     HasUser, Granted, Administrators, Exists, At
<1>2. ASSUME NEW r \in Requests, StorageMoves(r) PROVE AInv'
  <2>1. Others(r) /\ UNCHANGED own /\ run'[r].op \in StorageOps
    BY <1>2, MovesQuiet
  <2>2. ~Claims(r)' /\ ~HasUser(r)' /\ ~At(r, "profile")'
    BY <1>0, <2>1, PointTells DEF Claims, HasUser, At, StorageOps, IInv, Fits, StorageCall, StorageAnswer,
       StoragePCs, Request, AuthOps, UserOps, ProfileOps
  <2>3. roles' = roles /\ permissions' = permissions /\ users' = users
    BY <2>1 DEF own
  <2>4. QED
    BY <1>0, <2>1, <2>2, <2>3, GrantsNothing DEF UsersStay, Exists
<1>3. ASSUME NEW r \in Requests, NEW op \in AuthOps, NEW n \in Names, FindUser(r, op, n) PROVE AInv'
  <2>1. /\ Others(r) /\ ~run'[r].first /\ run'[r].pc \in {"count", "home", "rejected"} /\ UNCHANGED rows
    BY <1>3, FindUserGoes DEF BeginsAs
  <2>2. ~Claims(r)' /\ ~HasUser(r)' /\ ~At(r, "profile")'
    BY <2>1 DEF Claims, HasUser, At
  <2>3. roles' = roles /\ permissions' = permissions /\ users' = users
    BY <2>1 DEF own, rows
  <2>4. QED
    BY <1>0, <2>1, <2>2, <2>3, GrantsNothing DEF UsersStay, Exists
<1>4. ASSUME NEW r \in Requests, NEW op \in UserOps, NEW n \in Names, UseAccount(r, op, n) PROVE AInv'
  <2>1. /\ Others(r) /\ run'[r].op = op /\ run'[r].name = n /\ UNCHANGED rows
        /\ run'[r].pc = "profile" => run'[r].row.isAdmin = users[n].isAdmin
    BY <1>4, UseAccountGoes DEF BeginsAs
  <2>2. ~Claims(r)' /\ ~HasUser(r)'
    BY <2>1 DEF Claims, HasUser, UserOps, ProfileOps
  <2>3. roles' = roles /\ permissions' = permissions /\ users' = users
    BY <2>1 DEF own, rows
  <2>4. At(r, "profile")' => run'[r].name \in Names /\ users[run'[r].name].isAdmin = run'[r].row.isAdmin
    BY <2>1 DEF At
  <2>5. QED
    BY <1>0, <2>1, <2>2, <2>3, <2>4, GrantsNothing DEF UsersStay, Exists
<1>5. ASSUME NEW r \in Requests, CountUsers(r) PROVE AInv'
  <2>1. /\ Others(r) /\ UNCHANGED rows /\ run'[r].pc \in {"adminRole", "user"} /\ run'[r].op = run[r].op
        /\ run[r].op = "register" => (At(r, "adminRole")' <=> run'[r].first)
    BY <1>5, CountUsersGoes DEF Advances
  <2>2. ~Claims(r)' /\ ~HasUser(r)' /\ ~At(r, "profile")'
    BY <2>1 DEF Claims, HasUser, At
  <2>3. roles' = roles /\ permissions' = permissions /\ users' = users
    BY <2>1 DEF own, rows
  <2>4. QED
    BY <1>0, <2>1, <2>2, <2>3, GrantsNothing DEF UsersStay, Exists
<1>6. ASSUME NEW r \in Requests, NEW kind \in Kinds, FindDir(r, kind) \/ TestDir(r, kind) \/ SaveDir(r, kind)
      PROVE  AInv'
  <2>1. /\ roles' = roles /\ permissions' = permissions /\ users' = users
        /\ HasUser(r) \/ run[r].op # "register"
        /\ \E p \in {"share", "done", "testHome", "testShare", "saveHome", "saveShare", "rejected", "link"} :
               Proceeds(r, p)
    BY <1>6, FindDirGoes, TestDirGoes, SaveDirGoes DEF rows, own, HasUser, At, AuthOps
  <2>2. UsersStay /\ \A n \in Names : users'[n].isAdmin = users[n].isAdmin
    BY <2>1 DEF UsersStay, Exists
  <2>3. QED
    BY <1>0, <2>1, <2>2, GoesOnGrantsNothing
<1>7. ASSUME NEW r \in Requests, AssignRole(r) \/ CreateAgent(r) \/ CreateWallet(r) \/ LogIn(r) PROVE AInv'
  <2>1. /\ roles' = roles /\ permissions' = permissions /\ users' = users
        /\ HasUser(r) \/ run[r].op # "register"
        /\ \E p \in {"testHome", "done", "rejected"} : Proceeds(r, p)
    BY <1>7, AssignRoleGoes, CreateAgentGoes, CreateWalletGoes, LogInGoes DEF rows, own, HasUser, At
  <2>2. UsersStay /\ \A n \in Names : users'[n].isAdmin = users[n].isAdmin
    BY <2>1 DEF UsersStay, Exists
  <2>3. QED
    BY <1>0, <2>1, <2>2, GoesOnGrantsNothing
<1>8. ASSUME NEW r \in Requests, NEW u, users' = [users EXCEPT ![run[r].name] = u],
             u.isAdmin = users[run[r].name].isAdmin, u # NoUser
      PROVE  UsersStay /\ \A n \in Names : users'[n].isAdmin = users[n].isAdmin
  BY <1>8, RowsTyped DEF UsersStay, Exists
<1>9. ASSUME NEW r \in Requests, LinkDirs(r) PROVE AInv'
  <2> DEFINE u == [NewUser(r, run[r]) EXCEPT !.linked = TRUE]
  <2>1. /\ At(r, "link") /\ run[r].op = "register" /\ roles' = roles /\ permissions' = permissions
        /\ Proceeds(r, "agent") /\ users' = [users EXCEPT ![run[r].name] = u]
        /\ u # NoUser /\ u.isAdmin = run[r].first
    BY <1>9, LinkDirsGoes
  <2> HIDE DEF u
  <2>2. HasUser(r)
    BY <2>1 DEF HasUser, At
  <2>3. u.isAdmin = users[run[r].name].isAdmin
    BY <2>1, <2>2 DEF AInv, UserStored
  <2>4. QED
    BY <1>0, <1>8, <2>1, <2>2, <2>3, GoesOnGrantsNothing
<1>10. ASSUME NEW r \in Requests, SavePassword(r) PROVE AInv'
  <2>1. /\ run[r].op = "changePassword" /\ roles' = roles /\ permissions' = permissions /\ Proceeds(r, "done")
        /\ \E u \in User : /\ users' = [users EXCEPT ![run[r].name] = u] /\ u # NoUser
                           /\ u.isAdmin = users[run[r].name].isAdmin
    BY <1>10, SavePasswordGoes
  <2>2. UsersStay /\ \A n \in Names : users'[n].isAdmin = users[n].isAdmin
    BY <1>8, <2>1
  <2>3. QED
    BY <1>0, <2>1, <2>2, GoesOnGrantsNothing
<1>11. ASSUME NEW r \in Requests, SaveProfile(r) PROVE AInv'
  <2>1. /\ At(r, "profile") /\ run[r].op \in ProfileOps /\ roles' = roles /\ permissions' = permissions
        /\ Advances(r, "done") /\ users' = [users EXCEPT ![run[r].name] = run[r].row]
        /\ run[r].row # NoUser
    BY <1>11, SaveProfileGoes
  <2>2. users[run[r].name].isAdmin = run[r].row.isAdmin
    BY <2>1 DEF AInv, CopyTells
  <2>3. UsersStay /\ \A n \in Names : users'[n].isAdmin = users[n].isAdmin
    BY <1>8, <2>1, <2>2
  <2>4. ~Claims(r)' /\ ~HasUser(r)' /\ ~At(r, "profile")' /\ Others(r)
    BY <2>1 DEF Claims, HasUser, At, Advances, ProfileOps
  <2>5. QED
    BY <1>0, <2>1, <2>3, <2>4, GrantsNothing
<1>12. ASSUME NEW r \in Requests, QueryFails(r) PROVE AInv'
  <2>1. /\ Others(r) /\ UNCHANGED rows /\ run'[r].pc \in {"done", "rejected"} /\ run'[r].op = run[r].op
        /\ run[r].op = "register" => run'[r].pc = "rejected"
    BY <1>12, QueryFailsGoes DEF Advances
  <2>2. ~Claims(r)' /\ ~HasUser(r)' /\ ~At(r, "profile")'
    BY <2>1 DEF Claims, HasUser, At
  <2>3. roles' = roles /\ permissions' = permissions /\ users' = users
    BY <2>1 DEF own, rows
  <2>4. QED
    BY <1>0, <2>1, <2>2, <2>3, GrantsNothing DEF UsersStay, Exists
<1>13. QED
  BY <1>1, <1>2, <1>3, <1>4, <1>5, <1>6, <1>7, <1>9, <1>10, <1>11, <1>12, SaveRolesKeepsOne,
     SavePermissionKeepsOne, SaveUserKeepsOne DEF Next, StorageMoves

LEMMA InitOne ==
    ASSUME Init
    PROVE  AInv
<1>1. /\ Fresh \/ \E n \in Names : Registered(n)
      /\ run = [r \in Requests |-> IdleRequest]
  BY DEF Init
<1>2. \A r \in Requests : ~Claims(r) /\ ~HasUser(r) /\ ~At(r, "profile")
  BY <1>1 DEF IdleRequest, Claims, HasUser, At
<1>3. OneClaim /\ \A r \in Requests : (Claims(r) => Claimed(r)) /\ UserStored(r) /\ CopyTells(r)
  BY <1>2 DEF OneClaim, UserStored, CopyTells
<1>4. CASE Fresh
  <2>1. Administrators = {} /\ roles = {} /\ \A k \in Roles : permissions[k] = 0
    BY <1>4 DEF Fresh, Administrators, NoUser
  <2>2. RowsTell
    BY <2>1 DEF RowsTell
  <2>3. QED
    BY <1>3, <2>2 DEF AInv
<1>5. CASE \E n \in Names : Registered(n)
  <2>1. PICK n \in Names : Registered(n)
    BY <1>5
  <2>2. Administrators \subseteq {n} /\ roles = Roles /\ \A k \in Roles : permissions[k] = Rows(k)
    BY <2>1 DEF Registered, Administrators, NoUser
  <2>3. RowsTell
    BY <2>2 DEF RowsTell, Granted, Roles
  <2>4. QED
    BY <1>3, <2>3 DEF AInv
<1>6. QED
  BY <1>1, <1>4, <1>5

\* However many registrations believe they are the first, and whatever else runs and
\* fails, one user at most becomes the administrator, and not before both roles and
\* every permission are stored
THEOREM AdministratorIsOne == Spec => []OneAdministrator
<1>1. IInv /\ AInv /\ [Next]_vars => IInv' /\ AInv'
  BY NextTypes, NextKeepsOne
<1>2. Init => IInv /\ AInv
  BY InitTypes, InitOne
<1>3. ASSUME AInv PROVE OneAdministrator
  <2>1. Cardinality(Administrators) <= 1
    <3>1. CASE Administrators = {}
      BY <3>1, FS_EmptySet
    <3>2. CASE Administrators # {}
      <4>1. PICK n : n \in Administrators
        BY <3>2
      <4>2. Administrators = {n}
        BY <1>3, <4>1 DEF AInv, RowsTell
      <4>3. QED
        BY <4>2, FS_Singleton
    <3>3. QED
      BY <3>1, <3>2
  <2>2. Administrators # {} => roles = Roles /\ \A k \in Roles : permissions[k] = Rows(k)
    BY <1>3 DEF AInv, RowsTell, Granted
  <2>3. QED
    BY <2>1, <2>2 DEF OneAdministrator
<1>4. QED
  BY <1>1, <1>2, <1>3, PTL DEF Spec

-----------------------------------------------------------------------------
(* Passwords *)

\* Requests that share a name stay noted
LEMMA SharingKept ==
    ASSUME IInv, NameShared, NEW r \in Requests, Others(r), overlapped \subseteq overlapped',
           \/ run'[r].pc \in Ended
           \/ run'[r].op \in StorageOps
           \/ Live(r) /\ run[r].op \notin StorageOps /\ run'[r].name = run[r].name
           \/ \A o \in Requests \ {r} : Live(o) /\ run[o].op \notin StorageOps /\ run[o].name = run'[r].name
                  => run'[r].name \in overlapped'
    PROVE  NameShared'
<1>1. \A o \in Requests \ {r} : run'[o] = run[o]
  BY DEF Others
<1>2. QED
  BY <1>1 DEF NameShared, Live

\* A begun request notes with whom it overlaps
LEMMA OverlapNoted ==
    ASSUME IInv, NEW r \in Requests, NEW n \in Names, NotesOverlap(r, n)
    PROVE  /\ overlapped \subseteq overlapped'
           /\ \A o \in Requests \ {r} : Live(o) /\ run[o].name = n => n \in overlapped'
<1>1. overlapped \subseteq Names
  BY DEF IInv, TypeOK
<1>2. QED
  BY <1>1 DEF NotesOverlap, OthersLive

LEMMA SavedLastKept ==
    ASSUME IInv, IInv', PInv, NEW r \in Requests, Others(r), overlapped \subseteq overlapped', NameShared',
           \A n \in Names \ overlapped' :
               \/ users'[n].password = users[n].password
               \/ \A o \in Requests \ {r} :
                      run[o].name = n => ~(HasUser(o) /\ Live(o)) /\ ~At(o, "profile"),
           SavedLast(r)'
    PROVE  PInv'
<1>1. \A o \in Requests \ {r} : run'[o] = run[o]
  BY DEF Others
<1>2. ASSUME NEW o \in Requests, o # r PROVE SavedLast(o)'
  <2>1. run'[o] = run[o] /\ (HasUser(o)' <=> HasUser(o)) /\ (Live(o)' <=> Live(o))
        /\ (At(o, "profile")' <=> At(o, "profile"))
    BY <1>1, <1>2 DEF HasUser, Live, At
  <2>2. HasUser(o) \/ At(o, "profile") => run[o].name \in Names
    BY PointTells DEF HasUser, At, ProfileOps
  <2>3. SavedLast(o)
    BY DEF PInv
  <2>4. QED
    BY <1>2, <2>1, <2>2, <2>3 DEF SavedLast
<1>3. QED
  BY <1>2 DEF PInv

\* A request that goes on, while the passwords of unshared names stay
LEMMA GoesOnSaved ==
    ASSUME IInv, IInv', PInv, NEW r \in Requests, NEW p, Advances(r, p), Live(r), run[r].op \notin StorageOps,
           overlapped' = overlapped,
           \A n \in Names \ overlapped : users'[n].password = users[n].password,
           HasUser(r)' /\ p \notin Ended => HasUser(r), p # "profile"
    PROVE  PInv'
<1>1. /\ Others(r) /\ run'[r].op = run[r].op /\ run'[r].name = run[r].name /\ run'[r].pc = p
  BY DEF Advances
<1>2. NameShared'
  BY <1>1, SharingKept DEF PInv
<1>3. SavedLast(r)'
  <2>1. ~At(r, "profile")' /\ (Live(r)' <=> p \notin Ended)
    BY <1>1 DEF At, Live
  <2>2. HasUser(r) => run[r].name \in Names
    BY PointTells DEF HasUser
  <2>3. SavedLast(r)
    BY DEF PInv
  <2>4. QED
    BY <1>1, <2>1, <2>2, <2>3 DEF SavedLast
<1>4. QED
  BY <1>1, <1>2, <1>3, SavedLastKept

\* At a point of accounts, a request is live and not one of the storage
LEMMA AtPoint ==
    ASSUME IInv, NEW r \in Requests, run[r].pc \in PCs \ {"idle", "done", "rejected"}
    PROVE  Live(r) /\ run[r].op \notin StorageOps /\ run[r].name \in Names
<1>1. run[r].pc \notin StoragePCs \cup Ended
  BY PointsDiffer DEF Ended
<1>2. QED
  BY <1>1, PointTells DEF Live, AuthFits, Ended

LEMMA NextSaved ==
    ASSUME IInv, AInv, PInv, [Next]_vars
    PROVE  PInv'
<1>0. IInv'
  BY NextTypes
<1>1. CASE UNCHANGED vars
  BY <1>1 DEF vars, rows, own, PInv, NameShared, SavedLast, HasUser, Live, At
<1>2. ASSUME NEW r \in Requests, StorageMoves(r) PROVE PInv'
  <2>1. /\ Others(r) /\ UNCHANGED own /\ run'[r].op \in StorageOps /\ overlapped \subseteq overlapped'
    BY <1>2, MovesQuiet
  <2>2. ~HasUser(r)' /\ ~At(r, "profile")'
    BY <1>0, <2>1, PointTells DEF HasUser, At, StorageOps, IInv, Fits, StorageCall, StorageAnswer,
       StoragePCs, Request, AuthOps, UserOps, ProfileOps
  <2>3. NameShared' /\ SavedLast(r)' /\ users' = users
    BY <2>1, <2>2, SharingKept DEF PInv, SavedLast, own
  <2>4. QED
    BY <1>0, <2>1, <2>3, SavedLastKept
<1>3. ASSUME NEW r \in Requests, NEW op \in AuthOps, NEW n \in Names, FindUser(r, op, n) PROVE PInv'
  <2>1. /\ Others(r) /\ run'[r].pc \in {"count", "home", "rejected"} /\ users' = users /\ run'[r].name = n
    BY <1>3, FindUserGoes DEF BeginsAs, rows, own
  <2>2. /\ overlapped \subseteq overlapped'
        /\ \A o \in Requests \ {r} : Live(o) /\ run[o].name = n => n \in overlapped'
    BY <1>3, OverlapNoted DEF FindUser
  <2>3. NameShared' /\ SavedLast(r)'
    BY <2>1, <2>2, SharingKept DEF PInv, SavedLast, HasUser, At
  <2>4. QED
    BY <1>0, <2>1, <2>2, <2>3, SavedLastKept
<1>4. ASSUME NEW r \in Requests, NEW op \in UserOps, NEW n \in Names, UseAccount(r, op, n) PROVE PInv'
  <2>1. /\ Others(r) /\ users' = users /\ run'[r].name = n /\ run'[r].op = op
        /\ run'[r].pc = "profile" => run'[r].row.password = users[n].password
    BY <1>4, UseAccountGoes DEF BeginsAs, rows, own
  <2>2. /\ overlapped \subseteq overlapped'
        /\ \A o \in Requests \ {r} : Live(o) /\ run[o].name = n => n \in overlapped'
    BY <1>4, OverlapNoted DEF UseAccount
  <2>3. NameShared' /\ SavedLast(r)'
    BY <2>1, <2>2, SharingKept DEF PInv, SavedLast, HasUser, At, UserOps, ProfileOps
  <2>4. QED
    BY <1>0, <2>1, <2>2, <2>3, SavedLastKept
<1>5. ASSUME NEW r \in Requests, NEW p, Advances(r, p), Live(r), run[r].op \notin StorageOps, users' = users,
             overlapped' = overlapped, HasUser(r)' /\ p \notin Ended => HasUser(r), p # "profile"
      PROVE  PInv'
  BY <1>0, <1>5, GoesOnSaved
<1>6. ASSUME NEW r \in Requests, NEW kind \in Kinds, FindDir(r, kind) \/ TestDir(r, kind) \/ SaveDir(r, kind)
      PROVE  PInv'
  <2>1. /\ users' = users /\ overlapped' = overlapped
        /\ HasUser(r) \/ run[r].op # "register"
        /\ \E p \in {"share", "done", "testHome", "testShare", "saveHome", "saveShare", "rejected", "link"} :
               Proceeds(r, p)
    BY <1>6, FindDirGoes, TestDirGoes, SaveDirGoes DEF rows, own, HasUser, At, AuthOps
  <2>2. run[r].pc \in PCs \ {"idle", "done", "rejected"}
    BY <1>6 DEF FindDir, TestDir, SaveDir, At, Kinds, PCs
  <2>3. Live(r) /\ run[r].op \notin StorageOps
    BY <2>2, AtPoint
  <2>4. PICK p \in {"share", "done", "testHome", "testShare", "saveHome", "saveShare", "rejected", "link"} :
            Proceeds(r, p)
    BY <2>1
  <2>5. Advances(r, p) /\ run'[r].op = run[r].op
    BY <2>4 DEF Proceeds, Advances
  <2>6. HasUser(r)' => HasUser(r)
    BY <2>1, <2>5 DEF HasUser
  <2>7. p # "profile"
    OBVIOUS
  <2>8. QED
    BY <1>5, <2>1, <2>3, <2>5, <2>6, <2>7
<1>7. ASSUME NEW r \in Requests,
             CountUsers(r) \/ SaveRoles(r) \/ SavePermission(r) \/ AssignRole(r) \/ CreateAgent(r)
                 \/ CreateWallet(r) \/ LogIn(r)
      PROVE  PInv'
  <2>1. /\ users' = users /\ overlapped' = overlapped
        /\ \E p \in {"adminRole", "user", "userRole", "permission", "rejected", "testHome", "done"} :
               Advances(r, p) /\ (p = "testHome" => HasUser(r))
    BY <1>7, CountUsersGoes, SaveRolesGoes, SavePermissionGoes, AssignRoleGoes, CreateAgentGoes,
       CreateWalletGoes, LogInGoes DEF rows, own, HasUser, At, Proceeds
  <2>2. run[r].pc \in PCs \ {"idle", "done", "rejected"}
    BY <1>7 DEF CountUsers, SaveRoles, SavePermission, AssignRole, CreateAgent, CreateWallet, LogIn, At, PCs
  <2>3. Live(r) /\ run[r].op \notin StorageOps
    BY <2>2, AtPoint
  <2>4. QED
    BY <1>5, <2>1, <2>3 DEF Advances, HasUser, Ended
<1>8. ASSUME NEW r \in Requests, SaveUser(r) PROVE PInv'
  <2> DEFINE q == run[r]
             p == IF q.op = "wallet" THEN "wallet" ELSE IF q.first THEN "assign" ELSE "testHome"
  <2>1. /\ At(r, "user") /\ overlapped' = overlapped
        /\ \/ Exists(q.name) /\ users' = users /\ Proceeds(r, "rejected")
           \/ /\ ~Exists(q.name) /\ users' = [users EXCEPT ![q.name] = NewUser(r, q)] /\ Proceeds(r, p)
    BY <1>8, SaveUserGoes
  <2>2. Live(r) /\ q.op \notin StorageOps /\ q.name \in Names
    BY <2>1, AtPoint DEF At, PCs
  <2>3. CASE Exists(q.name) /\ users' = users /\ Proceeds(r, "rejected")
    BY <1>5, <2>1, <2>2, <2>3 DEF Proceeds, Ended
  <2>4. CASE ~Exists(q.name) /\ users' = [users EXCEPT ![q.name] = NewUser(r, q)] /\ Proceeds(r, p)
    <3>1. Others(r) /\ run'[r].name = q.name /\ run'[r].pc = p
      BY <2>4 DEF Proceeds, Advances
    <3>2. users'[q.name].password = r /\ \A n \in Names \ {q.name} : users'[n] = users[n]
      BY <2>2, <2>4, RowsTyped DEF NewUser
    <3>3. \A o \in Requests \ {r} : run[o].name = q.name => ~(HasUser(o) /\ Live(o)) /\ ~At(o, "profile")
      BY <2>4 DEF AInv, UserStored, IInv, Known, At
    <3>4. NameShared'
      BY <2>1, <2>2, <3>1, SharingKept DEF PInv
    <3>5. SavedLast(r)'
      BY <3>1, <3>2 DEF SavedLast, At
    <3> HIDE DEF p, q
    <3>6. QED
      BY <1>0, <2>1, <3>1, <3>2, <3>3, <3>4, <3>5, SavedLastKept
  <2>5. QED
    BY <2>1, <2>3, <2>4
<1>9. ASSUME NEW r \in Requests, LinkDirs(r) PROVE PInv'
  <2> DEFINE u == [NewUser(r, run[r]) EXCEPT !.linked = TRUE]
  <2>1. /\ At(r, "link") /\ run[r].op = "register" /\ overlapped' = overlapped /\ run[r].name \in Names
        /\ Advances(r, "agent") /\ users' = [users EXCEPT ![run[r].name] = u] /\ u.password = r
    BY <1>9, LinkDirsGoes DEF Proceeds
  <2> HIDE DEF u
  <2>2. Live(r) /\ run[r].op \notin StorageOps /\ HasUser(r)
    BY <2>1, AtPoint DEF At, PCs, HasUser
  <2>3. \A n \in Names \ overlapped : users'[n].password = users[n].password
    BY <2>1, <2>2, RowsTyped DEF PInv, SavedLast
  <2>4. QED
    BY <1>0, <2>1, <2>2, <2>3, GoesOnSaved
<1>10. ASSUME NEW r \in Requests, SavePassword(r) PROVE PInv'
  <2>1. /\ At(r, "password") /\ run[r].op = "changePassword" /\ overlapped' = overlapped
        /\ run[r].name \in Names /\ Others(r) /\ run'[r].op = run[r].op /\ run'[r].name = run[r].name
        /\ run'[r].pc = "done" /\ \E u : users' = [users EXCEPT ![run[r].name] = u]
    BY <1>10, SavePasswordGoes DEF Proceeds, Advances
  <2>2. Live(r) /\ run[r].op \notin StorageOps
    BY <2>1, AtPoint DEF At, PCs
  <2>3. \A n \in Names \ {run[r].name} : users'[n] = users[n]
    BY <2>1, RowsTyped
  <2>4. ASSUME run[r].name \notin overlapped, NEW o \in Requests \ {r}, run[o].name = run[r].name
        PROVE  ~(HasUser(o) /\ Live(o)) /\ ~At(o, "profile")
    <3>1. HasUser(o) /\ Live(o) => run[o].op \notin StorageOps
      BY DEF HasUser, StorageOps
    <3>2. At(o, "profile") => Live(o) /\ run[o].op \notin StorageOps
      BY AtPoint DEF At, PCs
    <3>3. QED
      BY <2>2, <2>4, <3>1, <3>2 DEF PInv, NameShared
  <2>5. NameShared' /\ SavedLast(r)'
    BY <2>1, SharingKept DEF PInv, SavedLast, HasUser, At, Ended
  <2>6. QED
    BY <1>0, <2>1, <2>3, <2>4, <2>5, SavedLastKept
<1>11. ASSUME NEW r \in Requests, SaveProfile(r) PROVE PInv'
  <2>1. /\ At(r, "profile") /\ run[r].op \in ProfileOps /\ overlapped' = overlapped /\ run[r].name \in Names
        /\ Advances(r, "done") /\ users' = [users EXCEPT ![run[r].name] = run[r].row]
    BY <1>11, SaveProfileGoes
  <2>2. Live(r) /\ run[r].op \notin StorageOps
    BY <2>1, AtPoint DEF At, PCs
  <2>3. \A n \in Names \ overlapped : users'[n].password = users[n].password
    BY <2>1, RowsTyped DEF PInv, SavedLast
  <2>4. QED
    BY <1>0, <2>1, <2>2, <2>3, GoesOnSaved DEF Ended
<1>12. ASSUME NEW r \in Requests, QueryFails(r) PROVE PInv'
  <2>1. /\ Others(r) /\ UNCHANGED rows /\ run'[r].pc \in {"done", "rejected"} /\ overlapped' = overlapped
    BY <1>12, QueryFailsGoes DEF Advances
  <2>2. NameShared' /\ SavedLast(r)' /\ users' = users
    BY <2>1, SharingKept DEF PInv, SavedLast, At, Live, Ended, rows, own
  <2>3. QED
    BY <1>0, <2>1, <2>2, SavedLastKept
<1>13. QED
  BY <1>1, <1>2, <1>3, <1>4, <1>6, <1>7, <1>8, <1>9, <1>10, <1>11, <1>12 DEF Next, StorageMoves

LEMMA InitIdle ==
    ASSUME Init
    PROVE  \A r \in Requests : /\ run[r].pc = "idle" /\ run[r].op = "none"
                               /\ ~Live(r) /\ ~HasUser(r) /\ ~At(r, "profile")
BY DEF Init, IdleRequest, Live, Ended, HasUser, At

\* What a step may do to the password of a user who was there
PasswordStep ==
    \A n \in Names : Exists(n) /\ users'[n].password # users[n].password =>
           \/ \E r \in Requests : At(r, "password") /\ run[r].name = n /\ users'[n].password = r
           \/ /\ n \in overlapped
              /\ \E r \in Requests : run[r].name = n /\ run[r].pc \in {"link", "profile"}

LEMMA PasswordOnly ==
    ASSUME IInv, PInv, [Next]_vars
    PROVE  PasswordStep
<1>1. users' = users => PasswordStep
  BY DEF PasswordStep
<1>2. CASE UNCHANGED vars
  BY <1>1, <1>2 DEF vars, rows, own
<1>3. ASSUME NEW r \in Requests, StorageMoves(r) PROVE PasswordStep
  BY <1>1, <1>3, MovesQuiet DEF own
<1>4. ASSUME NEW r \in Requests, NEW n \in Names, NEW op,
             \/ op \in AuthOps /\ FindUser(r, op, n)
             \/ op \in UserOps /\ UseAccount(r, op, n)
      PROVE  PasswordStep
  BY <1>1, <1>4 DEF FindUser, UseAccount, rows, own
<1>5. ASSUME NEW r \in Requests, NEW kind \in Kinds, FindDir(r, kind) \/ TestDir(r, kind) \/ SaveDir(r, kind)
      PROVE  PasswordStep
  BY <1>1, <1>5 DEF FindDir, TestDir, SaveDir, rows, own
<1>6. ASSUME NEW r \in Requests,
             CountUsers(r) \/ SaveRoles(r) \/ SavePermission(r) \/ AssignRole(r) \/ CreateAgent(r)
                 \/ CreateWallet(r) \/ LogIn(r) \/ QueryFails(r)
      PROVE  PasswordStep
  <2>1. users' = users
    BY <1>6 DEF CountUsers, SaveRoles, SavePermission, AssignRole, CreateAgent, CreateWallet, LogIn,
       QueryFails, rows, own
  <2>2. QED
    BY <1>1, <2>1
<1>7. ASSUME NEW r \in Requests, NEW u, run[r].name \in Names, users' = [users EXCEPT ![run[r].name] = u],
             \/ ~Exists(run[r].name)
             \/ u.password = users[run[r].name].password
             \/ At(r, "password") /\ u.password = r
             \/ run[r].name \in overlapped /\ run[r].pc \in {"link", "profile"}
      PROVE  PasswordStep
  BY <1>7, RowsTyped DEF PasswordStep
<1>8. ASSUME NEW r \in Requests, SaveUser(r) PROVE PasswordStep
  <2>1. At(r, "user") /\ run[r].name \in Names
    BY <1>8, SaveUserGoes, AtPoint DEF At, PCs
  <2>2. QED
    BY <1>1, <1>7, <1>8, <2>1, SaveUserGoes
<1>9. ASSUME NEW r \in Requests, LinkDirs(r) PROVE PasswordStep
  <2> DEFINE u == [NewUser(r, run[r]) EXCEPT !.linked = TRUE]
  <2>1. /\ At(r, "link") /\ run[r].op = "register" /\ run[r].name \in Names
        /\ users' = [users EXCEPT ![run[r].name] = u] /\ u.password = r
    BY <1>9, LinkDirsGoes
  <2> HIDE DEF u
  <2>2. Live(r) /\ HasUser(r)
    BY <2>1, AtPoint DEF At, PCs, HasUser
  <2>3. run[r].name \in overlapped \/ u.password = users[run[r].name].password
    BY <2>1, <2>2 DEF PInv, SavedLast
  <2>4. QED
    BY <1>7, <2>1, <2>3 DEF At
<1>10. ASSUME NEW r \in Requests, SavePassword(r) PROVE PasswordStep
  <2>1. /\ At(r, "password") /\ run[r].name \in Names
        /\ \E u \in User : users' = [users EXCEPT ![run[r].name] = u] /\ u.password = r
    BY <1>10, SavePasswordGoes
  <2>2. QED
    BY <1>7, <2>1
<1>11. ASSUME NEW r \in Requests, SaveProfile(r) PROVE PasswordStep
  <2>1. /\ At(r, "profile") /\ run[r].name \in Names
        /\ users' = [users EXCEPT ![run[r].name] = run[r].row]
    BY <1>11, SaveProfileGoes
  <2>2. run[r].name \in overlapped \/ run[r].row.password = users[run[r].name].password
    BY <2>1 DEF PInv, SavedLast
  <2>3. QED
    BY <1>7, <2>1, <2>2 DEF At
<1>12. QED
  BY <1>2, <1>3, <1>4, <1>5, <1>6, <1>8, <1>9, <1>10, <1>11 DEF Next, StorageMoves

\* A password changes only by the request that gives the new one, unless the name's
\* requests overlapped and a registration or a profile saves the row it still has
THEOREM PasswordsKept == Spec => PasswordKept
<1>1. Init => IInv /\ AInv /\ PInv
  <2>1. Init => PInv
    BY InitIdle DEF PInv, NameShared, SavedLast
  <2>2. QED
    BY <2>1, InitTypes, InitOne
<1>2. IInv /\ AInv /\ PInv /\ [Next]_vars => (IInv /\ AInv /\ PInv)'
  BY NextTypes, NextKeepsOne, NextSaved
<1>3. IInv /\ PInv /\ [Next]_vars => [PasswordStep]_vars
  BY PasswordOnly
<1>4. QED
  BY <1>1, <1>2, <1>3, PTL DEF Spec, PasswordKept, PasswordStep

-----------------------------------------------------------------------------
(* Registrations *)

LEMMA ExcusesStay ==
    ASSUME NEW r \in Requests, Others(r), overlapped \subseteq overlapped',
           run[r].op \in ProfileOps => run'[r].op = run[r].op /\ run'[r].name = run[r].name
    PROVE  \A n : (Excused(n) => Excused(n)') /\ (Relinked(n) => Relinked(n)')
<1>1. \A o \in Requests \ {r} : run'[o] = run[o]
  BY DEF Others
<1>2. \A n : (Edited(n) => Edited(n)') /\ (Relinked(n) => Relinked(n)')
  BY <1>1 DEF Edited, Relinked, ProfileOps
<1>3. QED
  BY <1>2 DEF Excused

\* What the invariant of registrations asks of a step that stores no user
LEMMA RegistrationsKept ==
    ASSUME IInv, IInv', AInv', GInv, NEW r \in Requests, Others(r), UsersStay,
           overlapped \subseteq overlapped', assigned \subseteq assigned', agents' = agents,
           run[r].op \in ProfileOps => run'[r].op = run[r].op /\ run'[r].name = run[r].name,
           HasUser(r)' => HasUser(r) /\ run'[r].name = run[r].name,
           \A n \in Names : users[n].linked => users'[n].linked,
           HasUser(r)' => Holder(r)',
           CopyOld(r)'
    PROVE  GInv'
<1>1. \A o \in Requests \ {r} : run'[o] = run[o]
  BY DEF Others
<1>2. \A o \in Requests : HasUser(o)' => HasUser(o) /\ run'[o].name = run[o].name
  BY <1>1 DEF HasUser
<1>3. OneHolder'
  BY <1>2 DEF GInv, OneHolder
<1>4. \A n \in Names : ~Exists(n)' => agents'[n] = 0
  BY DEF GInv, Exists, UsersStay
<1>5. \A n : (Excused(n) => Excused(n)') /\ (Relinked(n) => Relinked(n)')
  BY ExcusesStay
<1>6. ASSUME NEW o \in Requests, o # r, HasUser(o)' PROVE Holder(o)'
  <2>1. run'[o] = run[o] /\ HasUser(o) /\ Holder(o)
    BY <1>1, <1>2, <1>6 DEF GInv
  <2>2. run[o].name \in Names
    BY <2>1, PointTells DEF HasUser
  <2>3. (\A p : At(o, p)' <=> At(o, p))
    BY <2>1 DEF At
  <2>4. QED
    BY <1>5, <2>1, <2>2, <2>3 DEF Holder
<1>7. ASSUME NEW o \in Requests, o # r PROVE CopyOld(o)'
  <2>1. run'[o] = run[o] /\ CopyOld(o)
    BY <1>1, <1>7 DEF GInv
  <2>2. QED
    BY <1>2, <1>5, <2>1 DEF CopyOld, At
<1>8. QED
  BY <1>3, <1>4, <1>6, <1>7 DEF GInv

\* A request that goes on, while the users, their agents and their roles stay
LEMMA GoesOnRegistered ==
    ASSUME IInv, IInv', AInv', GInv, NEW r \in Requests, NEW p, Advances(r, p),
           users' = users, agents' = agents, assigned' = assigned, overlapped' = overlapped,
           p # "profile",
           HasUser(r)' => /\ HasUser(r) /\ run'[r].first = run[r].first /\ run[r].pc # "assign"
                          /\ ~At(r, "done")
                          /\ p \notin {"assign", "agent", "done"}
    PROVE  GInv'
<1>1. /\ Others(r) /\ run'[r].op = run[r].op /\ run'[r].name = run[r].name /\ run'[r].pc = p
  BY DEF Advances
<1>2. CopyOld(r)'
  BY <1>1 DEF CopyOld, At
<1>3. HasUser(r)' => Holder(r)'
  <2>1. \A n : Excused(n) => Excused(n)'
    BY <1>1, ExcusesStay
  <2>2. QED
    BY <1>1, <2>1 DEF GInv, Holder, At
<1>4. UsersStay
  BY DEF UsersStay, Exists
<1>5. QED
  BY <1>1, <1>2, <1>3, <1>4, RegistrationsKept

LEMMA SaveUserRegisters ==
    ASSUME IInv, IInv', AInv, AInv', GInv, NEW r \in Requests, SaveUser(r)
    PROVE  GInv'
<1> DEFINE q == run[r]
           p == IF q.op = "wallet" THEN "wallet" ELSE IF q.first THEN "assign" ELSE "testHome"
<1>1. /\ At(r, "user") /\ overlapped' = overlapped /\ agents' = agents /\ assigned' = assigned
      /\ \/ Exists(q.name) /\ users' = users /\ Proceeds(r, "rejected")
         \/ /\ ~Exists(q.name) /\ users' = [users EXCEPT ![q.name] = NewUser(r, q)] /\ Proceeds(r, p)
            /\ NewUser(r, q) # NoUser
  BY SaveUserGoes
<1>2. q.name \in Names
  BY <1>1, AtPoint DEF At, PCs
<1>3. CASE Exists(q.name) /\ users' = users /\ Proceeds(r, "rejected")
  <2>1. Advances(r, "rejected") /\ ~HasUser(r)'
    BY <1>3 DEF Proceeds, Advances, HasUser
  <2>2. QED
    BY <1>1, <1>3, <2>1, GoesOnRegistered
<1>4. CASE /\ ~Exists(q.name) /\ users' = [users EXCEPT ![q.name] = NewUser(r, q)] /\ Proceeds(r, p)
           /\ NewUser(r, q) # NoUser
  <2>1. /\ Others(r) /\ run'[r].name = q.name /\ run'[r].pc = p /\ run'[r].op = q.op
        /\ run'[r].first = q.first
    BY <1>4 DEF Proceeds, Advances
  <2>2. /\ \A o \in Requests \ {r} : run'[o] = run[o] /\ (HasUser(o)' <=> HasUser(o))
        /\ \A n \in Names \ {q.name} : users'[n] = users[n]
        /\ users'[q.name] # NoUser
    BY <1>2, <1>4, <2>1, RowsTyped DEF Others, HasUser
  <2>3. \A o \in Requests \ {r} : /\ HasUser(o) => run[o].name # q.name /\ run[o].name \in Names
                                  /\ At(o, "profile") => run[o].name # q.name
    BY <1>4, PointTells DEF AInv, UserStored, IInv, Known, At, HasUser
  <2>4. OneHolder'
    BY <2>1, <2>2, <2>3 DEF GInv, OneHolder
  <2>5. \A n \in Names : ~Exists(n)' => agents'[n] = 0
    BY <1>1, <2>2 DEF GInv, Exists
  <2>6. HasUser(r)' => Holder(r)'
    <3>1. agents[q.name] = 0
      BY <1>2, <1>4 DEF GInv
    <3>2. q.op = "register" => p \in {"assign", "testHome"} /\ (q.first => p = "assign")
      OBVIOUS
    <3> HIDE DEF p
    <3>3. QED
      BY <1>1, <2>1, <3>1, <3>2 DEF Holder, HasUser, At
  <2>7. CopyOld(r)'
    BY <2>1 DEF CopyOld, At
  <2>8. ASSUME NEW o \in Requests, o # r PROVE (HasUser(o)' => Holder(o)') /\ CopyOld(o)'
    <3>1. run'[o] = run[o] /\ (HasUser(o) => Holder(o)) /\ CopyOld(o)
      BY <2>2, <2>8 DEF GInv
    <3>2. \A n : (Excused(n) => Excused(n)') /\ (Relinked(n) => Relinked(n)')
      BY <1>1, <2>1, ExcusesStay
    <3>3. HasUser(o)' => users'[run[o].name] = users[run[o].name]
      BY <2>2, <2>3, <2>8
    <3>4. HasUser(o)' => Holder(o)'
      BY <1>1, <2>2, <2>8, <3>1, <3>2, <3>3 DEF Holder, At
    <3>5. CopyOld(o)'
      BY <1>1, <2>1, <2>2, <2>3, <2>8, <3>1, <3>2 DEF CopyOld, At
    <3>6. QED
      BY <3>4, <3>5
  <2>9. QED
    BY <2>4, <2>5, <2>6, <2>7, <2>8 DEF GInv
<1>5. QED
  BY <1>1, <1>3, <1>4

LEMMA CreateAgentRegisters ==
    ASSUME IInv, IInv', AInv, GInv, NEW r \in Requests, CreateAgent(r)
    PROVE  GInv'
<1>1. /\ At(r, "agent") /\ run[r].op = "register" /\ run[r].name \in Names
      /\ users' = users /\ assigned' = assigned /\ overlapped' = overlapped
      /\ Proceeds(r, "done") /\ agents' = [agents EXCEPT ![run[r].name] = @ + 1]
  BY CreateAgentGoes
<1>2. /\ Others(r) /\ run'[r].name = run[r].name /\ run'[r].pc = "done" /\ run'[r].op = run[r].op
      /\ run'[r].first = run[r].first
  BY <1>1 DEF Proceeds, Advances
<1>3. HasUser(r) /\ Exists(run[r].name) /\ Holder(r)
  BY <1>1 DEF HasUser, At, AInv, UserStored, GInv
<1>4. \A o \in Requests \ {r} : run'[o] = run[o] /\ (HasUser(o)' <=> HasUser(o))
  BY <1>2 DEF Others, HasUser
<1>5. \A n : (Excused(n) => Excused(n)') /\ (Relinked(n) => Relinked(n)')
  BY <1>1, <1>2, ExcusesStay
<1>6. agents'[run[r].name] = 1 /\ \A n \in Names \ {run[r].name} : agents'[n] = agents[n]
  BY <1>1, <1>3, RowsTyped DEF Holder, At
<1>7. HasUser(r)' /\ Holder(r)' /\ CopyOld(r)'
  BY <1>1, <1>2, <1>3, <1>5, <1>6 DEF HasUser, Holder, CopyOld, At
<1>8. ASSUME NEW o \in Requests, o # r PROVE (HasUser(o)' => Holder(o)') /\ CopyOld(o)'
  <2>1. run'[o] = run[o] /\ (HasUser(o) => Holder(o)) /\ CopyOld(o)
    BY <1>4, <1>8 DEF GInv
  <2>2. HasUser(o) => run[o].name # run[r].name /\ run[o].name \in Names
    BY <1>3, <1>8, PointTells DEF GInv, OneHolder, HasUser
  <2>3. HasUser(o)' => Holder(o)'
    BY <1>1, <1>4, <1>5, <1>6, <1>8, <2>1, <2>2 DEF Holder, At
  <2>4. CopyOld(o)'
    BY <1>1, <1>2, <1>3, <1>4, <1>5, <1>8, <2>1 DEF CopyOld, At
  <2>5. QED
    BY <2>3, <2>4
<1>9. OneHolder'
  BY <1>2, <1>3, <1>4 DEF GInv, OneHolder
<1>10. \A n \in Names : ~Exists(n)' => agents'[n] = 0
  BY <1>1, <1>3, <1>6 DEF GInv, Exists
<1>11. QED
  BY <1>7, <1>8, <1>9, <1>10 DEF GInv

LEMMA NextRegistered ==
    ASSUME IInv, AInv, GInv, [Next]_vars
    PROVE  GInv'
<1>0. IInv' /\ AInv'
  BY NextTypes, NextKeepsOne
<1>1. CASE UNCHANGED vars
  BY <1>1 DEF vars, rows, own, GInv, OneHolder, Holder, CopyOld, HasUser, Excused, Edited, Relinked, Exists, At
<1>2. ASSUME NEW r \in Requests, StorageMoves(r) PROVE GInv'
  <2>1. /\ Others(r) /\ UNCHANGED own /\ run'[r].op \in StorageOps /\ overlapped \subseteq overlapped'
        /\ run[r].op \in StorageOps \/ At(r, "idle")
    BY <1>2, MovesQuiet
  <2>2. ~HasUser(r)' /\ ~At(r, "profile")' /\ run[r].op \notin ProfileOps
    BY <1>0, <2>1, PointTells DEF HasUser, At, StorageOps, IInv, Fits, StorageCall, StorageAnswer,
       StoragePCs, Request, AuthOps, UserOps, ProfileOps
  <2>3. UsersStay /\ users' = users /\ agents' = agents /\ assigned' = assigned
    BY <2>1 DEF UsersStay, Exists, own
  <2>4. CopyOld(r)'
    BY <2>2 DEF CopyOld
  <2>5. QED
    BY <1>0, <2>1, <2>2, <2>3, <2>4, RegistrationsKept
<1>3. ASSUME NEW r \in Requests, NEW op \in AuthOps, NEW n \in Names, FindUser(r, op, n) PROVE GInv'
  <2>1. /\ Others(r) /\ run'[r].pc \in {"count", "home", "rejected"} /\ At(r, "idle")
        /\ users' = users /\ agents' = agents /\ assigned' = assigned
    BY <1>3, FindUserGoes DEF BeginsAs, rows, own
  <2>2. ~HasUser(r)' /\ ~At(r, "profile")' /\ run[r].op \notin ProfileOps
    BY <2>1, PointTells DEF HasUser, At, ProfileOps
  <2>3. UsersStay /\ overlapped \subseteq overlapped' /\ CopyOld(r)'
    BY <1>3, <2>1, <2>2, OverlapNoted DEF UsersStay, Exists, FindUser, CopyOld
  <2>4. QED
    BY <1>0, <2>1, <2>2, <2>3, RegistrationsKept
<1>4. ASSUME NEW r \in Requests, NEW op \in UserOps, NEW n \in Names, UseAccount(r, op, n) PROVE GInv'
  <2>1. /\ Others(r) /\ At(r, "idle") /\ run'[r].op = op /\ run'[r].name = n
        /\ users' = users /\ agents' = agents /\ assigned' = assigned
        /\ run'[r].pc = "profile" /\ op = "updateProfile" => run'[r].row = users[n]
    BY <1>4, UseAccountGoes DEF BeginsAs, rows, own
  <2>2. ~HasUser(r)' /\ run[r].op \notin ProfileOps
    BY <2>1, PointTells DEF HasUser, At, UserOps, ProfileOps
  <2>3. /\ overlapped \subseteq overlapped'
        /\ \A o \in Requests \ {r} : Live(o) /\ run[o].name = n => n \in overlapped'
    BY <1>4, OverlapNoted DEF UseAccount
  <2>4. UsersStay
    BY <2>1 DEF UsersStay, Exists
  <2>5. CopyOld(r)'
    <3>1. SUFFICES ASSUME At(r, "profile")', op = "updateProfile", ~run'[r].row.linked,
                          NEW o \in Requests, HasUser(o)', run'[o].name = n
                   PROVE  n \in overlapped' \/ Relinked(n)'
      BY <2>1 DEF CopyOld
    <3>6. \A m : Relinked(m) => Relinked(m)'
      BY <2>1, <2>2, <2>3, ExcusesStay
    <3>2. o # r /\ run'[o] = run[o] /\ HasUser(o) /\ ~users[n].linked
      BY <2>1, <2>2, <3>1 DEF Others, HasUser, At
    <3>3. CASE Live(o)
      BY <2>3, <3>1, <3>2, <3>3
    <3>4. CASE At(o, "done")
      BY <2>3, <3>1, <3>2, <3>4, <3>6 DEF GInv, Holder, Excused
    <3>5. QED
      BY <3>2, <3>3, <3>4 DEF HasUser, Live, Ended, At
  <2>6. QED
    BY <1>0, <2>1, <2>2, <2>3, <2>4, <2>5, RegistrationsKept
<1>5. ASSUME NEW r \in Requests, NEW kind \in Kinds, FindDir(r, kind) \/ TestDir(r, kind) \/ SaveDir(r, kind)
      PROVE  GInv'
  <2>1. /\ users' = users /\ agents' = agents /\ assigned' = assigned /\ overlapped' = overlapped
        /\ HasUser(r) \/ run[r].op # "register"
        /\ run[r].pc # "assign" /\ ~At(r, "done")
        /\ \E p \in {"share", "done", "testHome", "testShare", "saveHome", "saveShare", "rejected", "link"} :
               Proceeds(r, p) /\ (run[r].op = "register" => p # "done")
    BY <1>5, FindDirGoes, TestDirGoes, SaveDirGoes DEF rows, own, HasUser, At, AuthOps, FindDir, Kinds
  <2>2. PICK p \in {"share", "done", "testHome", "testShare", "saveHome", "saveShare", "rejected", "link"} :
               Proceeds(r, p) /\ (run[r].op = "register" => p # "done")
    BY <2>1
  <2>3. Advances(r, p) /\ run'[r].first = run[r].first /\ run'[r].op = run[r].op
    BY <2>2 DEF Proceeds, Advances
  <2>4. HasUser(r)' => HasUser(r) /\ run[r].op = "register"
    BY <2>1, <2>3 DEF HasUser
  <2>5. p \notin {"profile", "assign", "agent"}
    OBVIOUS
  <2>6. QED
    BY <1>0, <2>1, <2>2, <2>3, <2>4, <2>5, GoesOnRegistered
<1>6. ASSUME NEW r \in Requests, NEW p, Advances(r, p), users' = users, agents' = agents,
             assigned' = assigned, overlapped' = overlapped, p # "profile", ~HasUser(r)'
      PROVE  GInv'
  BY <1>0, <1>6, GoesOnRegistered
<1>7. ASSUME NEW r \in Requests,
             CountUsers(r) \/ SaveRoles(r) \/ SavePermission(r) \/ CreateWallet(r) \/ LogIn(r) \/ QueryFails(r)
      PROVE  GInv'
  <2>1. /\ users' = users /\ agents' = agents /\ assigned' = assigned /\ overlapped' = overlapped
        /\ \E p \in {"adminRole", "user", "userRole", "permission", "rejected", "done"} :
               Advances(r, p) /\ (run[r].op = "register" => p # "done")
    BY <1>7, CountUsersGoes, SaveRolesGoes, SavePermissionGoes, CreateWalletGoes, LogInGoes,
       QueryFailsGoes DEF rows, own, Proceeds
  <2>2. PICK p \in {"adminRole", "user", "userRole", "permission", "rejected", "done"} :
               Advances(r, p) /\ (run[r].op = "register" => p # "done")
    BY <2>1
  <2>3. ~HasUser(r)' /\ p # "profile"
    BY <2>2 DEF Advances, HasUser
  <2>4. QED
    BY <1>6, <2>1, <2>2, <2>3
<1>8. ASSUME NEW r \in Requests, AssignRole(r) PROVE GInv'
  <2>1. /\ At(r, "assign") /\ run[r].op = "register" /\ run[r].first
        /\ users' = users /\ agents' = agents /\ overlapped' = overlapped /\ Proceeds(r, "testHome")
        /\ assigned' = IF "admin" \in roles THEN assigned \cup {run[r].name} ELSE assigned
    BY <1>8, AssignRoleGoes
  <2>2. /\ Others(r) /\ run'[r].name = run[r].name /\ run'[r].pc = "testHome" /\ run'[r].op = run[r].op
        /\ run'[r].first = run[r].first
    BY <2>1 DEF Proceeds, Advances
  <2>3. Claims(r) /\ HasUser(r)
    BY <2>1 DEF Claims, HasUser, At
  <2>4. "admin" \in roles /\ Holder(r)
    BY <2>3 DEF AInv, Claimed, GInv
  <2>5. assigned' = assigned \cup {run[r].name}
    BY <2>1, <2>4
  <2>6. Holder(r)' /\ CopyOld(r)'
    BY <2>1, <2>2, <2>4, <2>5 DEF Holder, CopyOld, At
  <2>7. UsersStay
    BY <2>1 DEF UsersStay, Exists
  <2>8. QED
    BY <1>0, <2>1, <2>2, <2>3, <2>5, <2>6, <2>7, RegistrationsKept
<1>9. ASSUME NEW r \in Requests, LinkDirs(r) PROVE GInv'
  <2> DEFINE u == [NewUser(r, run[r]) EXCEPT !.linked = TRUE]
  <2>1. /\ At(r, "link") /\ run[r].op = "register" /\ run[r].name \in Names
        /\ overlapped' = overlapped /\ agents' = agents /\ assigned' = assigned
        /\ Proceeds(r, "agent") /\ users' = [users EXCEPT ![run[r].name] = u] /\ u # NoUser /\ u.linked
    BY <1>9, LinkDirsGoes
  <2> HIDE DEF u
  <2>2. /\ Others(r) /\ run'[r].name = run[r].name /\ run'[r].pc = "agent" /\ run'[r].op = run[r].op
        /\ run'[r].first = run[r].first
    BY <2>1 DEF Proceeds, Advances
  <2>3. HasUser(r) /\ Holder(r)
    BY <2>1 DEF HasUser, At, GInv
  <2>4. /\ users'[run[r].name].linked /\ \A n \in Names : users[n].linked => users'[n].linked
        /\ UsersStay
    BY <2>1, RowsTyped DEF UsersStay, Exists
  <2>5. Holder(r)' /\ CopyOld(r)'
    BY <2>1, <2>2, <2>3, <2>4 DEF Holder, CopyOld, At
  <2>6. QED
    BY <1>0, <2>1, <2>2, <2>3, <2>4, <2>5, RegistrationsKept
<1>10. ASSUME NEW r \in Requests, SavePassword(r) PROVE GInv'
  <2>1. /\ At(r, "password") /\ run[r].op = "changePassword" /\ run[r].name \in Names
        /\ overlapped' = overlapped /\ agents' = agents /\ assigned' = assigned /\ Proceeds(r, "done")
        /\ \E u \in User : /\ users' = [users EXCEPT ![run[r].name] = u] /\ u # NoUser
                           /\ u.linked = users[run[r].name].linked
    BY <1>10, SavePasswordGoes
  <2>2. Others(r) /\ run'[r].pc = "done" /\ run'[r].op = "changePassword"
    BY <2>1 DEF Proceeds, Advances
  <2>3. (\A n \in Names : users[n].linked => users'[n].linked) /\ UsersStay
    BY <2>1, RowsTyped DEF UsersStay, Exists
  <2>4. ~HasUser(r)' /\ CopyOld(r)'
    BY <2>2 DEF HasUser, CopyOld, At
  <2>5. run[r].op \notin ProfileOps
    BY <2>1 DEF ProfileOps
  <2>6. QED
    BY <1>0, <2>1, <2>2, <2>3, <2>4, <2>5, RegistrationsKept
<1>11. ASSUME NEW r \in Requests, SaveProfile(r) PROVE GInv'
  <2>1. /\ At(r, "profile") /\ run[r].op \in ProfileOps /\ run[r].name \in Names
        /\ overlapped' = overlapped /\ agents' = agents /\ assigned' = assigned
        /\ Advances(r, "done") /\ users' = [users EXCEPT ![run[r].name] = run[r].row]
        /\ run[r].row # NoUser
    BY <1>11, SaveProfileGoes
  <2>2. Others(r) /\ run'[r].pc = "done" /\ run'[r].op = run[r].op /\ run'[r].name = run[r].name
    BY <2>1 DEF Advances
  <2>3. ~HasUser(r)' /\ CopyOld(r)'
    BY <2>1, <2>2 DEF HasUser, CopyOld, At, ProfileOps
  <2>10. \A n : (Excused(n) => Excused(n)') /\ (Relinked(n) => Relinked(n)')
    BY <2>1, <2>2, ExcusesStay
  <2>4. UsersStay /\ \A n \in Names \ {run[r].name} : users'[n] = users[n]
    BY <2>1, RowsTyped DEF UsersStay, Exists
  <2>5. \A o \in Requests \ {r} : run'[o] = run[o] /\ (HasUser(o)' <=> HasUser(o))
    BY <2>2 DEF Others, HasUser
  <2>6. ASSUME NEW o \in Requests, o # r, HasUser(o) PROVE Holder(o)'
    <3>1. run'[o] = run[o] /\ Holder(o) /\ run[o].name \in Names
      BY <2>5, <2>6, PointTells DEF GInv, HasUser
    <3>3. CASE run[o].name # run[r].name
      BY <2>1, <2>4, <2>10, <3>1, <3>3 DEF Holder, At
    <3>4. CASE run[o].name = run[r].name
      <4>0. PICK n : n = run[r].name
        OBVIOUS
      <4>1. users'[n].linked \/ Excused(n)'
        <5>1. CASE run[r].row.linked
          BY <2>1, <4>0, <5>1, RowsTyped
        <5>2. CASE ~run[r].row.linked /\ run[r].op = "updateProfile"
          <6>1. n \in overlapped \/ Relinked(n)
            BY <2>1, <2>6, <3>4, <4>0, <5>2 DEF GInv, CopyOld
          <6>2. Edited(n)'
            BY <2>2, <4>0, <5>2 DEF Edited
          <6>3. QED
            BY <2>1, <2>10, <6>1, <6>2 DEF Excused
        <5>3. CASE run[r].op = "updateDirs"
          BY <2>2, <4>0, <5>3 DEF Excused, Relinked
        <5>4. QED
          BY <2>1, <5>1, <5>2, <5>3 DEF ProfileOps
      <4>2. QED
        BY <2>1, <3>1, <3>4, <4>0, <4>1 DEF Holder, At
    <3>5. QED
      BY <3>3, <3>4
  <2>7. ASSUME NEW o \in Requests, o # r PROVE CopyOld(o)'
    <3>1. run'[o] = run[o] /\ CopyOld(o)
      BY <2>5, <2>7 DEF GInv
    <3>2. QED
      BY <2>1, <2>3, <2>5, <2>10, <3>1 DEF CopyOld, At
  <2>8. OneHolder' /\ \A n \in Names : ~Exists(n)' => agents'[n] = 0
    BY <2>1, <2>3, <2>4, <2>5 DEF GInv, OneHolder, Exists, UsersStay
  <2>9. QED
    BY <2>3, <2>5, <2>6, <2>7, <2>8 DEF GInv
<1>12. QED
  BY <1>0, <1>1, <1>2, <1>3, <1>4, <1>5, <1>7, <1>8, <1>9, <1>10, <1>11, SaveUserRegisters,
     CreateAgentRegisters DEF Next, StorageMoves

\* Inserting a row takes no directory away
LEMMA RootDirsGrow ==
    ASSUME StorageTypeOK, NEW d \in Dir, dirs' = Append(dirs, d)
    PROVE  /\ \A n, kind : RootDirs(n, kind) \subseteq RootDirs(n, kind)'
           /\ d.parent = Root => \A n, kind : d.user = n /\ d.label = kind => RootDirs(n, kind)' # {}
<1>1. dirs \in Seq(Dir \cup {NoDir}) /\ d # NoDir
  <2>1. d.label # "" /\ NoDir.label = ""
    BY DEF NoDir, Dir, Labels, Kinds
  <2>2. QED
    BY <2>1 DEF StorageTypeOK
<1>2. /\ \A i \in DOMAIN dirs : i \in DOMAIN dirs' /\ dirs'[i] = dirs[i]
      /\ Len(dirs) + 1 \in DOMAIN dirs' /\ dirs'[Len(dirs) + 1] = d
  BY <1>1
<1>3. ASSUME NEW n, NEW kind PROVE RootDirs(n, kind) \subseteq RootDirs(n, kind)'
  BY <1>2 DEF RootDirs, SubDirs, DirRows
<1>4. ASSUME d.parent = Root PROVE Len(dirs) + 1 \in RootDirs(d.user, d.label)'
  BY <1>1, <1>2, <1>4 DEF RootDirs, SubDirs, DirRows
<1>5. QED
  BY <1>3, <1>4

\* As long as nobody used the storage, a registration finds what it has created
LEMMA NextHasDirs ==
    ASSUME IInv, RInv, [Next]_vars
    PROVE  RInv'
<1>0. IInv'
  BY NextTypes
<1>1. CASE UNCHANGED vars
  BY <1>1 DEF vars, rows, own, RInv, HasDirs, HasUser, Visited, RootDirs, SubDirs, DirRows
<1>2. ASSUME NEW r \in Requests, StorageMoves(r) PROVE RInv'
  BY <1>2, MovesQuiet DEF RInv, Visited
<1>3. ASSUME NEW r \in Requests, Others(r),
             run[r].op \in StorageOps => run'[r].op = run[r].op,
             \A n, kind : RootDirs(n, kind) \subseteq RootDirs(n, kind)',
             ~Visited => HasDirs(r)'
      PROVE  RInv'
  <2>1. \A o \in Requests \ {r} : run'[o] = run[o]
    BY <1>3 DEF Others
  <2>2. Visited => Visited'
    BY <1>3, <2>1 DEF Visited
  <2>3. ASSUME ~Visited, NEW o \in Requests, o # r PROVE HasDirs(o)'
    <3>1. run'[o] = run[o] /\ HasDirs(o)
      BY <2>1, <2>3 DEF RInv
    <3>2. QED
      BY <1>3, <3>1 DEF HasDirs, HasUser
  <2>4. QED
    BY <1>3, <2>2, <2>3 DEF RInv
<1>4. ASSUME dirs' = dirs PROVE \A n, kind : RootDirs(n, kind) \subseteq RootDirs(n, kind)'
  BY <1>4 DEF RootDirs, SubDirs, DirRows
<1>5. ASSUME NEW r \in Requests, NEW n \in Names, NEW op,
             \/ op \in AuthOps /\ FindUser(r, op, n)
             \/ op \in UserOps /\ UseAccount(r, op, n)
      PROVE  RInv'
  <2>1. /\ Others(r) /\ At(r, "idle") /\ dirs' = dirs
        /\ run'[r].pc \in {"count", "home", "rejected", "profile", "log", "password"}
    BY <1>5, FindUserGoes, UseAccountGoes DEF BeginsAs, rows
  <2>2. HasDirs(r)' /\ run[r].op \notin StorageOps
    BY <2>1, PointTells DEF At, HasDirs, HasUser, StorageOps
  <2>3. QED
    BY <1>3, <1>4, <2>1, <2>2
\* A step of a registration that is not about directories
<1>6. ASSUME NEW r \in Requests, NEW p, Advances(r, p), dirs' = dirs,
             HasUser(r)' => \/ p \in {"assign", "testHome", "saveHome"}
                            \/ HasUser(r) /\ run[r].pc \in {"link", "agent"}
      PROVE  RInv'
  <2>1. Others(r) /\ run'[r].op = run[r].op /\ run'[r].name = run[r].name /\ run'[r].pc = p
    BY <1>6 DEF Advances
  <2>2. \A n, kind : RootDirs(n, kind)' = RootDirs(n, kind)
    BY <1>6 DEF RootDirs, SubDirs, DirRows
  <2>3. ~Visited => HasDirs(r)'
    BY <1>6, <2>1, <2>2 DEF RInv, HasDirs
  <2>4. QED
    BY <1>3, <2>1, <2>2, <2>3
<1>7. ASSUME NEW r \in Requests,
             CountUsers(r) \/ SaveRoles(r) \/ SavePermission(r) \/ AssignRole(r)
                 \/ CreateWallet(r) \/ LogIn(r) \/ QueryFails(r)
      PROVE  RInv'
  <2>1. /\ dirs' = dirs
        /\ \E p \in {"adminRole", "user", "userRole", "permission", "rejected", "done", "testHome"} :
               Advances(r, p) /\ (run[r].op = "register" => p # "done")
    BY <1>7, CountUsersGoes, SaveRolesGoes, SavePermissionGoes, CreateWalletGoes, LogInGoes,
       AssignRoleGoes, QueryFailsGoes DEF rows, own, Proceeds
  <2>2. PICK p \in {"adminRole", "user", "userRole", "permission", "rejected", "done", "testHome"} :
               Advances(r, p) /\ (run[r].op = "register" => p # "done")
    BY <2>1
  <2>3. HasUser(r)' => p = "testHome"
    BY <2>2 DEF Advances, HasUser
  <2>4. QED
    BY <1>6, <2>1, <2>2, <2>3
<1>8. ASSUME NEW r \in Requests, SaveUser(r) PROVE RInv'
  <2>1. dirs' = dirs /\ \E p \in {"rejected", "wallet", "assign", "testHome"} : Advances(r, p)
    BY <1>8, SaveUserGoes DEF Proceeds
  <2>2. PICK p \in {"rejected", "wallet", "assign", "testHome"} : Advances(r, p)
    BY <2>1
  <2>3. HasUser(r)' => p \in {"assign", "testHome"}
    BY <2>2 DEF Advances, HasUser
  <2>4. QED
    BY <1>6, <2>1, <2>2, <2>3
<1>9. ASSUME NEW r \in Requests, LinkDirs(r) \/ CreateAgent(r) PROVE RInv'
  <2>1. /\ dirs' = dirs /\ HasUser(r) /\ run[r].pc \in {"link", "agent"}
        /\ \E p \in {"agent", "done"} : Advances(r, p)
    BY <1>9, LinkDirsGoes, CreateAgentGoes DEF Proceeds, HasUser, At
  <2>2. QED
    BY <1>6, <2>1
<1>10. ASSUME NEW r \in Requests, SavePassword(r) \/ SaveProfile(r) PROVE RInv'
  <2>1. /\ dirs' = dirs /\ Advances(r, "done") /\ run[r].op # "register"
    BY <1>10, SavePasswordGoes, SaveProfileGoes DEF Proceeds, ProfileOps
  <2>2. ~HasUser(r)'
    BY <2>1 DEF Advances, HasUser
  <2>3. QED
    BY <1>6, <2>1, <2>2
<1>11. ASSUME NEW r \in Requests, NEW kind \in Kinds, FindDir(r, kind) PROVE RInv'
  <2>1. /\ dirs' = dirs /\ run[r].op = "wallet" /\ \E p : Advances(r, p)
    BY <1>11, FindDirGoes DEF Proceeds, rows
  <2>2. ~HasUser(r)'
    BY <2>1 DEF Advances, HasUser
  <2>3. QED
    BY <1>6, <2>1, <2>2
<1>12. ASSUME NEW r \in Requests, NEW kind \in Kinds, TestDir(r, kind) PROVE RInv'
  <2>1. /\ dirs' = dirs /\ kind \in {"home", "share"}
        /\ At(r, IF kind = "home" THEN "testHome" ELSE "testShare")
        /\ \/ Advances(r, IF kind = "home" THEN "saveHome" ELSE "saveShare")
           \/ Advances(r, IF run[r].op = "register" THEN "rejected" ELSE "done")
    BY <1>12, TestDirGoes DEF Proceeds, Kinds, rows
  <2>2. CASE Advances(r, IF run[r].op = "register" THEN "rejected" ELSE "done")
    <3>1. ~HasUser(r)'
      BY <2>2 DEF Advances, HasUser
    <3>2. QED
      BY <1>6, <2>1, <2>2, <3>1
  <2>3. CASE kind = "home" /\ Advances(r, "saveHome")
    BY <1>6, <2>1, <2>3
  <2>4. CASE kind = "share" /\ Advances(r, "saveShare")
    <3>1. Others(r) /\ run'[r].op = run[r].op /\ run'[r].name = run[r].name /\ run'[r].pc = "saveShare"
      BY <2>4 DEF Advances
    <3>2. \A n, k : RootDirs(n, k)' = RootDirs(n, k)
      BY <2>1 DEF RootDirs, SubDirs, DirRows
    <3>3. run[r].pc = "testShare"
      BY <2>1, <2>4 DEF At
    <3>4. ~Visited => HasDirs(r)'
      BY <3>1, <3>2, <3>3 DEF RInv, HasDirs, HasUser
    <3>5. QED
      BY <1>3, <3>1, <3>2, <3>4
  <2>5. QED
    BY <2>1, <2>2, <2>3, <2>4
<1>13. ASSUME NEW r \in Requests, NEW kind \in Kinds, SaveDir(r, kind) PROVE RInv'
  <2> DEFINE d == [user |-> run[r].name, label |-> kind, parent |-> Root]
  <2>1. /\ run[r].name \in Names /\ kind \in {"home", "share"} /\ run[r].op \in AuthOps
        /\ At(r, IF kind = "home" THEN "saveHome" ELSE "saveShare") /\ dirs' = Append(dirs, d)
        /\ Advances(r, IF kind = "home" THEN IF run[r].op = "register" THEN "testShare" ELSE "share"
                       ELSE IF run[r].op = "register" THEN "link" ELSE "done")
    BY <1>13, SaveDirGoes DEF Proceeds, Kinds
  <2>2. d \in Dir /\ d.parent = Root /\ d.user = run[r].name /\ d.label = kind
    BY <2>1 DEF Dir, Labels, Kinds, Root
  <2> HIDE DEF d
  <2>3. /\ \A n, k : RootDirs(n, k) \subseteq RootDirs(n, k)'
        /\ \A n : n = run[r].name => RootDirs(n, kind)' # {}
    BY <2>1, <2>2, RootDirsGrow, RowsTyped
  <2>4. Others(r) /\ run'[r].op = run[r].op /\ run'[r].name = run[r].name
    BY <2>1 DEF Advances
  <2>5. CASE run[r].op # "register"
    <3>1. HasDirs(r)'
      BY <2>4, <2>5 DEF HasDirs, HasUser
    <3>2. QED
      BY <1>3, <2>3, <2>4, <3>1
  <2>6. CASE run[r].op = "register" /\ kind = "home"
    <3>1. run'[r].pc = "testShare"
      BY <2>1, <2>6 DEF Advances
    <3>2. HasDirs(r)'
      BY <2>3, <2>4, <2>6, <3>1 DEF HasDirs
    <3>3. QED
      BY <1>3, <2>3, <2>4, <3>2
  <2>7. CASE run[r].op = "register" /\ kind = "share"
    <3>1. run'[r].pc = "link" /\ run[r].pc = "saveShare" /\ HasUser(r)
      BY <2>1, <2>7 DEF Advances, At, HasUser
    <3>2. ~Visited => RootDirs(run[r].name, "home") # {}
      BY <3>1 DEF RInv, HasDirs
    <3>3. \A n : RootDirs(n, "home") \subseteq RootDirs(n, "home")'
      BY <2>3
    <3>4. ~Visited => HasDirs(r)'
      BY <2>3, <2>4, <2>7, <3>1, <3>2, <3>3 DEF HasDirs
    <3>5. QED
      BY <1>3, <2>3, <2>4, <3>4
  <2>8. QED
    BY <2>1, <2>5, <2>6, <2>7
<1>14. QED
  BY <1>1, <1>2, <1>5, <1>7, <1>8, <1>9, <1>10, <1>11, <1>12, <1>13 DEF Next, StorageMoves

\* Every registration that was answered left its directories, their ids in the user's
\* row (unless a profile saved meanwhile took them out or the body of one gave other
\* ids), one default agent and, if it was the first, the administrator's role; no two
\* of one name were answered
THEOREM RegistrationsOnce == Spec => []RegisteredOnce
<1>1. Init => IInv /\ AInv /\ GInv /\ RInv
  <2>1. Init => GInv
    <3>1. SUFFICES ASSUME Init PROVE GInv
      OBVIOUS
    <3>2. \A n \in Names : ~Exists(n) => agents[n] = 0
      BY <3>1 DEF Init, Fresh, Registered, Exists, NoUser
    <3>3. QED
      BY <3>1, <3>2, InitIdle DEF GInv, OneHolder, CopyOld
  <2>2. Init => RInv
    BY InitIdle DEF RInv, HasDirs
  <2>3. QED
    BY <2>1, <2>2, InitTypes, InitOne
<1>2. IInv /\ AInv /\ GInv /\ RInv /\ [Next]_vars => (IInv /\ AInv /\ GInv /\ RInv)'
  BY NextTypes, NextKeepsOne, NextRegistered, NextHasDirs
<1>3. ASSUME IInv, AInv, GInv, RInv PROVE RegisteredOnce
  <2>1. SUFFICES ASSUME NEW r \in Requests, run[r].op = "register", run[r].pc = "done"
                 PROVE  LET n == run[r].name IN
                        /\ users[n].linked \/ (Edited(n) /\ n \in overlapped) \/ Relinked(n)
                        /\ agents[n] = 1
                        /\ Visited \/ \A k \in Kinds : RootDirs(n, k) # {}
                        /\ run[r].first => users[n].isAdmin /\ n \in assigned
                        /\ \A o \in Requests : run[o].op = "register" /\ run[o].pc = "done"
                                               /\ run[o].name = n => o = r
    BY DEF RegisteredOnce
  <2>2. HasUser(r) /\ Holder(r) /\ UserStored(r) /\ (Visited \/ HasDirs(r))
    BY <1>3, <2>1 DEF HasUser, GInv, AInv, RInv
  <2>3. \A o \in Requests : run[o].op = "register" /\ run[o].pc = "done" /\ run[o].name = run[r].name => o = r
    BY <1>3, <2>2 DEF GInv, OneHolder, HasUser
  <2>4. Visited \/ \A k \in Kinds : RootDirs(run[r].name, k) # {}
    BY <2>1, <2>2 DEF HasDirs, Kinds
  <2>5. QED
    BY <2>1, <2>2, <2>3, <2>4 DEF Holder, Excused, UserStored, At
<1>4. QED
  BY <1>1, <1>2, <1>3, PTL DEF Spec

-----------------------------------------------------------------------------
(* Directories *)

\* A call of the storage that overlapped with none stays alone
LEMMA AloneKept ==
    ASSUME IInv, IInv', CallsAlone, NEW r \in Requests, Others(r), overlapped \subseteq overlapped',
           \/ ~Live(r)'
           \/ Live(r) /\ (run'[r].op \in StorageOps => run[r].op \in StorageOps)
           \/ run'[r].op \notin StorageOps /\ \A o \in Requests \ {r} : Calling(o) => overlapped' = Names
           \/ OthersLive(r) = {}
           \/ overlapped' = Names
    PROVE  CallsAlone'
<1>1. /\ \A o \in Requests \ {r} : run'[o] = run[o] /\ (Live(o)' <=> Live(o)) /\ (Calling(o)' <=> Calling(o))
      /\ Calling(r)' <=> Live(r)' /\ run'[r].op \in StorageOps
  BY DEF Others, Live, Calling
<1>2. Calm' => Calm /\ overlapped' # Names
  BY DEF Calm, IInv, TypeOK
<1>3. QED
  BY <1>1, <1>2 DEF CallsAlone, OthersLive, Calling

\* What the invariant of directories asks of a step that leaves the rows of directories
LEMMA DirsKept ==
    ASSUME IInv, IInv', DInv, NEW r \in Requests, Others(r), overlapped \subseteq overlapped',
           dirs' = dirs, NameShared', CallsAlone', Tested(r)'
    PROVE  DInv'
<1>1. /\ \A o \in Requests \ {r} : run'[o] = run[o] /\ (Live(o)' <=> Live(o)) /\ (Calling(o)' <=> Calling(o))
                                   /\ \A p : At(o, p)' <=> At(o, p)
      /\ \A n, kind : RootDirs(n, kind)' = RootDirs(n, kind)
      /\ \A d : SubDirs(d)' = SubDirs(d)
      /\ DirRows' = DirRows
  BY DEF Others, Live, Calling, RootDirs, SubDirs, DirRows, At
<1>2. Calm' => Calm
  BY DEF Calm, IInv, TypeOK
<1>3. \A o \in Requests \ {r} : Tested(o)'
  BY <1>1, <1>2 DEF DInv, Tested
<1>4. \A n \in Names \ overlapped' : SameDirs(n)'
  BY <1>1 DEF DInv, SameDirs
<1>5. QED
  BY <1>3, <1>4 DEF DInv

\* ... and of a call that writes one
LEMMA DirWritten ==
    ASSUME IInv, IInv', DInv, NEW r \in Requests, Others(r), overlapped' = overlapped, Calling(r),
           NameShared', CallsAlone', Tested(r)',
           Calm => \A n \in Names \ overlapped : SameDirs(n)'
    PROVE  DInv'
<1>1. \A o \in Requests \ {r} : run'[o] = run[o]
  BY DEF Others
<1>2. ASSUME NEW o \in Requests, o # r PROVE Tested(o)'
  <2>1. CASE Calm
    <3>1. ~Live(o) /\ run'[o] = run[o]
      BY <1>1, <1>2, <2>1 DEF DInv, CallsAlone
    <3>2. run'[o].pc \in {"idle", "done", "rejected"}
      BY <3>1 DEF Live, Ended
    <3>3. QED
      BY <3>2 DEF Tested, At, Calling, Live, Ended
  <2>2. CASE ~Calm
    <3>1. overlapped' = Names /\ ~Calm'
      BY <2>2 DEF Calm
    <3>2. run'[o].pc \in {"saveHome", "saveShare"} => run'[o].name \in Names
      BY <1>1, <1>2, PointTells DEF AuthOps
    <3>3. QED
      BY <3>1, <3>2 DEF Tested, At
  <2>3. QED
    BY <2>1, <2>2
<1>3. \A n \in Names \ overlapped' : SameDirs(n)'
  BY DEF Calm
<1>4. QED
  BY <1>2, <1>3 DEF DInv

\* A request that is not about to write a directory
LEMMA TestedVoid ==
    ASSUME NEW r \in Requests,
           \/ run'[r].op \notin StorageOps /\ run'[r].pc \notin {"saveHome", "saveShare"}
           \/ run'[r].op \in {"upload", "removeFile", "removeDir"} /\ run'[r].pc \notin {"saveHome", "saveShare"}
           \/ run'[r].pc \in {"done", "rejected"}
    PROVE  Tested(r)'
BY DEF Tested, At, Calling, Live, Ended, StorageOps

\* A call of the storage under way, whose tests still hold, writes no directory
LEMMA CallKeepsDirs ==
    ASSUME IInv, IInv', DInv, NEW r \in Requests, NEW p, Advances(r, p), run[r].op \in StorageOps, Live(r),
           overlapped' = overlapped, dirs' = dirs, NameShared',
           \/ p \in {"done", "rejected"}
           \/ run[r].op \in {"upload", "removeFile", "removeDir"} /\ p \in StoragePCs
           \/ Tested(r)'
    PROVE  DInv'
<1>1. Others(r) /\ run'[r].op = run[r].op /\ run'[r].pc = p
  BY DEF Advances
<1>2. CallsAlone'
  BY <1>1, AloneKept DEF DInv
<1>3. Tested(r)'
  BY <1>1, TestedVoid DEF StoragePCs
<1>4. QED
  BY <1>1, <1>2, <1>3, DirsKept

LEMMA SaveNewDirKeeps ==
    ASSUME IInv, IInv', DInv, NEW r \in Requests, SaveNewDir(r), Beside, overlapped' = overlapped, NameShared'
    PROVE  DInv'
<1> DEFINE d == [user |-> run[r].name, label |-> run[r].label, parent |-> run[r].dir]
<1>1. /\ run[r].op = "createDir" /\ Live(r) /\ At(r, "save") /\ Advances(r, "done")
      /\ dirs' = Append(dirs, d)
  BY SaveNewDirGoes
<1>2. d.user = run[r].name /\ d.label = run[r].label /\ d.parent = run[r].dir
  OBVIOUS
<1> HIDE DEF d
<1>3. Others(r) /\ run'[r].pc = "done" /\ Calling(r) /\ ~Live(r)'
  BY <1>1 DEF Advances, Calling, StorageOps, Live, Ended
<1>4. CallsAlone' /\ Tested(r)'
  BY <1>3, AloneKept, TestedVoid DEF DInv
<1>5. ASSUME Calm, NEW n \in Names \ overlapped PROVE SameDirs(n)'
  <2>1. dirs \in Seq(Dir \cup {NoDir})
    BY RowsTyped DEF StorageTypeOK
  <2>2. /\ DOMAIN dirs' = 1 .. Len(dirs) + 1 /\ dirs'[Len(dirs) + 1] = d
        /\ \A i \in 1 .. Len(dirs) : dirs'[i] = dirs[i]
        /\ DOMAIN dirs = 1 .. Len(dirs) /\ Len(dirs) \in Nat
    BY <1>1, <2>1
  <2>3. ASSUME NEW kind \in Kinds, NEW i \in RootDirs(n, kind)', NEW j \in RootDirs(n, kind)' PROVE i = j
    <3>1. \A x \in RootDirs(n, kind)' : x \in RootDirs(n, kind) \/ x = Len(dirs) + 1
      BY <2>2 DEF RootDirs, SubDirs, DirRows
    <3>2. CASE Len(dirs) + 1 \notin RootDirs(n, kind)'
      BY <1>5, <2>3, <3>1, <3>2 DEF DInv, SameDirs
    <3>3. CASE Len(dirs) + 1 \in RootDirs(n, kind)'
      <4>1. d.parent = Root /\ d.user = n /\ d.label = kind
        BY <2>2, <3>3 DEF RootDirs, SubDirs, DirRows
      <4>2. \A x \in SubDirs(run[r].dir) : ~(dirs[x].user = run[r].name /\ dirs[x].label = run[r].label)
        BY <1>1, <1>5 DEF DInv, Tested, At
      <4>3. RootDirs(n, kind) = {}
        BY <1>2, <4>1, <4>2 DEF RootDirs
      <4>4. QED
        BY <2>3, <3>1, <4>3
    <3>4. QED
      BY <3>2, <3>3
  <2>4. QED
    BY <2>3 DEF SameDirs
<1>6. QED
  BY <1>1, <1>3, <1>4, <1>5, DirWritten

LEMMA SaveDirRowKeeps ==
    ASSUME IInv, IInv', DInv, NEW r \in Requests, SaveDirRow(r), Beside, overlapped' = overlapped, NameShared'
    PROVE  DInv'
<1> DEFINE q == run[r]
<1>1. PICK e \in Dir :
          /\ dirs' = [dirs EXCEPT ![q.dir] = e]
          /\ e.user = q.row.user /\ e.parent = q.row.parent
          /\ e.label = IF q.op = "rename" THEN q.label ELSE q.row.label
  BY SaveDirRowGoes
<1>2. q.op \in {"rename", "share"} /\ Live(r) /\ At(r, "save") /\ q.id = 0 /\ Advances(r, "done")
  BY SaveDirRowGoes
<1>3. Others(r) /\ run'[r].pc = "done" /\ Calling(r) /\ ~Live(r)'
  BY <1>2 DEF Advances, Calling, StorageOps, Live, Ended
<1>4. CallsAlone' /\ Tested(r)'
  BY <1>3, AloneKept, TestedVoid DEF DInv
<1>5. ASSUME Calm, NEW n \in Names \ overlapped PROVE SameDirs(n)'
  <2>1. q.dir \in DirRows /\ q.row = dirs[q.dir]
    BY <1>2, <1>3, <1>5 DEF DInv, Tested
  <2>2. q.op = "rename" => \A x \in SubDirs(q.row.parent) : dirs[x].label # q.label
    BY <1>2, <1>5 DEF DInv, Tested, At
  <2>3. /\ DOMAIN dirs' = DOMAIN dirs /\ dirs'[q.dir] = e /\ q.dir \in DOMAIN dirs /\ dirs[q.dir] # NoDir
        /\ \A x \in DOMAIN dirs : x # q.dir => dirs'[x] = dirs[x]
    BY <1>1, <2>1, RowsTyped DEF StorageTypeOK, DirRows
  <2> HIDE DEF q
  <2>4. ASSUME NEW kind \in Kinds, NEW i \in RootDirs(n, kind)', NEW j \in RootDirs(n, kind)' PROVE i = j
    <3>1. \A x \in RootDirs(n, kind)' : x # q.dir => x \in RootDirs(n, kind)
      BY <2>3 DEF RootDirs, SubDirs, DirRows
    <3>2. CASE q.op # "rename"
      <4>1. q.dir \in RootDirs(n, kind)' => q.dir \in RootDirs(n, kind)
        BY <1>1, <2>1, <2>3, <3>2 DEF RootDirs, SubDirs, DirRows
      <4>2. QED
        BY <1>5, <2>4, <3>1, <4>1 DEF DInv, SameDirs
    <3>3. CASE q.op = "rename" /\ q.dir \in RootDirs(n, kind)'
      <4>1. e.parent = Root /\ e.user = n /\ e.label = kind
        BY <2>3, <3>3 DEF RootDirs, SubDirs, DirRows
      <4>2. \A x \in RootDirs(n, kind)' : x = q.dir
        BY <1>1, <2>2, <3>1, <3>3, <4>1 DEF RootDirs
      <4>3. QED
        BY <2>4, <4>2
    <3>4. CASE q.dir \notin RootDirs(n, kind)'
      BY <1>5, <2>4, <3>1, <3>4 DEF DInv, SameDirs
    <3>5. QED
      BY <3>2, <3>3, <3>4
  <2>5. QED
    BY <2>4 DEF SameDirs
<1>6. QED
  BY <1>2, <1>3, <1>4, <1>5, DirWritten

LEMMA DeleteDirKeeps ==
    ASSUME IInv, IInv', DInv, NEW r \in Requests, DeleteDir(r), Beside, overlapped' = overlapped, NameShared'
    PROVE  DInv'
<1>1. /\ run[r].op \in {"removeFile", "removeDir"} /\ Live(r) /\ dirs' = [dirs EXCEPT ![Current(r)] = NoDir]
      /\ \E p \in {"done", "work"} : Advances(r, p)
  BY DeleteDirGoes
<1>2. /\ Others(r) /\ run'[r].op = run[r].op /\ run'[r].pc \in {"done", "work"} /\ Calling(r)
      /\ run[r].op \in StorageOps
  BY <1>1 DEF Advances, Calling, StorageOps
<1>3. CallsAlone' /\ Tested(r)'
  BY <1>1, <1>2, AloneKept, TestedVoid DEF DInv
<1>4. ASSUME NEW n, NEW kind PROVE RootDirs(n, kind)' \subseteq RootDirs(n, kind)
  BY <1>1, RowsTyped DEF RootDirs, SubDirs, DirRows, StorageTypeOK
<1>5. \A n \in Names \ overlapped : SameDirs(n)'
  BY <1>4 DEF DInv, SameDirs
<1>6. QED
  BY <1>2, <1>3, <1>5, DirWritten

LEMMA CallsKeepDirs ==
    ASSUME IInv, IInv', DInv, NEW r \in Requests, StorageStep(r), Beside, overlapped' = overlapped, NameShared'
    PROVE  DInv'
<1>1. ASSUME NEW p, Stays(r, p), dirs' = dirs, p \in StoragePCs, Live(r), run[r].op \in StorageOps, Tested(r)'
      PROVE  DInv'
  BY <1>1, CallKeepsDirs DEF Stays
<1>2. ASSUME NEW p \in {"done", "rejected"}, Advances(r, p), dirs' = dirs, Live(r), run[r].op \in StorageOps
      PROVE  DInv'
  BY <1>2, CallKeepsDirs
<1>3. ASSUME dirs' = dirs, NEW p, Stays(r, p), run[r].op \in StorageOps, Live(r)
      PROVE  /\ run'[r].op = run[r].op /\ run'[r].pc = p /\ run'[r].dir = run[r].dir
             /\ run'[r].label = run[r].label /\ run'[r].id = run[r].id /\ run'[r].row = run[r].row
             /\ run'[r].name = run[r].name
             /\ \A d : SubDirs(d)' = SubDirs(d)
             /\ DirRows' = DirRows
             /\ Calm' <=> Calm
             /\ Calling(r)
  BY <1>3 DEF Stays, Advances, SubDirs, DirRows, Calm, Calling
<1>4. CASE TestParent(r)
  <2>1. /\ dirs' = dirs /\ run[r].op = "createDir" /\ run[r].op \in StorageOps /\ Live(r)
        /\ Stays(r, "testDir") \/ Advances(r, "rejected")
    BY <1>4, TestParentGoes DEF StorageOps
  <2>2. Stays(r, "testDir") => Tested(r)'
    BY <1>3, <2>1 DEF Tested, At
  <2>3. QED
    BY <1>1, <1>2, <2>1, <2>2 DEF StoragePCs
<1>5. CASE TestDirName(r)
  <2>1. /\ dirs' = dirs /\ run[r].op = "createDir" /\ run[r].op \in StorageOps /\ Live(r)
        /\ \/ /\ Stays(r, "testFile")
              /\ \A d \in SubDirs(run[r].dir) : ~(dirs[d].user = run[r].name /\ dirs[d].label = run[r].label)
           \/ Advances(r, "rejected")
    BY <1>5, TestDirNameGoes DEF StorageOps
  <2>2. CASE /\ Stays(r, "testFile")
             /\ \A d \in SubDirs(run[r].dir) : ~(dirs[d].user = run[r].name /\ dirs[d].label = run[r].label)
    <3>1. Tested(r)'
      BY <1>3, <2>1, <2>2 DEF Tested, At
    <3>2. QED
      BY <1>1, <2>1, <2>2, <3>1 DEF StoragePCs
  <2>3. QED
    BY <1>2, <2>1, <2>2
<1>6. CASE TestFileName(r)
  <2>1. /\ dirs' = dirs /\ run[r].op \in {"createDir", "rename"} /\ run[r].op \in StorageOps /\ Live(r)
        /\ At(r, "testFile")
        /\ Stays(r, "save") \/ Advances(r, "rejected")
    BY <1>6, TestFileNameGoes DEF StorageOps
  <2>2. CASE Stays(r, "save")
    <3>1. Tested(r)
      BY DEF DInv
    <3>2. /\ run'[r].op = run[r].op /\ run'[r].pc = "save" /\ run'[r].dir = run[r].dir
          /\ run'[r].label = run[r].label /\ run'[r].id = run[r].id /\ run'[r].row = run[r].row
          /\ run'[r].name = run[r].name
          /\ (\A d : SubDirs(d)' = SubDirs(d)) /\ DirRows' = DirRows /\ (Calm' <=> Calm) /\ Calling(r)
      BY <1>3, <2>1, <2>2
    <3>3. /\ Calm /\ run[r].op = "createDir" =>
                 \A d \in SubDirs(run[r].dir) : ~(dirs[d].user = run[r].name /\ dirs[d].label = run[r].label)
          /\ Calm /\ run[r].op = "rename" => \A d \in SubDirs(run[r].row.parent) : dirs[d].label # run[r].label
          /\ Calm /\ run[r].op = "rename" /\ run[r].id = 0 => run[r].dir \in DirRows /\ run[r].row = dirs[run[r].dir]
      BY <2>1, <3>1, <3>2 DEF Tested, At
    <3>4. CASE run[r].op = "createDir"
      <4>1. run'[r].op = "createDir" /\ run'[r].pc = "save"
        BY <3>2, <3>4
      <4>2. Tested(r)'
        BY <2>1, <3>2, <3>3, <4>1 DEF Tested, At
      <4>3. QED
        BY <1>1, <2>1, <2>2, <4>2 DEF StoragePCs
    <3>5. CASE run[r].op = "rename"
      <4>1. run'[r].op = "rename" /\ run'[r].pc = "save"
        BY <3>2, <3>5
      <4>2. Tested(r)'
        BY <2>1, <3>2, <3>3, <4>1 DEF Tested, At
      <4>3. QED
        BY <1>1, <2>1, <2>2, <4>2 DEF StoragePCs
    <3>6. QED
      BY <2>1, <3>4, <3>5
  <2>3. QED
    BY <1>2, <2>1, <2>2
<1>7. CASE TestSiblings(r)
  <2>1. /\ dirs' = dirs /\ run[r].op = "rename" /\ run[r].op \in StorageOps /\ Live(r)
        /\ \/ Stays(r, "testFile") /\ \A d \in SubDirs(run[r].row.parent) : dirs[d].label # run[r].label
           \/ Advances(r, "rejected")
    BY <1>7, TestSiblingsGoes DEF StorageOps
  <2>2. CASE Stays(r, "testFile") /\ \A d \in SubDirs(run[r].row.parent) : dirs[d].label # run[r].label
    <3>1. Tested(r)
      BY DEF DInv
    <3>2. Tested(r)'
      BY <1>3, <2>1, <2>2, <3>1 DEF Tested, At
    <3>3. QED
      BY <1>1, <2>1, <2>2, <3>2 DEF StoragePCs
  <2>3. QED
    BY <1>2, <2>1, <2>2
<1>8. CASE FindVersion(r) \/ TestNoDir(r) \/ SaveFile(r) \/ SaveFileRow(r)
  <2>1. /\ dirs' = dirs /\ run[r].op \in StorageOps /\ Live(r)
        /\ \E p : /\ Advances(r, p)
                  /\ \/ p \in {"done", "rejected"}
                     \/ run[r].op \in {"upload", "removeFile", "removeDir"} /\ p \in StoragePCs
    BY <1>8, FindVersionGoes, TestNoDirGoes, SaveFileGoes, SaveFileRowGoes DEF StorageOps, StoragePCs, Chooses, Stays
  <2>2. QED
    BY <2>1, CallKeepsDirs
<1>9. CASE RemoveSubDirs(r) \/ RemoveFilesIn(r) \/ DeleteContent(r) \/ DeleteFile(r)
  <2>1. /\ dirs' = dirs /\ run[r].op \in {"removeFile", "removeDir"} /\ run[r].op \in StorageOps /\ Live(r)
        /\ \E p \in {"done", "work"} : Advances(r, p)
    BY <1>9, RemoveSubDirsGoes, RemoveFilesInGoes, DeleteContentGoes, DeleteFileGoes DEF StorageOps
  <2>2. QED
    BY <2>1, CallKeepsDirs DEF StoragePCs
<1>10. QED
  BY <1>4, <1>5, <1>6, <1>7, <1>8, <1>9, SaveNewDirKeeps, SaveDirRowKeeps, DeleteDirKeeps DEF StorageStep

LEMMA BeginsKeepDirs ==
    ASSUME IInv, IInv', DInv, NEW r \in Requests, NEW n \in Names, StorageBegin(r, n), Beside,
           overlapped' = (IF OthersLive(r) = {} THEN overlapped ELSE Names), NameShared', Others(r)
    PROVE  DInv'
<1>1. overlapped \subseteq overlapped' /\ CallsAlone'
  BY AloneKept DEF DInv, IInv, TypeOK
<1>2. dirs' = dirs /\ Tested(r)'
  <2>1. CASE CreateDir(r, n)
    BY <2>1, CreateDirGoes DEF Tested, At
  <2>2. CASE Upload(r, n)
    <3>1. dirs' = dirs /\ run'[r].op = "upload" /\ run'[r].pc \notin {"saveHome", "saveShare"}
      BY <2>2, UploadGoes
    <3>2. QED
      BY <3>1, TestedVoid
  <2>3. CASE LoadFile(r, n)
    BY <2>3, LoadFileGoes DEF Tested, At
  <2>4. ASSUME NEW op, LoadDir(r, op, n) PROVE dirs' = dirs /\ Tested(r)'
    <3>1. /\ run'[r].op = op /\ op \in {"rename", "share"} /\ dirs' = dirs
          /\ run'[r].pc = IF op = "rename" THEN "testDir" ELSE "save"
          /\ run'[r].dir \in DirRows /\ run'[r].row = dirs[run'[r].dir] /\ run'[r].id = 0
      BY <2>4, LoadDirGoes
    <3>2. DirRows' = DirRows
      BY <3>1 DEF DirRows
    <3>3. QED
      BY <3>1, <3>2 DEF Tested, At
  <2>5. ASSUME NEW op, StartRemoval(r, op, n) PROVE dirs' = dirs /\ Tested(r)'
    <3>1. dirs' = dirs /\ run'[r].op \in {"removeFile", "removeDir"} /\ run'[r].pc = "work"
      BY <2>5, StartRemovalGoes
    <3>2. QED
      BY <3>1, TestedVoid
  <2>6. QED
    BY <2>1, <2>2, <2>3, <2>4, <2>5 DEF StorageBegin
<1>3. QED
  BY <1>1, <1>2, DirsKept

LEMMA SaveDirKeeps ==
    ASSUME IInv, IInv', DInv, NEW r \in Requests, NEW kind \in Kinds, SaveDir(r, kind), NameShared'
    PROVE  DInv'
<1> DEFINE d == [user |-> run[r].name, label |-> kind, parent |-> Root]
           p == IF kind = "home" THEN IF run[r].op = "register" THEN "testShare" ELSE "share"
                ELSE IF run[r].op = "register" THEN "link" ELSE "done"
<1>1. /\ run[r].op \in AuthOps /\ run[r].name \in Names /\ overlapped' = overlapped
      /\ At(r, IF kind = "home" THEN "saveHome" ELSE "saveShare") /\ dirs' = Append(dirs, d)
      /\ Advances(r, p)
  BY SaveDirGoes DEF Proceeds
<1>2. d.user = run[r].name /\ d.label = kind /\ d.parent = Root
  OBVIOUS
<1>3. p \notin {"saveHome", "saveShare"}
  OBVIOUS
<1> HIDE DEF d, p
<1>4. run[r].pc \in PCs \ {"idle", "done", "rejected"}
  BY <1>1 DEF At, PCs
<1>5. Live(r) /\ run[r].op \notin StorageOps
  BY <1>4, AtPoint
<1>6. Others(r) /\ run'[r].op = run[r].op /\ run'[r].pc = p
  BY <1>1 DEF Advances
<1>7. CallsAlone' /\ Tested(r)'
  BY <1>1, <1>3, <1>5, <1>6, AloneKept, TestedVoid DEF DInv
<1>8. dirs \in Seq(Dir \cup {NoDir})
  BY RowsTyped DEF StorageTypeOK
<1>9. /\ DOMAIN dirs' = 1 .. Len(dirs) + 1 /\ dirs'[Len(dirs) + 1] = d
      /\ \A i \in 1 .. Len(dirs) : dirs'[i] = dirs[i]
      /\ DOMAIN dirs = 1 .. Len(dirs) /\ Len(dirs) \in Nat
  BY <1>1, <1>8
<1>10. /\ \A n, k : \A x \in RootDirs(n, k)' : x \in RootDirs(n, k)
                                               \/ (x = Len(dirs) + 1 /\ n = run[r].name /\ k = kind)
  BY <1>2, <1>9 DEF RootDirs, SubDirs, DirRows
<1>11. run[r].name \notin overlapped => RootDirs(run[r].name, kind) = {}
  <2>1. Tested(r) /\ kind \in {"home", "share"}
    BY DEF DInv, Kinds
  <2>2. QED
    BY <1>1, <2>1 DEF Tested, At
<1>12. ASSUME NEW n \in Names \ overlapped PROVE SameDirs(n)'
  <2>1. ASSUME NEW k \in Kinds, NEW i \in RootDirs(n, k)', NEW j \in RootDirs(n, k)' PROVE i = j
    <3>1. CASE n = run[r].name /\ k = kind
      BY <1>10, <1>11, <1>12, <2>1, <3>1
    <3>2. CASE ~(n = run[r].name /\ k = kind)
      BY <1>10, <1>12, <2>1, <3>2 DEF DInv, SameDirs
    <3>3. QED
      BY <3>1, <3>2
  <2>2. QED
    BY <2>1 DEF SameDirs
<1>13. ASSUME NEW o \in Requests, o # r PROVE Tested(o)'
  <2>1. run'[o] = run[o] /\ Tested(o)
    BY <1>6, <1>13 DEF Others, DInv
  <2>2. ASSUME Calm PROVE ~Calling(o)
    BY <1>5, <1>13, <2>2 DEF DInv, CallsAlone
  <2>3. run[o].pc \in {"saveHome", "saveShare"} =>
            Live(o) /\ run[o].op \notin StorageOps /\ run[o].name \in Names
    BY AtPoint DEF PCs
  <2>4. run[o].pc \in {"saveHome", "saveShare"} /\ run[o].name \notin overlapped => run[o].name # run[r].name
    BY <1>5, <1>13, <2>3 DEF DInv, NameShared
  <2>5. run[o].op \in {"createDir", "rename"} /\ run[o].pc \in {"testFile", "save"} => Calling(o)
    BY DEF Calling, Live, Ended, StorageOps
  <2>6. ASSUME NEW k, run[o].name # run[r].name, RootDirs(run[o].name, k) = {}, NEW x \in RootDirs(run[o].name, k)'
        PROVE  FALSE
    BY <1>10, <2>1, <2>6
  <2>7. (Calm' <=> Calm) /\ (Calling(o)' <=> Calling(o))
    BY <1>1, <2>1 DEF Calm, Calling, Live
  <2>8. \A k : run[o].pc \in {"saveHome", "saveShare"} /\ run[o].name \notin overlapped
            /\ RootDirs(run[o].name, k) = {} => RootDirs(run[o].name, k)' = {}
    BY <2>1, <2>4, <2>6
  <2>9. QED
    BY <1>1, <2>1, <2>2, <2>5, <2>7, <2>8 DEF Tested, At
<1>14. QED
  BY <1>1, <1>7, <1>12, <1>13 DEF DInv

LEMMA NextKeepsDirs ==
    ASSUME IInv, AInv, PInv, DInv, [Next]_vars
    PROVE  DInv'
<1>0. IInv' /\ NameShared'
  BY NextTypes, NextSaved DEF PInv
<1>1. CASE UNCHANGED vars
  BY <1>0, <1>1 DEF vars, rows, own, DInv, CallsAlone, Tested, SameDirs, Calm, Calling, RootDirs, SubDirs,
     DirRows, At, Live
<1>2. ASSUME NEW r \in Requests, StorageMoves(r) PROVE DInv'
  <2>1. Beside /\ Others(r)
    BY <1>2, MovesBeside, MovesQuiet
  <2>2. QED
    BY <1>0, <1>2, <2>1, MovesBeside, CallsKeepDirs, BeginsKeepDirs
<1>3. ASSUME NEW r \in Requests, Others(r), dirs' = dirs, At(r, "idle"), NEW n \in Names,
             run'[r].op \notin StorageOps, run'[r].pc \notin {"saveHome", "saveShare"}, NotesOverlap(r, n)
      PROVE  DInv'
  <2>1. /\ overlapped \subseteq overlapped'
        /\ \A o \in Requests \ {r} : Calling(o) => overlapped' = Names
    BY <1>3 DEF NotesOverlap, OthersLive, Calling, IInv, TypeOK
  <2>2. CallsAlone' /\ Tested(r)'
    BY <1>0, <1>3, <2>1, AloneKept, TestedVoid DEF DInv
  <2>3. QED
    BY <1>0, <1>3, <2>1, <2>2, DirsKept
<1>4. ASSUME NEW r \in Requests, NEW op \in AuthOps, NEW n \in Names, FindUser(r, op, n) PROVE DInv'
  <2>1. /\ Others(r) /\ At(r, "idle") /\ dirs' = dirs /\ run'[r].op \notin StorageOps
        /\ run'[r].pc \notin {"saveHome", "saveShare"}
    BY <1>4, FindUserGoes DEF BeginsAs, rows, AuthOps, StorageOps
  <2>2. QED
    BY <1>3, <1>4, <2>1 DEF FindUser
<1>5. ASSUME NEW r \in Requests, NEW op \in UserOps, NEW n \in Names, UseAccount(r, op, n) PROVE DInv'
  <2>1. /\ Others(r) /\ At(r, "idle") /\ dirs' = dirs /\ run'[r].op \notin StorageOps
        /\ run'[r].pc \notin {"saveHome", "saveShare"}
    BY <1>5, UseAccountGoes DEF BeginsAs, rows, UserOps, ProfileOps, StorageOps
  <2>2. QED
    BY <1>3, <1>5, <2>1 DEF UseAccount
<1>6. ASSUME NEW r \in Requests, NEW p, Advances(r, p), Live(r), run[r].op \notin StorageOps, dirs' = dirs,
             overlapped' = overlapped, p \notin {"saveHome", "saveShare"} \/ Tested(r)'
      PROVE  DInv'
  <2>1. Others(r) /\ run'[r].op = run[r].op /\ run'[r].pc = p
    BY <1>6 DEF Advances
  <2>2. CallsAlone' /\ Tested(r)'
    BY <1>0, <1>6, <2>1, AloneKept, TestedVoid DEF DInv
  <2>3. QED
    BY <1>0, <1>6, <2>1, <2>2, DirsKept
<1>7. ASSUME NEW r \in Requests, NEW kind \in Kinds, FindDir(r, kind) PROVE DInv'
  <2>1. /\ dirs' = dirs /\ overlapped' = overlapped /\ run[r].pc \in PCs \ {"idle", "done", "rejected"}
        /\ \E p : Advances(r, p) /\ p \notin {"saveHome", "saveShare"}
    BY <1>7, FindDirGoes DEF Proceeds, rows, FindDir, At, Kinds, PCs
  <2>2. QED
    BY <1>6, <2>1, AtPoint
<1>8. ASSUME NEW r \in Requests, NEW kind \in Kinds, TestDir(r, kind) PROVE DInv'
  <2>1. /\ dirs' = dirs /\ overlapped' = overlapped /\ kind \in {"home", "share"}
        /\ At(r, IF kind = "home" THEN "testHome" ELSE "testShare")
        /\ \/ /\ RootDirs(run[r].name, kind) = {}
              /\ Advances(r, IF kind = "home" THEN "saveHome" ELSE "saveShare")
           \/ Advances(r, IF run[r].op = "register" THEN "rejected" ELSE "done")
    BY <1>8, TestDirGoes DEF Proceeds, rows, Kinds
  <2>2. run[r].pc \in PCs \ {"idle", "done", "rejected"}
    BY <2>1 DEF At, PCs
  <2>3. Live(r) /\ run[r].op \notin StorageOps
    BY <2>2, AtPoint
  <2>4. CASE Advances(r, IF run[r].op = "register" THEN "rejected" ELSE "done")
    BY <1>6, <2>1, <2>3, <2>4
  <2>5. ASSUME NEW p, p = (IF kind = "home" THEN "saveHome" ELSE "saveShare"), Advances(r, p),
               RootDirs(run[r].name, kind) = {}
        PROVE  DInv'
    <3>1. run'[r].op = run[r].op /\ run'[r].name = run[r].name /\ run'[r].pc = p
      BY <2>5 DEF Advances
    <3>2. \A n, k : RootDirs(n, k)' = RootDirs(n, k)
      BY <2>1 DEF RootDirs, SubDirs, DirRows
    <3>3. kind = "home" => Tested(r)'
      BY <2>3, <2>5, <3>1, <3>2 DEF Tested, At, Calling, StorageOps
    <3>4. kind = "share" => Tested(r)'
      BY <2>3, <2>5, <3>1, <3>2 DEF Tested, At, Calling, StorageOps
    <3>5. QED
      BY <1>6, <2>1, <2>3, <2>5, <3>3, <3>4
  <2>6. QED
    BY <2>1, <2>4, <2>5
<1>9. ASSUME NEW r \in Requests,
             \/ CountUsers(r) \/ SaveRoles(r) \/ SavePermission(r) \/ SaveUser(r) \/ AssignRole(r)
             \/ LinkDirs(r) \/ CreateAgent(r) \/ CreateWallet(r)
             \/ LogIn(r) \/ SavePassword(r) \/ SaveProfile(r)
      PROVE  DInv'
  <2> DEFINE P == {"adminRole", "userRole", "permission", "user", "assign", "testHome", "agent", "wallet",
                   "done", "rejected"}
  <2>1. dirs' = dirs /\ overlapped' = overlapped /\ \E p \in P : Advances(r, p)
    <3>1. CASE CountUsers(r) \/ SaveRoles(r) \/ SavePermission(r) \/ AssignRole(r) \/ CreateWallet(r)
      BY <3>1, CountUsersGoes, SaveRolesGoes, SavePermissionGoes, AssignRoleGoes, CreateWalletGoes
         DEF Proceeds, rows, own
    <3>2. CASE LinkDirs(r) \/ CreateAgent(r) \/ LogIn(r) \/ SavePassword(r) \/ SaveProfile(r)
      BY <3>2, LinkDirsGoes, CreateAgentGoes, LogInGoes, SavePasswordGoes, SaveProfileGoes
         DEF Proceeds, rows, own
    <3>3. CASE SaveUser(r)
      BY <3>3, SaveUserGoes DEF Proceeds
    <3>4. QED
      BY <1>9, <3>1, <3>2, <3>3
  <2>2. run[r].pc \in PCs \ {"idle", "done", "rejected"}
    BY <1>9 DEF CountUsers, SaveRoles, SavePermission, SaveUser, AssignRole, LinkDirs, CreateAgent,
       CreateWallet, LogIn, SavePassword, SaveProfile, At, PCs
  <2>3. QED
    BY <1>6, <2>1, <2>2, AtPoint
<1>10. ASSUME NEW r \in Requests, QueryFails(r) PROVE DInv'
  <2>1. /\ dirs' = dirs /\ overlapped' = overlapped /\ Live(r)
        /\ \E p \in {"done", "rejected"} : Advances(r, p)
    BY <1>10, QueryFailsGoes DEF rows
  <2>2. Others(r) /\ run'[r].pc \in {"done", "rejected"} /\ ~Live(r)'
    BY <2>1 DEF Advances, Live, Ended
  <2>3. CallsAlone' /\ Tested(r)'
    BY <1>0, <2>1, <2>2, AloneKept, TestedVoid DEF DInv
  <2>4. QED
    BY <1>0, <2>1, <2>2, <2>3, DirsKept
<1>11. QED
  BY <1>0, <1>1, <1>2, <1>4, <1>5, <1>7, <1>8, <1>9, <1>10, SaveDirKeeps DEF Next, StorageMoves

LEMMA InitDirs ==
    ASSUME Init
    PROVE  DInv
<1>1. NameShared /\ CallsAlone /\ \A r \in Requests : Tested(r)
  BY InitIdle DEF NameShared, CallsAlone, Calling, Tested, At, StorageOps
<1>2. CASE Fresh
  <2>1. dirs = <<>>
    BY <1>2 DEF Fresh
  <2>2. QED
    BY <1>1, <2>1 DEF DInv, SameDirs, RootDirs, SubDirs, DirRows
<1>3. ASSUME NEW n \in Names, Registered(n) PROVE DInv
  <2>1. /\ DOMAIN dirs = 1 .. 2 /\ dirs[1].label = "home" /\ dirs[2].label = "share"
    BY <1>3 DEF Registered
  <2>2. \A m \in Names : SameDirs(m)
    BY <2>1 DEF SameDirs, RootDirs, SubDirs, DirRows
  <2>3. QED
    BY <1>1, <2>2 DEF DInv
<1>4. QED
  BY <1>2, <1>3 DEF Init

\* A user whose requests never overlapped has each of its two directories once
THEOREM DirsOnce == Spec => []DirsDistinct
<1>1. Init => IInv /\ AInv /\ PInv /\ DInv
  BY InitTypes, InitOne, InitDirs, InitIdle DEF PInv, NameShared, SavedLast
<1>2. IInv /\ AInv /\ PInv /\ DInv /\ [Next]_vars => (IInv /\ AInv /\ PInv /\ DInv)'
  BY NextTypes, NextKeepsOne, NextSaved, NextKeepsDirs
<1>3. ASSUME DInv PROVE DirsDistinct
  <2>1. SUFFICES ASSUME NEW n \in Names \ overlapped, NEW k \in Kinds
                 PROVE  Cardinality(RootDirs(n, k)) <= 1
    BY DEF DirsDistinct
  <2>2. CASE RootDirs(n, k) = {}
    BY <2>2, FS_EmptySet
  <2>3. CASE RootDirs(n, k) # {}
    <3>1. PICK d : d \in RootDirs(n, k)
      BY <2>3
    <3>2. RootDirs(n, k) = {d}
      BY <1>3, <3>1 DEF DInv, SameDirs
    <3>3. QED
      BY <3>2, FS_Singleton
  <2>4. QED
    BY <2>2, <2>3
<1>4. QED
  BY <1>1, <1>2, <1>3, PTL DEF Spec

-----------------------------------------------------------------------------
(* File contents *)

\* The rows of files
LEMMA FileRowsTyped ==
    ASSUME IInv
    PROVE  /\ files \in Seq(File \cup {NoFile})
           /\ \A f \in FileRows : f \in DOMAIN files /\ files[f] \in File /\ files[f].path \in Path
                                 /\ files[f].path.by \in Requests
<1>1. files \in Seq(File \cup {NoFile})
  BY RowsTyped DEF StorageTypeOK
<1>2. ASSUME NEW f \in FileRows PROVE f \in DOMAIN files /\ files[f] \in File
  BY <1>1, <1>2 DEF FileRows
<1>3. QED
  BY <1>1, <1>2 DEF File, Path

\* What a step that is not a shared save or a fault keeps
LEMMA StillUndisturbed ==
    ASSUME NEW r \in Requests, Others(r), Undisturbed', faults' = 0 => faults = 0,
           run[r].op # "none" => run'[r].op = run[r].op
    PROVE  Undisturbed
BY DEF Undisturbed, Others

\* What the invariant of contents asks of a step that leaves the rows of files and
\* takes no content away
LEMMA ContentsKept ==
    ASSUME IInv, FInv, NEW r \in Requests, Others(r), files' = files, disk \subseteq disk',
           faults' = 0 => faults = 0,
           run[r].op # "none" => run'[r].op = run[r].op,
           ~(run[r].op = "upload" /\ At(r, "done")),
           ~Working(r, "row"),
           Undisturbed /\ Uploading(r)' => /\ [by |-> r, copied |-> FALSE] \in disk'
                                           /\ At(r, "save")' => run'[r].row.path \in disk'
    PROVE  FInv'
<1>1. SUFFICES ASSUME Undisturbed' PROVE FInv'
  BY DEF FInv
<1>2. Undisturbed
  BY <1>1, StillUndisturbed
<1>3. \A o \in Requests \ {r} : run'[o] = run[o]
  BY DEF Others
<1>4. FileRows' = FileRows
  BY DEF FileRows
<1>5. \A f \in FileRows : files[f].path.by # r
  BY <1>2 DEF FInv
<1>6. \A f \in FileRows' : LET o == files'[f].path.by IN run'[o].op = "upload" /\ run'[o].pc = "done"
  BY <1>2, <1>3, <1>4, <1>5, FileRowsTyped DEF FInv, At
<1>7. \A o \in Requests : Uploading(o)' =>
            /\ [by |-> o, copied |-> FALSE] \in disk'
            /\ At(o, "save")' => run'[o].row.path \in disk'
  BY <1>2, <1>3 DEF FInv, Uploading, Live, At
<1>8. ASSUME NEW f \in FileRows PROVE ContentKept(f)'
  <2>1. ContentKept(f)
    BY <1>2, <1>8 DEF FInv
  <2>2. ASSUME NEW o \in Requests, Working(o, "row"), Current(o) = f
        PROVE  \E q \in Requests : Working(q, "row")' /\ Current(q)' = f
    BY <1>3, <2>2 DEF Working, Current, At
  <2>3. QED
    BY <1>4, <2>1, <2>2 DEF ContentKept
<1>9. QED
  BY <1>2, <1>4, <1>6, <1>7, <1>8 DEF FInv, At

\* A step of a request that is not one of the storage
LEMMA AuthKeepsContents ==
    ASSUME IInv, IInv', FInv, NEW r \in Requests, Others(r), files' = files, disk' = disk,
           faults' = 0 => faults = 0, run[r].op # "none" => run'[r].op = run[r].op,
           run[r].op \notin StorageOps, run'[r].op \notin StorageOps
    PROVE  FInv'
<1>1. run[r].pc \notin StoragePCs
  BY PointTells
<1>2. ~Working(r, "row") /\ ~(run[r].op = "upload" /\ At(r, "done")) /\ ~Uploading(r)'
  BY <1>1 DEF Working, At, StoragePCs, StorageOps, Uploading
<1>3. QED
  BY <1>2, ContentsKept

\* A call that is answered or goes on, and leaves files and disk
LEMMA CallKeepsContents ==
    ASSUME IInv, IInv', FInv, NEW r \in Requests, NEW p, Advances(r, p), Live(r), run[r].op \in StorageOps,
           files' = files, disk \subseteq disk', faults' = faults, ~Working(r, "row"),
           run[r].op = "upload" /\ Undisturbed /\ p \notin Ended /\ p = "save" => run'[r].row.path \in disk'
    PROVE  FInv'
<1>1. Others(r) /\ run'[r].op = run[r].op /\ run'[r].pc = p
  BY DEF Advances
<1>2. ~(run[r].op = "upload" /\ At(r, "done"))
  BY DEF Live, Ended, At
<1>3. ASSUME Undisturbed, Uploading(r)'
      PROVE  [by |-> r, copied |-> FALSE] \in disk' /\ (At(r, "save")' => run'[r].row.path \in disk')
  <2>1. Uploading(r) /\ p \notin Ended /\ run[r].op = "upload"
    BY <1>1, <1>3 DEF Uploading, Live
  <2>2. [by |-> r, copied |-> FALSE] \in disk
    BY <1>3, <2>1 DEF FInv
  <2>3. QED
    BY <1>1, <1>3, <2>1, <2>2 DEF At
<1>4. QED
  BY <1>1, <1>2, <1>3, ContentsKept

LEMMA SaveFileKeepsContents ==
    ASSUME IInv, IInv', FInv, NEW r \in Requests, SaveFile(r), Beside
    PROVE  FInv'
<1>1. /\ disk' = disk /\ run[r].op = "upload" /\ Live(r) /\ At(r, "save") /\ Advances(r, "done")
      /\ run[r].row \in File /\ run[r].row.path.by = r /\ files' = Append(files, run[r].row)
  BY SaveFileGoes
<1>2. Others(r) /\ run'[r].op = "upload" /\ run'[r].pc = "done" /\ faults' = faults
  BY <1>1 DEF Advances, Beside
<1>3. SUFFICES ASSUME Undisturbed' PROVE FInv'
  BY DEF FInv
<1>4. Undisturbed
  BY <1>1, <1>2, <1>3, StillUndisturbed
<1>5. \A o \in Requests \ {r} : run'[o] = run[o]
  BY <1>2 DEF Others
<1> DEFINE z == Len(files) + 1
<1>6. run[r].row # NoFile
  <2>1. run[r].row.label # "" /\ NoFile.label = ""
    BY <1>1 DEF File, NoFile, Labels, Kinds
  <2>2. QED
    BY <2>1
<1>7. /\ z \in FileRows' /\ z \notin FileRows /\ files'[z] = run[r].row
      /\ \A f \in FileRows' : f = z \/ f \in FileRows
      /\ \A f \in FileRows : f \in FileRows' /\ files'[f] = files[f]
  BY <1>1, <1>6, FileRowsTyped DEF FileRows
<1> HIDE DEF z
<1>8. \A f \in FileRows : files[f].path.by # r /\ files[f].path.by \in Requests
  BY <1>1, <1>4, FileRowsTyped DEF FInv, At
<1>9. ASSUME NEW f \in FileRows' PROVE LET o == files'[f].path.by IN run'[o].op = "upload" /\ run'[o].pc = "done"
  <2>1. CASE f = z
    BY <1>1, <1>2, <1>7, <2>1
  <2>2. CASE f \in FileRows
    <3>1. LET o == files[f].path.by IN run[o].op = "upload" /\ run[o].pc = "done"
      BY <1>4, <2>2 DEF FInv, At
    <3>2. files[f].path.by \in Requests \ {r} /\ files'[f] = files[f]
      BY <1>7, <1>8, <2>2
    <3>3. QED
      BY <1>5, <3>1, <3>2
  <2>3. QED
    BY <1>7, <2>1, <2>2
<1>10. \A o \in Requests : Uploading(o)' =>
            /\ [by |-> o, copied |-> FALSE] \in disk'
            /\ At(o, "save")' => run'[o].row.path \in disk'
  BY <1>1, <1>2, <1>4, <1>5 DEF FInv, Uploading, Live, Ended, At
<1>11. ASSUME NEW f \in FileRows', NEW g \in FileRows', files'[f].path.by = files'[g].path.by PROVE f = g
  <2>1. \A x, y \in FileRows : files[x].path.by = files[y].path.by => x = y
    BY <1>4 DEF FInv
  <2>2. files'[z].path.by = r
    BY <1>1, <1>7
  <2>3. \A x \in FileRows : files'[x].path.by # r /\ files'[x].path.by = files[x].path.by
    BY <1>7, <1>8
  <2>4. QED
    BY <1>7, <1>11, <2>1, <2>2, <2>3
<1>12. ASSUME NEW f \in FileRows' PROVE ContentKept(f)'
  <2>1. files'[f].path \in disk' \/ \E o \in Requests : Working(o, "row")' /\ Current(o)' = f
    <3>1. CASE f = z
      <4>1. Uploading(r) /\ run[r].row.path \in disk
        BY <1>1, <1>4 DEF FInv, Uploading
      <4>2. QED
        BY <1>1, <1>7, <3>1, <4>1
    <3>2. CASE f \in FileRows
      <4>1. ContentKept(f)
        BY <1>4, <3>2 DEF FInv
      <4>2. ASSUME NEW o \in Requests, Working(o, "row"), Current(o) = f
            PROVE  Working(o, "row")' /\ Current(o)' = f
        BY <1>1, <1>5, <4>2 DEF Working, Current, At
      <4>3. QED
        BY <1>1, <1>7, <3>2, <4>1, <4>2 DEF ContentKept
    <3>3. QED
      BY <1>7, <3>1, <3>2
  <2>2. \A g \in FileRows' \ {f} : files'[g].path # files'[f].path
    BY <1>11
  <2>3. QED
    BY <2>1, <2>2 DEF ContentKept
<1>13. QED
  BY <1>9, <1>10, <1>11, <1>12 DEF FInv, At

LEMMA DeleteContentKeeps ==
    ASSUME IInv, IInv', FInv, NEW r \in Requests, DeleteContent(r), Beside
    PROVE  FInv'
<1>1. /\ files' = files /\ run[r].op \in {"removeFile", "removeDir"} /\ Live(r) /\ Working(r, "file")
      /\ \/ /\ Current(r) \in FileRows /\ disk' = disk \ {files[Current(r)].path}
            /\ Advances(r, "work") /\ Head(run'[r].todo) = [kind |-> "row", id |-> Current(r)]
         \/ disk' = disk /\ \E p \in {"done", "work"} : Advances(r, p)
      /\ faults' = faults
  BY DeleteContentGoes DEF Beside
<1>2. ~Working(r, "row") /\ run[r].op \in StorageOps /\ run[r].op # "upload"
  BY <1>1 DEF Working, StorageOps
<1>3. CASE disk' = disk /\ \E p \in {"done", "work"} : Advances(r, p)
  BY <1>1, <1>2, <1>3, CallKeepsContents
<1>4. CASE /\ Current(r) \in FileRows /\ disk' = disk \ {files[Current(r)].path}
           /\ Advances(r, "work") /\ Head(run'[r].todo) = [kind |-> "row", id |-> Current(r)]
  <2> DEFINE c == Current(r)
  <2>1. /\ c \in FileRows /\ disk' = disk \ {files[c].path} /\ Head(run'[r].todo).kind = "row"
        /\ Head(run'[r].todo).id = c
    BY <1>4
  <2> HIDE DEF c
  <2>2. Others(r) /\ run'[r].op = run[r].op /\ run'[r].pc = "work"
    BY <1>4 DEF Advances
  <2>3. SUFFICES ASSUME Undisturbed' PROVE FInv'
    BY DEF FInv
  <2>4. Undisturbed
    BY <1>1, <2>2, <2>3, StillUndisturbed
  <2>5. \A o \in Requests \ {r} : run'[o] = run[o]
    BY <2>2 DEF Others
  <2>6. FileRows' = FileRows
    BY <1>1 DEF FileRows
  <2>7. \A f \in FileRows : files[f].path.by # r /\ files[f].path.by \in Requests
    BY <1>2, <2>4, FileRowsTyped DEF FInv
  <2>8. \A f \in FileRows' : LET o == files'[f].path.by IN run'[o].op = "upload" /\ run'[o].pc = "done"
    BY <1>1, <2>4, <2>5, <2>6, <2>7 DEF FInv, At
  <2>9. ASSUME NEW o \in Requests, Uploading(o)'
        PROVE  /\ [by |-> o, copied |-> FALSE] \in disk'
               /\ At(o, "save")' => run'[o].row.path \in disk'
    <3>1. o # r /\ run'[o] = run[o] /\ Uploading(o)
      BY <1>2, <2>2, <2>5, <2>9 DEF Uploading, Live
    <3>2. files[c].path.by # o
      BY <2>1, <2>4, <3>1 DEF FInv, Uploading, Live, Ended, At
    <3>3. At(o, "save") => run[o].row.path.by = o
      <4>1. run[o].op = "upload" /\ run[o].op \in StorageOps /\ Live(o)
        BY <3>1 DEF Uploading, StorageOps
      <4>2. CallFits(run[o], o)
        BY <4>1, PointTells
      <4>3. QED
        BY <4>1, <4>2 DEF CallFits, At
    <3>4. [by |-> o, copied |-> FALSE] \in disk /\ (At(o, "save") => run[o].row.path \in disk)
      BY <2>4, <3>1 DEF FInv
    <3>5. files[c].path # [by |-> o, copied |-> FALSE]
      BY <3>2
    <3>6. QED
      BY <2>1, <3>1, <3>2, <3>3, <3>4, <3>5 DEF At
  <2>10. ASSUME NEW f \in FileRows PROVE ContentKept(f)'
    <3>1. ContentKept(f) /\ ContentKept(c)
      BY <2>1, <2>4, <2>10 DEF FInv
    <3>2. ASSUME NEW o \in Requests, Working(o, "row"), Current(o) = f
          PROVE  Working(o, "row")' /\ Current(o)' = f
      BY <1>2, <2>5, <3>2 DEF Working, Current, At
    <3>3. CASE f = c
      <4>1. Working(r, "row")' /\ Current(r)' = f
        BY <2>1, <2>2, <3>3 DEF Working, Current, At
      <4>2. QED
        BY <1>1, <2>6, <3>1, <4>1 DEF ContentKept
    <3>4. CASE f # c
      <4>1. files[f].path # files[c].path
        BY <2>10, <3>1, <3>4 DEF ContentKept
      <4>2. QED
        BY <1>1, <2>1, <2>6, <3>1, <3>2, <4>1 DEF ContentKept
    <3>5. QED
      BY <3>3, <3>4
  <2>11. QED
    BY <1>1, <2>4, <2>6, <2>8, <2>9, <2>10 DEF FInv, At
<1>5. QED
  BY <1>1, <1>3, <1>4

LEMMA DeleteFileKeeps ==
    ASSUME IInv, IInv', FInv, NEW r \in Requests, DeleteFile(r), Beside
    PROVE  FInv'
<1> DEFINE c == Current(r)
<1>1. /\ disk' = disk /\ run[r].op \in {"removeFile", "removeDir"} /\ Live(r)
      /\ Working(r, "row") /\ files' = [files EXCEPT ![c] = NoFile]
      /\ \E p \in {"done", "work"} : Advances(r, p)
      /\ faults' = faults
  BY DeleteFileGoes DEF Beside
<1>2. Others(r) /\ run'[r].op = run[r].op /\ run[r].op # "upload" /\ c = Current(r)
  BY <1>1 DEF Advances
<1> HIDE DEF c
<1>3. SUFFICES ASSUME Undisturbed' PROVE FInv'
  BY DEF FInv
<1>4. Undisturbed
  BY <1>1, <1>2, <1>3, StillUndisturbed
<1>5. \A o \in Requests \ {r} : run'[o] = run[o]
  BY <1>2 DEF Others
<1>6. \A f \in FileRows' : f \in FileRows /\ f # c /\ files'[f] = files[f]
  BY <1>1, FileRowsTyped DEF FileRows
<1>7. \A f \in FileRows : files[f].path.by # r /\ files[f].path.by \in Requests
  BY <1>2, <1>4, FileRowsTyped DEF FInv
<1>8. \A f \in FileRows' : LET o == files'[f].path.by IN run'[o].op = "upload" /\ run'[o].pc = "done"
  BY <1>4, <1>5, <1>6, <1>7 DEF FInv, At
<1>9. \A o \in Requests : Uploading(o)' =>
            /\ [by |-> o, copied |-> FALSE] \in disk'
            /\ At(o, "save")' => run'[o].row.path \in disk'
  BY <1>1, <1>2, <1>4, <1>5 DEF FInv, Uploading, Live, At
<1>10. ASSUME NEW f \in FileRows' PROVE ContentKept(f)'
  <2>1. f \in FileRows /\ f # c /\ files'[f] = files[f] /\ ContentKept(f)
    BY <1>4, <1>6, <1>10 DEF FInv
  <2>2. ASSUME NEW o \in Requests, Working(o, "row"), Current(o) = f
        PROVE  Working(o, "row")' /\ Current(o)' = f
    BY <1>2, <1>5, <2>1, <2>2 DEF Working, Current, At
  <2>3. QED
    BY <1>1, <1>6, <2>1, <2>2 DEF ContentKept
<1>11. QED
  BY <1>4, <1>6, <1>8, <1>9, <1>10 DEF FInv, At

LEMMA StepsKeepContents ==
    ASSUME IInv, IInv', FInv, NEW r \in Requests, StorageStep(r), Beside
    PROVE  FInv'
<1>1. ASSUME NEW p, Advances(r, p), Live(r), run[r].op \in StorageOps, run[r].op # "upload" \/ p # "save",
             files' = files, disk' = disk, ~Working(r, "row")
      PROVE  FInv'
  BY <1>1, CallKeepsContents DEF Beside
<1>2. ASSUME run[r].op \notin {"removeFile", "removeDir"}, run[r].op \in StorageOps, Live(r) PROVE ~Working(r, "row")
  <2>1. CallFits(run[r], r) /\ run[r] \in StorageCall
    BY <1>2, PointTells
  <2>2. run[r].pc # "work"
    BY <1>2, <2>1 DEF CallFits, StorageOps
  <2>3. QED
    BY <2>2 DEF Working, At
<1>3. CASE TestParent(r) \/ TestDirName(r) \/ TestFileName(r) \/ TestSiblings(r) \/ SaveNewDir(r) \/ SaveDirRow(r)
  <2>1. /\ files' = files /\ disk' = disk /\ Live(r) /\ run[r].op \in {"createDir", "rename", "share"}
        /\ \E p : Advances(r, p)
    BY <1>3, TestParentGoes, TestDirNameGoes, TestFileNameGoes, TestSiblingsGoes, SaveNewDirGoes,
       SaveDirRowGoes DEF Stays
  <2>2. QED
    BY <1>1, <1>2, <2>1 DEF StorageOps
<1>4. CASE SaveFileRow(r)
  <2>1. run[r].op = "share" /\ \E p : Advances(r, p)
    BY <1>4, SaveFileRowGoes
  <2>2. run'[r].op = "share"
    BY <2>1 DEF Advances
  <2>3. ~Undisturbed'
    BY <2>2 DEF Undisturbed
  <2>4. QED
    BY <2>3 DEF FInv
<1>5. CASE FindVersion(r)
  <2>1. /\ files' = files /\ run[r].op = "upload" /\ run[r].op \in StorageOps /\ Live(r) /\ faults' = faults
        /\ \/ Stays(r, "testDir") /\ disk' = disk
           \/ Chooses(r, TRUE) /\ disk' = disk \cup {[by |-> r, copied |-> TRUE]}
    BY <1>5, FindVersionGoes DEF StorageOps, Beside
  <2>2. ~Working(r, "row")
    BY <1>2, <2>1
  <2>3. CASE Stays(r, "testDir") /\ disk' = disk
    BY <1>1, <2>1, <2>2, <2>3 DEF Stays
  <2>4. CASE Chooses(r, TRUE) /\ disk' = disk \cup {[by |-> r, copied |-> TRUE]}
    <3>1. Advances(r, "save") /\ run'[r].row.path \in disk' /\ disk \subseteq disk'
      BY <2>4 DEF Chooses
    <3>2. QED
      BY <2>1, <2>2, <3>1, CallKeepsContents
  <2>5. QED
    BY <2>1, <2>3, <2>4
<1>6. CASE TestNoDir(r)
  <2>1. /\ files' = files /\ disk' = disk /\ run[r].op = "upload" /\ run[r].op \in StorageOps /\ Live(r)
        /\ Advances(r, "rejected") \/ Chooses(r, FALSE)
        /\ faults' = faults
    BY <1>6, TestNoDirGoes DEF StorageOps, Beside
  <2>2. ~Working(r, "row")
    BY <1>2, <2>1
  <2>3. CASE Advances(r, "rejected")
    BY <1>1, <2>1, <2>2, <2>3
  <2>4. CASE Chooses(r, FALSE)
    <3>1. Advances(r, "save") /\ run'[r].row.path = [by |-> r, copied |-> FALSE]
      BY <2>4 DEF Chooses
    <3>2. Undisturbed => [by |-> r, copied |-> FALSE] \in disk
      BY <2>1 DEF FInv, Uploading
    <3>3. QED
      BY <2>1, <2>2, <3>1, <3>2, CallKeepsContents
  <2>5. QED
    BY <2>1, <2>3, <2>4
<1>7. CASE RemoveSubDirs(r) \/ RemoveFilesIn(r) \/ DeleteDir(r)
  <2>1. /\ files' = files /\ disk' = disk /\ run[r].op \in {"removeFile", "removeDir"} /\ Live(r)
        /\ Working(r, "dir") \/ Working(r, "files") \/ Working(r, "drop")
        /\ \E p \in {"done", "work"} : Advances(r, p)
    BY <1>7, RemoveSubDirsGoes, RemoveFilesInGoes, DeleteDirGoes
  <2>2. ~Working(r, "row") /\ run[r].op \in StorageOps
    BY <2>1 DEF Working, StorageOps
  <2>3. QED
    BY <1>1, <2>1, <2>2
<1>8. QED
  BY <1>3, <1>4, <1>5, <1>6, <1>7, SaveFileKeepsContents, DeleteContentKeeps, DeleteFileKeeps DEF StorageStep

LEMMA BeginsKeepContents ==
    ASSUME IInv, IInv', FInv, NEW r \in Requests, NEW n \in Names, StorageBegin(r, n), Beside, At(r, "idle"),
           Others(r)
    PROVE  FInv'
<1>1. run[r].op = "none" /\ ~Working(r, "row") /\ ~(run[r].op = "upload" /\ At(r, "done"))
  BY PointTells DEF At, Working
<1>2. ASSUME files' = files, disk \subseteq disk',
             Uploading(r)' => [by |-> r, copied |-> FALSE] \in disk' /\ ~At(r, "save")'
      PROVE  FInv'
  BY <1>1, <1>2, ContentsKept DEF Beside
<1>3. CASE Upload(r, n)
  <2>1. /\ files' = files /\ disk' = disk \cup {[by |-> r, copied |-> FALSE]}
        /\ run'[r].pc \in {"testFile", "rejected"}
    BY <1>3, UploadGoes
  <2>2. QED
    BY <1>2, <2>1 DEF At
<1>4. ASSUME NEW op, CreateDir(r, n) \/ LoadFile(r, n) \/ LoadDir(r, op, n) \/ StartRemoval(r, op, n)
      PROVE  FInv'
  <2>1. files' = files /\ disk' = disk /\ run'[r].op # "upload"
    BY <1>4, CreateDirGoes, LoadFileGoes, LoadDirGoes, StartRemovalGoes
  <2>2. QED
    BY <1>2, <2>1 DEF Uploading
<1>5. QED
  BY <1>3, <1>4 DEF StorageBegin

LEMMA NextKeepsContents ==
    ASSUME IInv, FInv, [Next]_vars
    PROVE  FInv'
<1>0. IInv'
  BY NextTypes
<1>1. CASE UNCHANGED vars
  BY <1>1 DEF vars, rows, FInv, Undisturbed, FileRows, Uploading, ContentKept, Working, Current, At, Live
<1>2. ASSUME NEW r \in Requests, StorageMoves(r) PROVE FInv'
  <2>1. Beside /\ Others(r)
    BY <1>2, MovesBeside, MovesQuiet
  <2>2. QED
    BY <1>0, <1>2, <2>1, MovesBeside, StepsKeepContents, BeginsKeepContents
<1>3. ASSUME NEW r \in Requests, NEW op, NEW n \in Names,
             \/ op \in AuthOps /\ FindUser(r, op, n)
             \/ op \in UserOps /\ UseAccount(r, op, n)
      PROVE  FInv'
  <2>1. /\ Others(r) /\ files' = files /\ disk' = disk /\ faults' = faults /\ At(r, "idle")
        /\ run'[r].op \notin StorageOps
    BY <1>3, FindUserGoes, UseAccountGoes DEF BeginsAs, rows, FindUser, UseAccount, AuthOps, UserOps, ProfileOps, StorageOps
  <2>2. run[r].op = "none" /\ run[r].op \notin StorageOps
    BY <2>1, PointTells DEF At, StorageOps
  <2>3. QED
    BY <1>0, <2>1, <2>2, AuthKeepsContents
<1>4. ASSUME NEW r \in Requests, NEW p, Advances(r, p), run[r].pc \in PCs \ {"idle", "done", "rejected"},
             files' = files, disk' = disk, faults' = faults
      PROVE  FInv'
  <2>1. Others(r) /\ run'[r].op = run[r].op /\ run[r].op \notin StorageOps
    BY <1>4, AtPoint DEF Advances
  <2>2. QED
    BY <1>0, <1>4, <2>1, AuthKeepsContents
<1>5. ASSUME NEW r \in Requests, NEW kind \in Kinds, FindDir(r, kind) \/ TestDir(r, kind) \/ SaveDir(r, kind)
      PROVE  FInv'
  <2>1. files' = files /\ disk' = disk /\ faults' = faults /\ \E p : Advances(r, p)
    BY <1>5, FindDirGoes, TestDirGoes, SaveDirGoes DEF Proceeds, rows
  <2>2. run[r].pc \in PCs \ {"idle", "done", "rejected"}
    BY <1>5 DEF FindDir, TestDir, SaveDir, At, Kinds, PCs
  <2>3. QED
    BY <1>4, <2>1, <2>2
<1>6. ASSUME NEW r \in Requests,
             \/ CountUsers(r) \/ SaveRoles(r) \/ SavePermission(r) \/ SaveUser(r) \/ AssignRole(r)
             \/ LinkDirs(r) \/ CreateAgent(r) \/ CreateWallet(r)
             \/ LogIn(r) \/ SavePassword(r) \/ SaveProfile(r)
      PROVE  FInv'
  <2> DEFINE P == {"adminRole", "userRole", "permission", "user", "assign", "testHome", "agent", "wallet",
                   "done", "rejected"}
  <2>1. files' = files /\ disk' = disk /\ faults' = faults /\ \E p \in P : Advances(r, p)
    <3>1. CASE CountUsers(r)
      <4>1. faults' = faults
        BY <3>1 DEF CountUsers
      <4>2. QED
        BY <3>1, <4>1, CountUsersGoes DEF rows
    <3>2. CASE SaveRoles(r) \/ SavePermission(r) \/ AssignRole(r) \/ CreateWallet(r)
      BY <3>2, SaveRolesGoes, SavePermissionGoes, AssignRoleGoes, CreateWalletGoes
         DEF Proceeds, rows
    <3>3. CASE LinkDirs(r) \/ CreateAgent(r) \/ LogIn(r) \/ SavePassword(r) \/ SaveProfile(r)
      BY <3>3, LinkDirsGoes, CreateAgentGoes, LogInGoes, SavePasswordGoes, SaveProfileGoes
         DEF Proceeds, rows
    <3>4. CASE SaveUser(r)
      BY <3>4, SaveUserGoes DEF Proceeds
    <3>5. QED
      BY <1>6, <3>1, <3>2, <3>3, <3>4
  <2>2. run[r].pc \in PCs \ {"idle", "done", "rejected"}
    BY <1>6 DEF CountUsers, SaveRoles, SavePermission, SaveUser, AssignRole, LinkDirs, CreateAgent,
       CreateWallet, LogIn, SavePassword, SaveProfile, At, PCs
  <2>3. QED
    BY <1>4, <2>1, <2>2
<1>7. ASSUME NEW r \in Requests, QueryFails(r) PROVE FInv'
  BY <1>7, QueryFailsGoes DEF FInv, Undisturbed
<1>8. QED
  BY <1>1, <1>2, <1>3, <1>5, <1>6, <1>7 DEF Next, StorageMoves

\* As long as no query failed and nothing was shared, a row of a file has its content,
\* which no other row has, whatever uploads and removals overlap
THEOREM FilesKeepContents == Spec => []FilesBacked
<1>1. Init => IInv /\ FInv
  <2>1. Init => FInv
    <3>1. SUFFICES ASSUME Init PROVE FInv
      OBVIOUS
    <3>2. FileRows = {}
      BY <3>1 DEF Init, StorageInit, FileRows
    <3>3. \A r \in Requests : ~Uploading(r)
      BY <3>1, InitIdle DEF Uploading
    <3>4. QED
      BY <3>2, <3>3 DEF FInv
  <2>2. QED
    BY <2>1, InitTypes
<1>2. IInv /\ FInv /\ [Next]_vars => (IInv /\ FInv)'
  BY NextTypes, NextKeepsContents
<1>3. FInv => FilesBacked
  BY DEF FInv, FilesBacked, Undisturbed
<1>4. QED
  BY <1>1, <1>2, <1>3, PTL DEF Spec

-----------------------------------------------------------------------------
(* The lists of work of a removal: every item is there *)

LEMMA WorkCovers ==
    ASSUME NEW kind \in {"dir", "files", "drop", "file", "row"}, NEW ids \in SUBSET Nat, IsFiniteSet(ids)
    PROVE  LET w == Work(kind, ids) IN
           /\ \A i \in ids : \E j \in DOMAIN w : w[j].kind = kind /\ w[j].id = i
           /\ \A j \in DOMAIN w : w[j].kind = kind /\ w[j].id \in ids
<1> DEFINE T == {[kind |-> kind, id |-> i] : i \in ids}
           f == [i \in ids |-> [kind |-> kind, id |-> i]]
           s == SetToSeq(T)
           n == Cardinality(T)
<1>1. f \in Surjection(ids, T)
  BY DEF Surjection
<1>2. IsFiniteSet(T) /\ n \in Nat /\ ExistsBijection(1 .. n, T)
  BY <1>1, FS_Surjection, FS_CardinalityType
<1>3. s \in [1 .. n -> T] /\ IsInjective(s)
  <2> HIDE DEF T
  <2>1. Bijection(1 .. n, T) # {}
    BY <1>2 DEF ExistsBijection
  <2>2. \E g \in [1 .. n -> T] : IsInjective(g)
    BY <2>1 DEF Bijection, Injection, IsInjective
  <2>3. QED
    BY <2>2, Zenon DEF SetToSeq
<1>4. s \in Injection(1 .. n, T)
  BY <1>3 DEF Injection, IsInjective
<1>5. IsFiniteSet(1 .. n) /\ Cardinality(1 .. n) = n
  <2> HIDE DEF T
  <2>1. 1 \in Int /\ n \in Int
    BY <1>2
  <2>2. Cardinality(1 .. n) = IF 1 > n THEN 0 ELSE n - 1 + 1
    BY <2>1, FS_Interval
  <2>3. QED
    BY <1>2, <2>1, <2>2, FS_Interval
<1>6. s \in Surjection(1 .. n, T)
  <2> HIDE DEF T, s
  <2>1. QED
    BY <1>2, <1>4, <1>5, FS_Injection
<1>7. DOMAIN s = 1 .. n /\ \A t \in T : \E j \in 1 .. n : s[j] = t
  BY <1>3, <1>6 DEF Surjection
<1>8. ASSUME NEW i \in ids PROVE \E j \in DOMAIN s : s[j].kind = kind /\ s[j].id = i
  <2>1. [kind |-> kind, id |-> i] \in T
    OBVIOUS
  <2> HIDE DEF s, T
  <2>2. PICK j \in DOMAIN s : s[j] = [kind |-> kind, id |-> i]
    BY <1>7, <2>1
  <2>3. QED
    BY <2>2
<1>9. ASSUME NEW j \in DOMAIN s PROVE s[j].kind = kind /\ s[j].id \in ids
  <2>1. s[j] \in T
    BY <1>3
  <2> HIDE DEF s
  <2>2. QED
    BY <2>1
<1>10. s = Work(kind, ids)
  BY DEF Work
<1> HIDE DEF s
<1>11. QED
  BY <1>8, <1>9, <1>10

\* Items are done from the front: what takes the place of the first one, and what
\* came after it, is still before what it was before
LEMMA EmptiedGoesOn ==
    ASSUME NEW todo \in Seq(Item), todo # <<>>, NEW items \in Seq(Item), NEW left, left = items \o Tail(todo),
           Emptied(todo), Emptied(items)',
           \A d : SubDirs(d)' \subseteq SubDirs(d) /\ FilesIn(d)' \subseteq FilesIn(d),
           Head(todo).kind \in {"dir", "files", "drop"} /\ Head(todo).id \in DirRows' =>
               \E j \in DOMAIN items : items[j].kind \in {"dir", "files", "drop"} /\ items[j].id = Head(todo).id,
           Head(todo).kind \in {"file", "row"} /\ Head(todo).id \in FileRows' =>
               \E j \in DOMAIN items : items[j].kind \in {"file", "row"} /\ items[j].id = Head(todo).id
    PROVE  Emptied(left)'
<1> DEFINE n == Len(items)
           m == Len(todo)
           D == {"dir", "files", "drop"}
           F == {"file", "row"}
<1>1. /\ n \in Nat /\ m \in Nat /\ m > 0 /\ DOMAIN items = 1 .. n /\ DOMAIN todo = 1 .. m
      /\ Head(todo) = todo[1]
      /\ Tail(todo) \in Seq(Item) /\ Len(Tail(todo)) = m - 1 /\ DOMAIN Tail(todo) = 1 .. m - 1
      /\ \A k \in 1 .. m - 1 : Tail(todo)[k] = todo[k + 1]
  BY HeadTailProperties, LenProperties
<1>2. /\ DOMAIN left = 1 .. n + m - 1
      /\ \A i \in 1 .. n : left[i] = items[i]
      /\ \A i \in n + 1 .. n + m - 1 : left[i] = todo[i - n + 1]
  BY <1>1
<1>3. /\ \A c : \A d : c \in SubDirs(d)' => c \in DirRows'
      /\ \A c : \A d : c \in FilesIn(d)' => c \in FileRows'
  BY DEF SubDirs, FilesIn
\* An item of the old list that was before position k + 1 has one before n + k in the new one
<1>4. ASSUME NEW i \in n + 1 .. n + m - 1, NEW c \in DirRows', NEW j \in 1 .. i - n,
             todo[j].kind \in D, todo[j].id = c
      PROVE  \E l \in 1 .. i - 1 : left[l].kind \in D /\ left[l].id = c
  <2>1. CASE j = 1
    <3>1. PICK l \in 1 .. n : items[l].kind \in D /\ items[l].id = c
      BY <1>1, <1>4, <2>1
    <3>2. l \in 1 .. i - 1 /\ left[l] = items[l]
      BY <1>1, <1>2
    <3>3. QED
      BY <3>1, <3>2
  <2>2. CASE j # 1
    <3>1. /\ n + j - 1 \in 1 .. i - 1 /\ n + j - 1 \in n + 1 .. n + m - 1
          /\ (n + j - 1) - n + 1 = j
      BY <1>1, <2>2
    <3>2. left[n + j - 1] = todo[j]
      BY <1>2, <3>1
    <3>3. QED
      BY <1>4, <3>1, <3>2
  <2>3. QED
    BY <2>1, <2>2
<1>5. ASSUME NEW i \in n + 1 .. n + m - 1, NEW c \in FileRows', NEW j \in 1 .. i - n,
             todo[j].kind \in F, todo[j].id = c
      PROVE  \E l \in 1 .. i - 1 : left[l].kind \in F /\ left[l].id = c
  <2>1. CASE j = 1
    <3>1. PICK l \in 1 .. n : items[l].kind \in F /\ items[l].id = c
      BY <1>1, <1>5, <2>1
    <3>2. l \in 1 .. i - 1 /\ left[l] = items[l]
      BY <1>1, <1>2
    <3>3. QED
      BY <3>1, <3>2
  <2>2. CASE j # 1
    <3>1. /\ n + j - 1 \in 1 .. i - 1 /\ n + j - 1 \in n + 1 .. n + m - 1
          /\ (n + j - 1) - n + 1 = j
      BY <1>1, <2>2
    <3>2. left[n + j - 1] = todo[j]
      BY <1>2, <3>1
    <3>3. QED
      BY <1>5, <3>1, <3>2
  <2>3. QED
    BY <2>1, <2>2
<1> DEFINE Fits0(i) ==
               /\ left[i].kind \in {"files", "drop"} =>
                      \A c \in SubDirs(left[i].id)' :
                          \E j \in 1 .. i - 1 : left[j].kind \in D /\ left[j].id = c
               /\ left[i].kind = "drop" =>
                      \A f \in FilesIn(left[i].id)' :
                          \E j \in 1 .. i - 1 : left[j].kind \in F /\ left[j].id = f
               /\ left[i].kind = "row" => /\ i = 1
                                          /\ left[i].id \in FileRows' => files'[left[i].id].path \notin disk'
<1>6. ASSUME NEW i \in 1 .. n PROVE Fits0(i)
  <2>0. /\ items[i].kind \in {"files", "drop"} =>
               \A c \in SubDirs(items[i].id)' :
                   \E j \in 1 .. i - 1 : items[j].kind \in D /\ items[j].id = c
        /\ items[i].kind = "drop" =>
               \A f \in FilesIn(items[i].id)' :
                   \E j \in 1 .. i - 1 : items[j].kind \in F /\ items[j].id = f
        /\ items[i].kind = "row" => /\ i = 1
                                    /\ items[i].id \in FileRows' => files'[items[i].id].path \notin disk'
    BY <1>1 DEF Emptied
  <2>1. left[i] = items[i] /\ \A j \in 1 .. i - 1 : left[j] = items[j]
    BY <1>1, <1>2
  <2>2. ASSUME left[i].kind \in {"files", "drop"}, NEW c \in SubDirs(left[i].id)'
        PROVE  \E j \in 1 .. i - 1 : left[j].kind \in D /\ left[j].id = c
    <3>1. c \in SubDirs(items[i].id)' /\ items[i].kind \in {"files", "drop"} /\ i \in DOMAIN items
      BY <1>1, <2>1, <2>2
    <3>2. PICK j \in 1 .. i - 1 : items[j].kind \in D /\ items[j].id = c
      BY <2>0, <3>1
    <3>3. QED
      BY <2>1, <3>2
  <2>3. ASSUME left[i].kind = "drop", NEW f \in FilesIn(left[i].id)'
        PROVE  \E j \in 1 .. i - 1 : left[j].kind \in F /\ left[j].id = f
    <3>1. f \in FilesIn(items[i].id)' /\ items[i].kind = "drop" /\ i \in DOMAIN items
      BY <1>1, <2>1, <2>3
    <3>2. PICK j \in 1 .. i - 1 : items[j].kind \in F /\ items[j].id = f
      BY <2>0, <3>1
    <3>3. QED
      BY <2>1, <3>2
  <2>4. left[i].kind = "row" => /\ i = 1
                                /\ left[i].id \in FileRows' => files'[left[i].id].path \notin disk'
    BY <1>1, <2>0, <2>1
  <2>5. QED
    BY <2>2, <2>3, <2>4
<1>7. ASSUME NEW i \in n + 1 .. n + m - 1 PROVE Fits0(i)
  <2> DEFINE k == i - n + 1
  <2>1. k \in 1 .. m /\ k # 1 /\ left[i] = todo[k] /\ k - 1 = i - n
    BY <1>1, <1>2
  <2>2. /\ todo[k].kind \in {"files", "drop"} =>
               \A c \in SubDirs(todo[k].id) :
                   \E j \in 1 .. k - 1 : todo[j].kind \in D /\ todo[j].id = c
        /\ todo[k].kind = "drop" =>
               \A f \in FilesIn(todo[k].id) :
                   \E j \in 1 .. k - 1 : todo[j].kind \in F /\ todo[j].id = f
        /\ todo[k].kind # "row"
    BY <1>1, <2>1 DEF Emptied
  <2> HIDE DEF k
  <2>3. ASSUME left[i].kind \in {"files", "drop"}, NEW c \in SubDirs(left[i].id)'
        PROVE  \E j \in 1 .. i - 1 : left[j].kind \in D /\ left[j].id = c
    <3>1. c \in DirRows' /\ c \in SubDirs(todo[k].id)
      BY <1>3, <2>1, <2>3
    <3>2. PICK j \in 1 .. i - n : todo[j].kind \in D /\ todo[j].id = c
      BY <2>1, <2>2, <2>3, <3>1
    <3>3. QED
      BY <1>4, <3>1, <3>2
  <2>4. ASSUME left[i].kind = "drop", NEW f \in FilesIn(left[i].id)'
        PROVE  \E j \in 1 .. i - 1 : left[j].kind \in F /\ left[j].id = f
    <3>1. f \in FileRows' /\ f \in FilesIn(todo[k].id)
      BY <1>3, <2>1, <2>4
    <3>2. PICK j \in 1 .. i - n : todo[j].kind \in F /\ todo[j].id = f
      BY <2>1, <2>2, <2>4, <3>1
    <3>3. QED
      BY <1>5, <3>1, <3>2
  <2>5. QED
    BY <2>1, <2>2, <2>3, <2>4
<1>8. \A i \in DOMAIN left : i \in 1 .. n \/ i \in n + 1 .. n + m - 1
  BY <1>1, <1>2
<1>9. \A i \in DOMAIN left : Fits0(i)
  BY <1>6, <1>7, <1>8
<1>10. QED
  BY <1>9 DEF Emptied

\* What comes after the items of a set
WorksThen(s, kind, ids, last, c) ==
    \E n \in Nat :
        /\ DOMAIN s = 1 .. n + 1 /\ s[n + 1] = [kind |-> last, id |-> c]
        /\ \A j \in 1 .. n : s[j].kind = kind
        /\ \A i \in ids : \E j \in 1 .. n : s[j].kind = kind /\ s[j].id = i

LEMMA WorkThen ==
    ASSUME NEW kind \in {"dir", "file"}, NEW ids \in SUBSET Nat, IsFiniteSet(ids),
           NEW last \in {"files", "drop"}, NEW c \in Nat
    PROVE  /\ Work(kind, ids) \o Work(last, {c}) \in Seq(Item)
           /\ WorksThen(Work(kind, ids) \o Work(last, {c}), kind, ids, last, c)
<1> DEFINE w == Work(kind, ids)
           v == Work(last, {c})
           s == w \o v
           n == Len(w)
<1>1. /\ w \in Seq(Item) /\ v \in Seq(Item) /\ v = <<[kind |-> last, id |-> c]>>
      /\ \A i \in ids : \E j \in DOMAIN w : w[j].kind = kind /\ w[j].id = i
      /\ \A j \in DOMAIN w : w[j].kind = kind
  <2>1. w \in Seq(Item)
    BY WorkTyped
  <2>2. v \in Seq(Item) /\ v = <<[kind |-> last, id |-> c]>>
    BY WorkOfOne
  <2>3. /\ \A i \in ids : \E j \in DOMAIN w : w[j].kind = kind /\ w[j].id = i
        /\ \A j \in DOMAIN w : w[j].kind = kind
    BY WorkCovers
  <2>4. QED
    BY <2>1, <2>2, <2>3
<1> HIDE DEF w, v
<1>2. s \in Seq(Item) /\ n \in Nat /\ DOMAIN w = 1 .. n /\ Len(v) = 1
  BY <1>1, ConcatProperties, LenProperties
<1>3. DOMAIN s = 1 .. n + 1 /\ s[n + 1] = v[1] /\ \A j \in 1 .. n : s[j] = w[j]
  BY <1>1, <1>2
<1> HIDE DEF s, n
<1>4. /\ DOMAIN s = 1 .. n + 1 /\ s[n + 1] = [kind |-> last, id |-> c]
      /\ \A j \in 1 .. n : s[j].kind = kind
      /\ \A i \in ids : \E j \in 1 .. n : s[j].kind = kind /\ s[j].id = i
  BY <1>1, <1>2, <1>3
<1>5. s = Work(kind, ids) \o Work(last, {c})
  BY DEF s, w, v
<1>6. WorksThen(s, kind, ids, last, c)
  BY <1>2, <1>4 DEF WorksThen
<1>7. QED
  BY <1>2, <1>5, <1>6

-----------------------------------------------------------------------------
(* Rows and contents *)

\* A call of the storage that nothing overlapped, and what holds as long as that is so
Sound == TreeSound /\ Placed /\ Written /\ ContentsAccounted
SoleCall(r) == Serial /\ Calling(r) /\ Sound /\ Found(r)

LEMMA SerialAlone ==
    ASSUME IInv, DInv, Serial, NEW r \in Requests, Calling(r)
    PROVE  Calm /\ \A o \in Requests : o # r => ~Live(o)
<1>1. run[r].name \in Names
  BY PointTells DEF Calling, StorageOps
<1>2. Calm
  BY <1>1 DEF Serial, Calm
<1>3. QED
  BY <1>2 DEF DInv, CallsAlone

LEMMA TreeStays ==
    ASSUME TreeSound, UNCHANGED <<dirs, files>>
    PROVE  TreeSound'
BY DEF TreeSound, DirRows, FileRows

\* The files that were there are where they were, as long as their directories are
\* there, and a request of nobody's uploads took the step
LEMMA PlacedStays ==
    ASSUME IInv, Placed, NEW r \in Requests, Others(r), ~At(r, "done"),
           \A f \in FileRows' :
               \/ /\ f \in FileRows /\ files'[f] = files[f]
                  /\ files[f].dir \in DirRows => files[f].dir \in DirRows'
               \/ files'[f].dir # Root /\ (files'[f].dir \in DirRows' \/ Stray(f)')
    PROVE  Placed'
<1>1. ASSUME NEW f \in FileRows', f \in FileRows, files'[f] = files[f],
             files[f].dir \in DirRows => files[f].dir \in DirRows'
      PROVE  files'[f].dir # Root /\ (files'[f].dir \in DirRows' \/ Stray(f)')
  <2>1. files[f].path.by \in Requests
    BY <1>1, IdsFinite DEF File, Path
  <2>2. Stray(f) => Stray(f)'
    BY <1>1, <2>1 DEF Stray, Others, At
  <2>3. QED
    BY <1>1, <2>2 DEF Placed
<1>2. QED
  BY <1>1 DEF Placed

LEMMA SolePlaced ==
    ASSUME IInv, NEW r \in Requests, SoleCall(r), Others(r), FileRows' \subseteq FileRows,
           \A f \in FileRows' : /\ files'[f] = files[f]
                                /\ files[f].dir \in DirRows => files[f].dir \in DirRows'
    PROVE  Placed'
<1>1. Placed /\ ~At(r, "done")
  BY DEF SoleCall, Sound, Calling, Live, Ended, At
<1>2. QED
  BY <1>1, PlacedStays

\* A row whose name nobody has in its parent
LEMMA TreeGrows ==
    ASSUME IInv, TreeSound, NEW d \in Dir, dirs' = Append(dirs, d), files' = files,
           d.parent \in DirRows \cup {Root},
           \A e \in SubDirs(d.parent) : ~(dirs[e].user = d.user /\ dirs[e].label = d.label),
           \A f \in FilesIn(d.parent) : files[f].label # d.label
    PROVE  TreeSound' /\ DirRows \subseteq DirRows'
<1> DEFINE z == Len(dirs) + 1
<1>1. dirs \in Seq(Dir \cup {NoDir})
  BY DEF IInv, TypeOK, StorageTypeOK
<1>2. /\ DOMAIN dirs' = 1 .. z /\ dirs'[z] = d /\ DOMAIN dirs = 1 .. Len(dirs) /\ Len(dirs) \in Nat
      /\ \A i \in 1 .. Len(dirs) : dirs'[i] = dirs[i]
  BY <1>1
<1>3. d # NoDir
  <2>1. d.label # NoDir.label
    BY DEF Dir, Labels, Kinds, NoDir
  <2>2. QED
    BY <2>1
<1>4. z \notin DirRows /\ DirRows' = DirRows \cup {z} /\ FileRows' = FileRows
  BY <1>2, <1>3 DEF DirRows, FileRows
<1>5. /\ \A e \in DirRows : dirs'[e] = dirs[e]
      /\ dirs'[z] = d
  BY <1>2 DEF DirRows
<1> HIDE DEF z
<1>6. \A e \in DirRows' : dirs'[e].parent \in DirRows' \cup {Root}
  BY <1>4, <1>5 DEF TreeSound
<1>8. \A e \in DirRows : dirs[e] # d
  BY DEF SubDirs
<1>9. ASSUME NEW e \in DirRows', NEW g \in DirRows', e # g PROVE dirs'[e] # dirs'[g]
  <2>1. CASE e \in DirRows /\ g \in DirRows
    BY <1>5, <1>9, <2>1 DEF TreeSound
  <2>2. CASE e = z \/ g = z
    BY <1>4, <1>5, <1>8, <1>9, <2>2
  <2>3. QED
    BY <1>4, <2>1, <2>2
<1>10. \A f \in FileRows : ~(d.parent = files[f].dir /\ d.label = files[f].label)
  BY DEF FilesIn
<1>11. ASSUME NEW e \in DirRows', NEW f \in FileRows'
       PROVE  ~(dirs'[e].parent = files'[f].dir /\ dirs'[e].label = files'[f].label)
  <2>1. CASE e \in DirRows
    BY <1>4, <1>5, <2>1 DEF TreeSound
  <2>2. CASE e = z
    BY <1>4, <1>5, <1>10, <2>2
  <2>3. QED
    BY <1>4, <2>1, <2>2
<1>12. QED
  BY <1>4, <1>6, <1>9, <1>11 DEF TreeSound

\* A row that is written again, under the same parent
LEMMA TreeRenames ==
    ASSUME IInv, TreeSound, NEW c \in DirRows, NEW e \in Dir, dirs' = [dirs EXCEPT ![c] = e], files' = files,
           e.parent = dirs[c].parent,
           \A d \in DirRows \ {c} : dirs[d] # e,
           \A f \in FilesIn(e.parent) : files[f].label # e.label
    PROVE  TreeSound' /\ DirRows' = DirRows
<1>1. dirs \in Seq(Dir \cup {NoDir})
  BY DEF IInv, TypeOK, StorageTypeOK
<1>2. /\ DOMAIN dirs' = DOMAIN dirs /\ c \in DOMAIN dirs /\ dirs'[c] = e
      /\ \A i \in DOMAIN dirs : i # c => dirs'[i] = dirs[i]
  BY <1>1, RowWritten DEF DirRows
<1>3. e # NoDir
  <2>1. e.label # NoDir.label
    BY DEF Dir, Labels, Kinds, NoDir
  <2>2. QED
    BY <2>1
<1>4. DirRows' = DirRows /\ FileRows' = FileRows
  BY <1>2, <1>3 DEF DirRows, FileRows
<1>5. \A d \in DirRows : d # c => dirs'[d] = dirs[d]
  BY <1>2 DEF DirRows
<1>6. \A d \in DirRows' : dirs'[d].parent \in DirRows' \cup {Root}
  BY <1>2, <1>4, <1>5 DEF TreeSound
<1>7. \A d, g \in DirRows' : d # g => dirs'[d] # dirs'[g]
  BY <1>2, <1>4, <1>5 DEF TreeSound
<1>8. \A f \in FileRows : ~(e.parent = files[f].dir /\ e.label = files[f].label)
  BY DEF FilesIn
<1>9. \A d \in DirRows', f \in FileRows' : ~(dirs'[d].parent = files'[f].dir /\ dirs'[d].label = files'[f].label)
  BY <1>2, <1>4, <1>5, <1>8 DEF TreeSound
<1>10. QED
  BY <1>4, <1>6, <1>7, <1>9 DEF TreeSound

\* A row of a directory that is empty goes
LEMMA TreeShrinks ==
    ASSUME IInv, TreeSound, NEW c \in Nat, dirs' = [dirs EXCEPT ![c] = NoDir], files' = files,
           SubDirs(c) = {}, FilesIn(c) = {}
    PROVE  TreeSound' /\ DirRows' = DirRows \ {c}
<1>1. dirs \in Seq(Dir \cup {NoDir})
  BY DEF IInv, TypeOK, StorageTypeOK
<1>2. /\ DOMAIN dirs' = DOMAIN dirs
      /\ \A i \in DOMAIN dirs : dirs'[i] = IF i = c THEN NoDir ELSE dirs[i]
  BY <1>1, RowWritten
<1>3. DirRows' = DirRows \ {c} /\ FileRows' = FileRows
  BY <1>2 DEF DirRows, FileRows
<1>4. \A d \in DirRows' : dirs'[d] = dirs[d]
  BY <1>2, <1>3 DEF DirRows
<1>5. \A d \in DirRows : dirs[d].parent # c
  BY DEF SubDirs
<1>6. \A f \in FileRows : files[f].dir # c
  BY DEF FilesIn
<1>7. TreeSound'
  BY <1>3, <1>4, <1>5, <1>6 DEF TreeSound
<1>8. QED
  BY <1>3, <1>7

\* A file comes into a directory where no directory has its name
LEMMA TreeTakesFile ==
    ASSUME IInv, TreeSound, NEW w \in File, files' = Append(files, w), dirs' = dirs,
           \A d \in SubDirs(w.dir) : dirs[d].label # w.label
    PROVE  /\ TreeSound'
           /\ \A f \in FileRows : f \in FileRows' /\ files'[f] = files[f]
           /\ \E z \in FileRows' : files'[z] = w /\ FileRows' = FileRows \cup {z}
<1> DEFINE z == Len(files) + 1
<1>1. files \in Seq(File \cup {NoFile})
  BY DEF IInv, TypeOK, StorageTypeOK
<1>2. /\ DOMAIN files' = 1 .. z /\ files'[z] = w /\ DOMAIN files = 1 .. Len(files) /\ Len(files) \in Nat
      /\ \A i \in 1 .. Len(files) : files'[i] = files[i]
  BY <1>1
<1>3. w # NoFile
  <2>1. w.label # NoFile.label
    BY DEF File, Labels, Kinds, NoFile
  <2>2. QED
    BY <2>1
<1>4. FileRows' = FileRows \cup {z} /\ DirRows' = DirRows /\ \A f \in FileRows : files'[f] = files[f]
  BY <1>2, <1>3 DEF FileRows, DirRows
<1>5. files'[z] = w
  BY <1>2
<1> HIDE DEF z
<1>6. \A d \in DirRows : ~(dirs[d].parent = w.dir /\ dirs[d].label = w.label)
  BY DEF SubDirs
<1>7. TreeSound'
  <2>1. \A d \in DirRows' : dirs'[d].parent \in DirRows' \cup {Root}
    BY <1>4 DEF TreeSound
  <2>2. \A d, e \in DirRows' : d # e => dirs'[d] # dirs'[e]
    BY <1>4 DEF TreeSound
  <2>3. ASSUME NEW f \in FileRows'
        PROVE  \A d \in DirRows' : ~(dirs'[d].parent = files'[f].dir /\ dirs'[d].label = files'[f].label)
    <3>1. CASE f \in FileRows
      BY <1>4, <3>1 DEF TreeSound
    <3>2. CASE f = z
      BY <1>4, <1>5, <1>6, <3>2
    <3>3. QED
      BY <1>4, <3>1, <3>2
  <2>4. QED
    BY <2>1, <2>2, <2>3 DEF TreeSound
<1>8. QED
  BY <1>4, <1>5, <1>7

\* The row of a file goes
LEMMA TreeLosesFile ==
    ASSUME IInv, TreeSound, NEW c \in Nat, files' = [files EXCEPT ![c] = NoFile], dirs' = dirs
    PROVE  /\ TreeSound' /\ FileRows' = FileRows \ {c}
           /\ \A f \in FileRows' : files'[f] = files[f]
<1>1. files \in Seq(File \cup {NoFile})
  BY DEF IInv, TypeOK, StorageTypeOK
<1>2. /\ DOMAIN files' = DOMAIN files
      /\ \A i \in DOMAIN files : files'[i] = IF i = c THEN NoFile ELSE files[i]
  BY <1>1, RowWritten
<1>3. FileRows' = FileRows \ {c} /\ DirRows' = DirRows
  BY <1>2 DEF FileRows, DirRows
<1>4. \A f \in FileRows' : files'[f] = files[f]
  BY <1>2, <1>3 DEF FileRows
<1>5. TreeSound'
  BY <1>3, <1>4 DEF TreeSound
<1>6. QED
  BY <1>3, <1>4, <1>5

\* The contents of others stay what they were, and r answers for its own
LEMMA ContentsGoOn ==
    ASSUME IInv, IInv', Written, ContentsAccounted, NEW r \in Requests, Others(r),
           \A p \in disk' : p.by # r => p \in disk,
           \A p \in disk' : p.by = r =>
               /\ run'[r].op = "upload"
               /\ \/ run'[r].pc \notin Ended \cup {"rejected"} \/ run'[r].pc = "rejected"
                  \/ run'[r].pc = "done" /\ run'[r].path # p
                  \/ \E f \in FileRows' : files'[f].path = p,
           \A f \in FileRows : files[f].path \in disk' /\ files[f].path.by # r =>
               \E g \in FileRows' : files'[g].path = files[f].path
    PROVE  Written' /\ ContentsAccounted'
<1>1. \A p \in disk' : p.by \in Requests
  BY DEF IInv, TypeOK, StorageTypeOK, Path
<1>2. \A o \in Requests : o # r => run'[o] = run[o]
  BY DEF Others
<1>3. \A p \in disk' : run'[p.by].op = "upload"
  BY <1>1, <1>2 DEF Written
<1>4. ASSUME NEW p \in disk', p.by # r, ~Live(p.by)'
      PROVE  \/ \E f \in FileRows' : files'[f].path = p
             \/ At(p.by, "rejected")'
             \/ At(p.by, "done")' /\ run'[p.by].path # p
  <2>1. p \in disk /\ run'[p.by] = run[p.by] /\ ~Live(p.by)
    BY <1>1, <1>2, <1>4 DEF Live
  <2>2. \/ \E f \in FileRows : files[f].path = p
        \/ At(p.by, "rejected")
        \/ At(p.by, "done") /\ run[p.by].path # p
    BY <2>1 DEF ContentsAccounted
  <2>3. QED
    BY <1>4, <2>1, <2>2 DEF At
<1>5. ASSUME NEW p \in disk', p.by = r, ~Live(p.by)'
      PROVE  \/ \E f \in FileRows' : files'[f].path = p
             \/ At(p.by, "rejected")'
             \/ At(p.by, "done")' /\ run'[p.by].path # p
  BY <1>5 DEF Live, At, Ended
<1>6. ContentsAccounted'
  BY <1>4, <1>5 DEF ContentsAccounted
<1>7. QED
  BY <1>3, <1>6 DEF Written

-----------------------------------------------------------------------------
(* Calls that nothing overlapped *)

\* What a step of request r has to leave
SoundAfter(r) == Sound' /\ (Calling(r)' => Found(r)')

LEMMA EndedCalls ==
    ASSUME NEW r \in Requests, NEW p \in {"done", "rejected"}, Advances(r, p)
    PROVE  ~Calling(r)'
BY DEF Advances, Calling, Live, Ended

\* Rows and contents stay, and the answer, if any, names no path
LEMMA RowsRest ==
    ASSUME IInv, IInv', NEW r \in Requests, SoleCall(r), NEW p, Advances(r, p), UNCHANGED <<dirs, files, disk>>,
           run[r].op = "upload" => p \notin Ended \/ p = "rejected"
    PROVE  Sound'
<1>1. Others(r) /\ run'[r].op = run[r].op /\ run'[r].pc = p
  BY DEF Advances
<1>2. TreeSound /\ Written /\ ContentsAccounted
  BY DEF SoleCall, Sound
<1>3. TreeSound'
  BY <1>2, TreeStays
<1>4. FileRows' = FileRows /\ DirRows' = DirRows
  BY DEF FileRows, DirRows
<1>8. Placed'
  BY <1>1, <1>4, SolePlaced
<1>5. \A c \in disk' : c.by = r =>
         /\ run'[r].op = "upload"
         /\ run'[r].pc \notin Ended \cup {"rejected"} \/ run'[r].pc = "rejected"
  BY <1>1, <1>2 DEF Written
<1>6. Written' /\ ContentsAccounted'
  BY <1>1, <1>2, <1>4, <1>5, ContentsGoOn
<1>7. QED
  BY <1>3, <1>6, <1>8 DEF Sound

\* Contents stay, and the rows of files, in a call that is no upload
LEMMA ContentsRest ==
    ASSUME IInv, IInv', NEW r \in Requests, SoleCall(r), Others(r), run[r].op # "upload",
           disk' \subseteq disk,
           \A f \in FileRows : files[f].path \in disk' => \E g \in FileRows' : files'[g].path = files[f].path
    PROVE  Written' /\ ContentsAccounted'
<1>1. Written /\ ContentsAccounted
  BY DEF SoleCall, Sound
<1>2. \A c \in disk' : c \in disk /\ c.by # r
  BY <1>1 DEF Written
<1>3. QED
  BY <1>1, <1>2, ContentsGoOn

\* A call is under way, at a point of its own
LEMMA CallPoint ==
    ASSUME IInv, NEW r \in Requests, Calling(r)
    PROVE  /\ run[r].op \in StorageOps /\ Live(r) /\ run[r] \in StorageCall /\ CallFits(run[r], r)
           /\ run[r].pc \in StoragePCs /\ run[r].name \in Names /\ run[r].dir \in Nat
           /\ run[r].label \in Labels /\ run[r].todo \in Seq(Item)
<1>1. run[r].op \in StorageOps /\ Live(r) /\ run[r] \in StorageCall /\ CallFits(run[r], r)
  BY PointTells DEF Calling
<1>2. QED
  BY <1>1 DEF StorageCall

LEMMA SameRows ==
    ASSUME UNCHANGED <<dirs, files>>
    PROVE  /\ DirRows' = DirRows /\ FileRows' = FileRows
           /\ \A d : SubDirs(d)' = SubDirs(d) /\ FilesIn(d)' = FilesIn(d)
BY DEF DirRows, FileRows, SubDirs, FilesIn

LEMMA CreatesSound ==
    ASSUME IInv, IInv', DInv, NEW r \in Requests, SoleCall(r),
           TestParent(r) \/ TestDirName(r) \/ (TestFileName(r) /\ run[r].op = "createDir")
    PROVE  SoundAfter(r)
<1>1. run[r].op = "createDir" /\ run[r].op # "upload" /\ UNCHANGED <<dirs, files, disk>>
  BY DEF TestParent, TestDirName, TestFileName, Calls
<1>2. run[r] \in StorageCall /\ run[r].op \in StorageOps
  BY CallPoint DEF SoleCall
<1>3. DirRows' = DirRows /\ \A d : FilesIn(d)' = FilesIn(d)
  BY <1>1, SameRows
<1>4. ASSUME Answer(r, "rejected") PROVE SoundAfter(r)
  <2>1. Advances(r, "rejected")
    BY <1>2, <1>4, AnswerGoes
  <2>2. QED
    BY <1>1, <2>1, EndedCalls, RowsRest DEF SoundAfter
<1>5. ASSUME NEW p \in {"testDir", "testFile", "save"}, Goto(r, p),
             run[r].dir \in DirRows \cup {Root},
             p = "save" => \A f \in FilesIn(run[r].dir) : files[f].label # run[r].label
      PROVE  SoundAfter(r)
  <2>1. Stays(r, p)
    BY <1>2, <1>5, CallGoes DEF StoragePCs
  <2>2. /\ run'[r].op = "createDir" /\ run'[r].pc = p /\ run'[r].dir = run[r].dir /\ run'[r].label = run[r].label
        /\ Advances(r, p)
    BY <1>1, <2>1 DEF Stays, Advances
  <2>3. Sound'
    BY <1>1, <2>2, RowsRest
  <2>4. Found(r)'
    BY <1>1, <1>3, <1>5, <2>2 DEF Found
  <2>5. QED
    BY <2>3, <2>4 DEF SoundAfter
<1>6. run[r].pc # "parent" => run[r].dir \in DirRows \cup {Root}
  BY <1>1 DEF SoleCall, Found
<1>7. CASE TestParent(r)
  BY <1>4, <1>5, <1>7 DEF TestParent
<1>8. CASE TestDirName(r)
  <2>1. run[r].pc # "parent"
    BY <1>8 DEF TestDirName, Calls, At
  <2>2. Answer(r, "rejected") \/ Goto(r, "testFile")
    BY <1>8 DEF TestDirName
  <2>3. QED
    BY <1>4, <1>5, <1>6, <2>1, <2>2
<1>9. CASE TestFileName(r)
  <2>1. run[r].pc # "parent"
    BY <1>9 DEF TestFileName, At
  <2>2. \/ Answer(r, "rejected")
        \/ Goto(r, "save") /\ \A f \in FilesIn(run[r].dir) : files[f].label # run[r].label
    BY <1>1, <1>9 DEF TestFileName
  <2>3. QED
    BY <1>4, <1>5, <1>6, <2>1, <2>2
<1>10. QED
  BY <1>7, <1>8, <1>9

LEMMA SaveNewDirSound ==
    ASSUME IInv, IInv', DInv, NEW r \in Requests, SoleCall(r), SaveNewDir(r), Beside
    PROVE  SoundAfter(r)
<1> DEFINE d == [user |-> run[r].name, label |-> run[r].label, parent |-> run[r].dir]
<1>1. /\ UNCHANGED <<files, disk>> /\ run[r].op = "createDir" /\ At(r, "save")
      /\ Advances(r, "done") /\ dirs' = Append(dirs, d)
  BY SaveNewDirGoes
<1>2. d \in Dir /\ d.user = run[r].name /\ d.label = run[r].label /\ d.parent = run[r].dir
  BY CallPoint DEF SoleCall, Dir
<1> HIDE DEF d
<1>3. /\ run[r].dir \in DirRows \cup {Root}
      /\ \A f \in FilesIn(run[r].dir) : files[f].label # run[r].label
  BY <1>1 DEF SoleCall, Found, At
<1>4. Calm
  BY SerialAlone DEF SoleCall
<1>5. \A e \in SubDirs(run[r].dir) : ~(dirs[e].user = run[r].name /\ dirs[e].label = run[r].label)
  BY <1>1, <1>4 DEF DInv, Tested, At
<1>6. TreeSound' /\ DirRows \subseteq DirRows'
  BY <1>1, <1>2, <1>3, <1>5, TreeGrows DEF SoleCall, Sound
<1>7. Others(r) /\ FileRows' = FileRows
  BY <1>1 DEF Advances, FileRows
<1>8. Written' /\ ContentsAccounted'
  BY <1>1, <1>7, ContentsRest
<1>9. Placed'
  BY <1>1, <1>6, <1>7, SolePlaced
<1>10. QED
  BY <1>1, <1>6, <1>8, <1>9, EndedCalls DEF SoundAfter, Sound

LEMMA RenamesSound ==
    ASSUME IInv, IInv', DInv, NEW r \in Requests, SoleCall(r),
           TestSiblings(r) \/ (TestFileName(r) /\ run[r].op = "rename")
    PROVE  SoundAfter(r)
<1>1. run[r].op = "rename" /\ run[r].op # "upload" /\ UNCHANGED <<dirs, files, disk>>
  BY DEF TestSiblings, TestFileName, Calls
<1>2. run[r] \in StorageCall /\ run[r].op \in StorageOps
  BY CallPoint DEF SoleCall
<1>3. \A d : FilesIn(d)' = FilesIn(d)
  BY <1>1, SameRows
<1>4. ASSUME Answer(r, "rejected") PROVE SoundAfter(r)
  <2>1. Advances(r, "rejected")
    BY <1>2, <1>4, AnswerGoes
  <2>2. QED
    BY <1>1, <2>1, EndedCalls, RowsRest DEF SoundAfter
<1>5. ASSUME NEW p \in {"testFile", "save"}, Goto(r, p),
             p = "save" => \A f \in FilesIn(run[r].row.parent) : files[f].label # run[r].label
      PROVE  SoundAfter(r)
  <2>1. Stays(r, p)
    BY <1>2, <1>5, CallGoes DEF StoragePCs
  <2>2. /\ run'[r].op = "rename" /\ run'[r].pc = p /\ run'[r].row = run[r].row /\ run'[r].label = run[r].label
        /\ Advances(r, p)
    BY <1>1, <2>1 DEF Stays, Advances
  <2>3. Sound'
    BY <1>1, <2>2, RowsRest
  <2>4. Found(r)'
    BY <1>1, <1>3, <1>5, <2>2 DEF Found
  <2>5. QED
    BY <2>3, <2>4 DEF SoundAfter
<1>6. CASE TestSiblings(r)
  <2>1. Answer(r, "rejected") \/ Goto(r, "testFile")
    BY <1>6 DEF TestSiblings
  <2>2. QED
    BY <1>4, <1>5, <2>1
<1>7. CASE TestFileName(r)
  <2>1. \/ Answer(r, "rejected")
        \/ Goto(r, "save") /\ \A f \in FilesIn(run[r].row.parent) : files[f].label # run[r].label
    BY <1>1, <1>7 DEF TestFileName
  <2>2. QED
    BY <1>4, <1>5, <2>1
<1>8. QED
  BY <1>6, <1>7

LEMMA SaveDirRowSound ==
    ASSUME IInv, IInv', DInv, NEW r \in Requests, SoleCall(r), SaveDirRow(r), Beside
    PROVE  SoundAfter(r)
<1> DEFINE q == run[r]
<1>1. PICK e \in Dir :
          /\ dirs' = [dirs EXCEPT ![q.dir] = e]
          /\ e.user = q.row.user /\ e.parent = q.row.parent
          /\ e.label = IF q.op = "rename" THEN q.label ELSE q.row.label
  BY SaveDirRowGoes
<1>2. /\ UNCHANGED <<files, disk>> /\ q.op \in {"rename", "share"} /\ At(r, "save") /\ q.id = 0
      /\ Advances(r, "done") /\ q.row \in Dir
  BY SaveDirRowGoes
<1>3. Calm /\ Calling(r)
  BY SerialAlone DEF SoleCall
<1>4. q.dir \in DirRows /\ q.row = dirs[q.dir]
  BY <1>2, <1>3 DEF DInv, Tested
<1>5. q.op = "rename" => /\ \A d \in SubDirs(q.row.parent) : dirs[d].label # q.label
                         /\ \A f \in FilesIn(q.row.parent) : files[f].label # q.label
  BY <1>2, <1>3 DEF DInv, Tested, SoleCall, Found, At
<1>6. Others(r) /\ FileRows' = FileRows
  BY <1>2 DEF Advances, FileRows
<1>7. TreeSound
  BY DEF SoleCall, Sound
<1> HIDE DEF q
<1>8. q.op # "rename" => e = dirs[q.dir]
  <2>1. \A u, v \in Dir : u.user = v.user /\ u.parent = v.parent /\ u.label = v.label => u = v
    BY DEF Dir
  <2>2. QED
    BY <1>1, <1>2, <1>4, <2>1
<1>9. \A d \in DirRows \ {q.dir} : dirs[d] # e
  <2>1. CASE q.op = "rename"
    <3>1. \A d \in DirRows : dirs[d] = e => d \in SubDirs(q.row.parent) /\ dirs[d].label = q.label
      BY <1>1, <2>1 DEF SubDirs
    <3>2. QED
      BY <1>5, <2>1, <3>1
  <2>2. CASE q.op # "rename"
    BY <1>4, <1>7, <1>8, <2>2 DEF TreeSound
  <2>3. QED
    BY <2>1, <2>2
<1>10. \A f \in FilesIn(e.parent) : files[f].label # e.label
  <2>1. CASE q.op = "rename"
    BY <1>1, <1>5, <2>1
  <2>2. CASE q.op # "rename"
    BY <1>4, <1>7, <1>8, <2>2 DEF TreeSound, FilesIn
  <2>3. QED
    BY <2>1, <2>2
<1>11. TreeSound' /\ DirRows' = DirRows
  <2>1. e.parent = dirs[q.dir].parent /\ dirs' = [dirs EXCEPT ![q.dir] = e] /\ files' = files
    BY <1>1, <1>2, <1>4
  <2>2. QED
    BY <1>4, <1>7, <1>9, <1>10, <2>1, TreeRenames
<1>12. run[r].op # "upload"
  BY <1>2 DEF q
<1>13. Written' /\ ContentsAccounted'
  BY <1>2, <1>6, <1>12, ContentsRest
<1>14. Placed'
  BY <1>2, <1>6, <1>11, SolePlaced
<1>15. QED
  BY <1>2, <1>11, <1>13, <1>14, EndedCalls DEF SoundAfter, Sound

\* A file that is shared is saved as it is
LEMMA SaveFileRowSound ==
    ASSUME IInv, IInv', DInv, NEW r \in Requests, SoleCall(r), SaveFileRow(r), Beside
    PROVE  SoundAfter(r)
<1>1. UNCHANGED <<dirs, disk>> /\ run[r].op = "share" /\ Advances(r, "done")
  BY SaveFileRowGoes
<1>2. run[r].id # 0 /\ files' = [files EXCEPT ![run[r].id] = run[r].row]
  BY DEF SaveFileRow
<1>3. run[r].id \in FileRows /\ run[r].row = files[run[r].id]
  BY <1>1, <1>2 DEF SoleCall, Found
<1>4. files' = files
  <2>1. files \in Seq(File \cup {NoFile})
    BY DEF IInv, TypeOK, StorageTypeOK
  <2>2. QED
    BY <1>2, <1>3, <2>1
<1>5. Sound'
  BY <1>1, <1>4, RowsRest
<1>6. QED
  BY <1>1, <1>5, EndedCalls DEF SoundAfter

\* What an upload stores is a file of its directory
LEMMA VersionSets ==
    ASSUME IInv, NEW r \in Requests, run[r] \in StorageCall, NEW version, NEW copied, Version(r, version, copied)
    PROVE  /\ Advances(r, "save") /\ Others(r) /\ run'[r].op = run[r].op /\ run'[r].pc = "save"
           /\ run'[r].dir = run[r].dir
           /\ run'[r].row.dir = run[r].dir /\ run'[r].row.label = run[r].label
<1> DEFINE q == run[r]
           f == [dir |-> q.dir, label |-> q.label, version |-> version,
                 path |-> [by |-> r, copied |-> copied]]
           n == [q EXCEPT !.pc = "save", !.row = f]
<1>1. run' = [run EXCEPT ![r].pc = "save", ![r].row = f]
  BY DEF Version
<1>2. f.dir = q.dir /\ f.label = q.label
  OBVIOUS
<1> HIDE DEF f
<1>3. DOMAIN run = Requests
  BY DEF IInv, TypeOK
<1>4. Others(r) /\ run'[r] = n
  BY <1>1, <1>3 DEF Others
<1> HIDE DEF q
<1>5. n.op = q.op /\ n.name = q.name /\ n.pc = "save" /\ n.row = f /\ n.dir = q.dir
  BY DEF StorageCall, q
<1> HIDE DEF n
<1>6. QED
  BY <1>2, <1>4, <1>5 DEF Advances, q

-----------------------------------------------------------------------------
(* Uploads *)

LEMMA FindVersionSound ==
    ASSUME IInv, IInv', DInv, NEW r \in Requests, SoleCall(r), FindVersion(r), Beside
    PROVE  SoundAfter(r)
<1> DEFINE found == {f \in FilesIn(run[r].dir) : files[f].label = run[r].label}
<1>1. /\ UNCHANGED <<dirs, files>> /\ run[r].op = "upload"
      /\ \/ found = {} /\ Goto(r, "testDir") /\ disk' = disk
         \/ \E f \in found : /\ disk' = disk \cup {[by |-> r, copied |-> TRUE]}
                             /\ Version(r, files[f].version + 1, TRUE)
  BY DEF FindVersion, Calls
<1>2. run[r] \in StorageCall /\ run[r].dir # Root /\ TreeSound /\ Written /\ ContentsAccounted
  BY <1>1, CallPoint DEF SoleCall, Found, Sound
<1>3. DirRows' = DirRows /\ FileRows' = FileRows /\ \A d : SubDirs(d)' = SubDirs(d)
  BY <1>1, SameRows
<1>4. CASE found = {} /\ Goto(r, "testDir") /\ disk' = disk
  <2>1. Stays(r, "testDir")
    BY <1>2, <1>4, CallGoes DEF StoragePCs
  <2>2. /\ run'[r].op = "upload" /\ run'[r].pc = "testDir" /\ run'[r].dir = run[r].dir
        /\ Advances(r, "testDir")
    BY <1>1, <2>1 DEF Stays, Advances
  <2>3. "testDir" \notin Ended
    BY DEF Ended
  <2>4. Sound'
    BY <1>1, <1>4, <2>2, <2>3, RowsRest
  <2>5. Found(r)'
    BY <1>2, <1>3, <2>2 DEF Found
  <2>6. QED
    BY <2>4, <2>5 DEF SoundAfter
<1>5. ASSUME NEW f \in found, disk' = disk \cup {[by |-> r, copied |-> TRUE]},
             Version(r, files[f].version + 1, TRUE)
      PROVE  SoundAfter(r)
  <2>1. f \in FileRows /\ files[f].dir = run[r].dir /\ files[f].label = run[r].label
    BY DEF FilesIn
  <2>2. /\ Others(r) /\ run'[r].op = "upload" /\ run'[r].pc = "save" /\ run'[r].dir = run[r].dir
        /\ run'[r].row.dir = run[r].dir /\ run'[r].row.label = run[r].label
    BY <1>1, <1>2, <1>5, VersionSets
  <2>3. \A d \in SubDirs(run[r].dir) : dirs[d].label # run[r].label
    BY <1>2, <2>1 DEF TreeSound, SubDirs
  <2>4. Found(r)'
    BY <1>1, <1>2, <1>3, <2>2, <2>3 DEF Found
  <2>5. \A p \in disk' : p.by = r => run'[r].op = "upload" /\ run'[r].pc \notin Ended \cup {"rejected"}
    BY <2>2 DEF Ended
  <2>6. \A p \in disk' : p.by # r => p \in disk
    BY <1>5
  <2>7. Written' /\ ContentsAccounted'
    BY <1>1, <1>2, <1>3, <2>2, <2>5, <2>6, ContentsGoOn
  <2>8. TreeSound'
    BY <1>1, <1>2, TreeStays
  <2>9. Placed'
    BY <1>1, <1>3, <2>2, SolePlaced
  <2>10. QED
    BY <2>4, <2>7, <2>8, <2>9 DEF SoundAfter, Sound
<1>6. QED
  BY <1>1, <1>4, <1>5

LEMMA TestNoDirSound ==
    ASSUME IInv, IInv', DInv, NEW r \in Requests, SoleCall(r), TestNoDir(r), Beside
    PROVE  SoundAfter(r)
<1>1. /\ UNCHANGED <<dirs, files, disk>> /\ run[r].op = "upload"
      /\ \/ Answer(r, "rejected")
         \/ Version(r, 1, FALSE) /\ \A d \in SubDirs(run[r].dir) : dirs[d].label # run[r].label
  BY DEF TestNoDir, Calls
<1>2. run[r] \in StorageCall /\ run[r].dir # Root /\ run[r].op \in StorageOps
  BY <1>1, CallPoint DEF SoleCall, Found
<1>3. DirRows' = DirRows /\ \A d : SubDirs(d)' = SubDirs(d)
  BY <1>1, SameRows
<1>4. CASE Answer(r, "rejected")
  <2>1. Advances(r, "rejected")
    BY <1>2, <1>4, AnswerGoes
  <2>2. QED
    BY <1>1, <2>1, EndedCalls, RowsRest DEF SoundAfter
<1>5. CASE Version(r, 1, FALSE) /\ \A d \in SubDirs(run[r].dir) : dirs[d].label # run[r].label
  <2>1. 1 \in Nat \ {0} /\ FALSE \in BOOLEAN
    OBVIOUS
  <2>2. /\ Advances(r, "save") /\ run'[r].op = "upload" /\ run'[r].pc = "save" /\ run'[r].dir = run[r].dir
        /\ run'[r].row.dir = run[r].dir /\ run'[r].row.label = run[r].label
    BY <1>1, <1>2, <1>5, VersionSets
  <2>3. Found(r)'
    BY <1>1, <1>2, <1>3, <1>5, <2>2 DEF Found
  <2>4. "save" \notin Ended
    BY DEF Ended
  <2>5. Sound'
    BY <1>1, <2>2, <2>4, RowsRest
  <2>6. QED
    BY <2>3, <2>5 DEF SoundAfter
<1>6. QED
  BY <1>1, <1>4, <1>5

LEMMA SaveFileSound ==
    ASSUME IInv, IInv', DInv, NEW r \in Requests, SoleCall(r), SaveFile(r), Beside
    PROVE  SoundAfter(r)
<1>1. /\ UNCHANGED <<dirs, disk>> /\ run[r].op = "upload" /\ At(r, "save") /\ Advances(r, "done")
      /\ run[r].row \in File /\ run[r].row.path.by = r /\ files' = Append(files, run[r].row)
      /\ run'[r].stray = (run[r].dir \notin DirRows)
  BY SaveFileGoes
<1>2. run'[r].path = run[r].row.path
  <2> DEFINE q == [op |-> "upload", name |-> run[r].name, pc |-> "done", path |-> run[r].row.path,
                   stray |-> run[r].dir \notin DirRows]
  <2>1. run' = [run EXCEPT ![r] = q]
    BY DEF SaveFile
  <2>2. run'[r] = q
    BY <2>1, CallBegins
  <2>3. QED
    BY <2>2
<1>3. /\ run[r].row.dir = run[r].dir /\ run[r].dir # Root
      /\ \A d \in SubDirs(run[r].row.dir) : dirs[d].label # run[r].row.label
      /\ TreeSound /\ Written /\ ContentsAccounted
  BY <1>1 DEF SoleCall, Found, Sound, At
<1>4. /\ TreeSound'
      /\ \A f \in FileRows : f \in FileRows' /\ files'[f] = files[f]
      /\ \E z \in FileRows' : files'[z] = run[r].row /\ FileRows' = FileRows \cup {z}
  BY <1>1, <1>3, TreeTakesFile
<1>5. Others(r) /\ run'[r].op = "upload" /\ run'[r].pc = "done"
  BY <1>1 DEF Advances
<1>6. ASSUME NEW p \in disk'
      PROVE  (run'[r].pc = "done" /\ run'[r].path # p) \/ \E f \in FileRows' : files'[f].path = p
  BY <1>2, <1>4, <1>5
<1>7. Written' /\ ContentsAccounted'
  <2>1. \A p \in disk' : p \in disk
    BY <1>1
  <2>2. \A f \in FileRows : \E g \in FileRows' : files'[g].path = files[f].path
    BY <1>4
  <2>3. QED
    BY <1>3, <1>5, <1>6, <2>1, <2>2, ContentsGoOn
<1>8. Placed'
  <2>1. PICK z \in FileRows' : files'[z] = run[r].row /\ FileRows' = FileRows \cup {z}
    BY <1>4
  <2>2. DirRows' = DirRows
    BY <1>1 DEF DirRows
  <2>3. files'[z].dir # Root /\ (files'[z].dir \in DirRows' \/ Stray(z)')
    BY <1>1, <1>3, <1>5, <2>1, <2>2 DEF Stray, At
  <2>4. Placed /\ ~At(r, "done")
    BY <1>1 DEF SoleCall, Sound, At
  <2>5. QED
    BY <1>4, <1>5, <2>1, <2>2, <2>3, <2>4, PlacedStays
<1>9. QED
  BY <1>1, <1>4, <1>7, <1>8, EndedCalls DEF SoundAfter, Sound

-----------------------------------------------------------------------------
(* Removals *)

\* The items that a step of a removal leaves, with those that replace the first one
LEMMA RemovalGoesOn ==
    ASSUME IInv, NEW r \in Requests, SoleCall(r), At(r, "work"), NEW items \in Seq(Item), Replace(r, items), Beside,
           StorageTypeOK', Emptied(items)',
           \A d : SubDirs(d)' \subseteq SubDirs(d) /\ FilesIn(d)' \subseteq FilesIn(d),
           Head(run[r].todo).kind \in {"dir", "files", "drop"} /\ Current(r) \in DirRows' =>
               \E j \in DOMAIN items : items[j].kind \in {"dir", "files", "drop"} /\ items[j].id = Current(r),
           Head(run[r].todo).kind \in {"file", "row"} /\ Current(r) \in FileRows' =>
               \E j \in DOMAIN items : items[j].kind \in {"file", "row"} /\ items[j].id = Current(r)
    PROVE  /\ Calling(r)' => Found(r)'
           /\ run[r].op \in {"removeFile", "removeDir"} /\ Others(r)
           /\ \E p : Advances(r, p)
<1>0. PICK todo : todo = run[r].todo
  OBVIOUS
<1>1. /\ run[r].op \in {"removeFile", "removeDir"}
      /\ \/ Advances(r, "done")
         \/ Advances(r, "work") /\ run'[r].todo = items \o Tail(todo)
  BY <1>0, ReplaceGoes
<1>2. todo \in Seq(Item) /\ todo # <<>> /\ Emptied(todo)
  BY <1>0, <1>1, CallPoint DEF SoleCall, CallFits, Found
<1>3. Current(r) = Head(todo).id
  BY <1>0 DEF Current
<1>4. CASE Advances(r, "done")
  BY <1>1, <1>4, EndedCalls DEF Advances
<1>5. CASE Advances(r, "work") /\ run'[r].todo = items \o Tail(todo)
  <2>1. run'[r].op = run[r].op /\ run'[r].pc = "work" /\ Others(r)
    BY <1>5 DEF Advances
  <2>2. PICK left : left = items \o Tail(todo)
    OBVIOUS
  <2>3. Emptied(left)'
    BY <1>0, <1>2, <1>3, <2>2, EmptiedGoesOn
  <2>4. run'[r].todo = left
    BY <1>5, <2>2
  <2>5. Emptied(run[r].todo)'
    BY <2>3, <2>4
  <2>6. Found(r)'
    BY <1>1, <2>1, <2>5 DEF Found
  <2>7. QED
    BY <1>1, <1>5, <2>1, <2>6
<1>6. QED
  BY <1>1, <1>4, <1>5

\* The item a removal works on, and what comes first
LEMMA WorkingFirst ==
    ASSUME IInv, NEW r \in Requests, SoleCall(r), At(r, "work")
    PROVE  /\ run[r].op \in {"removeFile", "removeDir"} /\ Current(r) \in Nat
           /\ Head(run[r].todo).kind \in {"files", "drop"} => SubDirs(Current(r)) = {}
           /\ Head(run[r].todo).kind = "drop" => FilesIn(Current(r)) = {}
           /\ Head(run[r].todo).kind = "row" /\ Current(r) \in FileRows => files[Current(r)].path \notin disk
<1> DEFINE todo == run[r].todo
<1>1. todo \in Seq(Item) /\ run[r].op \in {"removeFile", "removeDir"} /\ todo # <<>>
  BY CallPoint DEF SoleCall, CallFits, StorageOps, At
<1>2. Emptied(todo)
  BY <1>1 DEF SoleCall, Found
<1>3. 1 \in DOMAIN todo /\ Head(todo) = todo[1] /\ Current(r) = todo[1].id
  BY <1>1, HeadTailProperties DEF Current
<1> HIDE DEF todo
<1>4. \A j : j \notin 1 .. 1 - 1
  OBVIOUS
<1>5. QED
  BY <1>1, <1>2, <1>3, <1>4, WorkingOn DEF Emptied, todo

LEMMA RemoveSubDirsSound ==
    ASSUME IInv, IInv', DInv, NEW r \in Requests, SoleCall(r), RemoveSubDirs(r), Beside
    PROVE  SoundAfter(r)
<1>1. PICK c, items : c = Current(r) /\ items = Work("dir", SubDirs(c)) \o Work("files", {c})
  OBVIOUS
<1>2. /\ At(r, "work") /\ Head(run[r].todo).kind = "dir" /\ Replace(r, items)
      /\ UNCHANGED <<dirs, files, disk>>
  BY <1>1 DEF RemoveSubDirs, Working
<1>3. c \in Nat /\ run[r].op \in {"removeFile", "removeDir"}
  BY <1>1, <1>2, WorkingFirst
<1>4. PICK n \in Nat :
          /\ items \in Seq(Item) /\ DOMAIN items = 1 .. n + 1 /\ items[n + 1] = [kind |-> "files", id |-> c]
          /\ \A j \in 1 .. n : items[j].kind = "dir"
          /\ \A i \in SubDirs(c) : \E j \in 1 .. n : items[j].kind = "dir" /\ items[j].id = i
  <2>1. SubDirs(c) \in SUBSET Nat /\ IsFiniteSet(SubDirs(c))
    BY <1>3, IdsFinite
  <2>2. items \in Seq(Item) /\ WorksThen(items, "dir", SubDirs(c), "files", c)
    BY <1>1, <1>3, <2>1, WorkThen
  <2>3. QED
    BY <2>2 DEF WorksThen
<1>5. \A d : SubDirs(d)' = SubDirs(d) /\ FilesIn(d)' = FilesIn(d)
  BY <1>2, SameRows
<1>6. ASSUME NEW i \in DOMAIN items
      PROVE  /\ items[i].kind \in {"dir", "files"}
             /\ items[i].kind = "files" => i - 1 = n /\ items[i].id = c
  BY <1>4
<1>7. SubDirs(c)' = SubDirs(c)
  BY <1>5
<1>8. Emptied(items)'
  BY <1>4, <1>6, <1>7 DEF Emptied
<1>9. /\ Calling(r)' => Found(r)'
      /\ \E p : Advances(r, p)
  <2>1. \E j \in DOMAIN items : items[j].kind \in {"dir", "files", "drop"} /\ items[j].id = c
    BY <1>4
  <2>2. StorageTypeOK'
    BY <1>2, RowsStay
  <2>3. items \in Seq(Item)
    BY <1>4
  <2>4. QED
    BY <1>1, <1>2, <1>5, <1>8, <2>1, <2>2, <2>3, RemovalGoesOn
<1>10. Sound'
  BY <1>2, <1>3, <1>9, RowsRest
<1>11. QED
  BY <1>9, <1>10 DEF SoundAfter

LEMMA RemoveFilesInSound ==
    ASSUME IInv, IInv', DInv, NEW r \in Requests, SoleCall(r), RemoveFilesIn(r), Beside
    PROVE  SoundAfter(r)
<1>1. PICK c, items : c = Current(r) /\ items = Work("file", FilesIn(c)) \o Work("drop", {c})
  OBVIOUS
<1>2. /\ At(r, "work") /\ Head(run[r].todo).kind = "files" /\ Replace(r, items)
      /\ UNCHANGED <<dirs, files, disk>>
  BY <1>1 DEF RemoveFilesIn, Working
<1>3. c \in Nat /\ run[r].op \in {"removeFile", "removeDir"} /\ SubDirs(c) = {}
  BY <1>1, <1>2, WorkingFirst
<1>4. PICK n \in Nat :
          /\ items \in Seq(Item) /\ DOMAIN items = 1 .. n + 1 /\ items[n + 1] = [kind |-> "drop", id |-> c]
          /\ \A j \in 1 .. n : items[j].kind = "file"
          /\ \A i \in FilesIn(c) : \E j \in 1 .. n : items[j].kind = "file" /\ items[j].id = i
  <2>1. FilesIn(c) \in SUBSET Nat /\ IsFiniteSet(FilesIn(c))
    BY <1>3, IdsFinite
  <2>2. items \in Seq(Item) /\ WorksThen(items, "file", FilesIn(c), "drop", c)
    BY <1>1, <1>3, <2>1, WorkThen
  <2>3. QED
    BY <2>2 DEF WorksThen
<1>5. \A d : SubDirs(d)' = SubDirs(d) /\ FilesIn(d)' = FilesIn(d)
  BY <1>2, SameRows
<1>6. ASSUME NEW i \in DOMAIN items
      PROVE  /\ items[i].kind \in {"file", "drop"}
             /\ items[i].kind = "drop" => i - 1 = n /\ items[i].id = c
  BY <1>4
<1>7. SubDirs(c)' = {} /\ FilesIn(c)' = FilesIn(c)
  BY <1>3, <1>5
<1>8. Emptied(items)'
  <2> SUFFICES ASSUME NEW i \in DOMAIN items
               PROVE  /\ items[i].kind \in {"files", "drop"} =>
                             \A d \in SubDirs(items[i].id)' :
                                 \E j \in 1 .. i - 1 : /\ items[j].kind \in {"dir", "files", "drop"}
                                                    /\ items[j].id = d
                      /\ items[i].kind = "drop" =>
                             \A f \in FilesIn(items[i].id)' :
                                 \E j \in 1 .. i - 1 : /\ items[j].kind \in {"file", "row"}
                                                    /\ items[j].id = f
                      /\ items[i].kind # "row"
    BY DEF Emptied
  <2>1. CASE items[i].kind = "file"
    BY <2>1
  <2>2. CASE items[i].kind = "drop"
    <3>1. i - 1 = n /\ items[i].id = c
      BY <1>6, <2>2
    <3>2. SubDirs(items[i].id)' = {} /\ FilesIn(items[i].id)' = FilesIn(c)
      BY <1>7, <3>1
    <3>3. \A f \in FilesIn(c) : \E j \in 1 .. n : items[j].kind = "file" /\ items[j].id = f
      BY <1>4
    <3>4. QED
      BY <2>2, <3>1, <3>2, <3>3
  <2>3. QED
    BY <1>6, <2>1, <2>2
<1>9. /\ Calling(r)' => Found(r)'
      /\ \E p : Advances(r, p)
  <2>1. \E j \in DOMAIN items : items[j].kind \in {"dir", "files", "drop"} /\ items[j].id = c
    BY <1>4
  <2>2. StorageTypeOK'
    BY <1>2, RowsStay
  <2>3. items \in Seq(Item)
    BY <1>4
  <2>4. QED
    BY <1>1, <1>2, <1>5, <1>8, <2>1, <2>2, <2>3, RemovalGoesOn
<1>10. Sound'
  BY <1>2, <1>3, <1>9, RowsRest
<1>11. QED
  BY <1>9, <1>10 DEF SoundAfter

LEMMA DeleteContentSound ==
    ASSUME IInv, IInv', DInv, NEW r \in Requests, SoleCall(r), DeleteContent(r), Beside
    PROVE  SoundAfter(r)
<1>1. PICK c : c = Current(r)
  OBVIOUS
<1>2. /\ At(r, "work") /\ Head(run[r].todo).kind = "file" /\ UNCHANGED <<dirs, files>>
      /\ \/ c \in FileRows /\ disk' = disk \ {files[c].path} /\ Replace(r, Work("row", {c}))
         \/ c \notin FileRows /\ Replace(r, <<>>) /\ disk' = disk
  BY <1>1 DEF DeleteContent, Working
<1>3. c \in Nat /\ run[r].op # "upload"
  BY <1>1, <1>2, WorkingFirst
<1>4. /\ \A d : SubDirs(d)' = SubDirs(d) /\ FilesIn(d)' = FilesIn(d)
      /\ FileRows' = FileRows /\ DirRows' = DirRows
  BY <1>2, SameRows
<1>5. StorageTypeOK' /\ disk' \subseteq disk
  BY <1>2, RowsTyped DEF StorageTypeOK
<1>6. (Calling(r)' => Found(r)') /\ Others(r)
  <2>1. CASE c \in FileRows /\ disk' = disk \ {files[c].path} /\ Replace(r, Work("row", {c}))
    <3>1. PICK items : items = Work("row", {c})
      OBVIOUS
    <3>2. items \in Seq(Item) /\ items = <<[kind |-> "row", id |-> c]>>
      BY <1>3, <3>1, WorkOfOne
    <3>3. DOMAIN items = {1} /\ items[1].kind = "row" /\ items[1].id = c
      BY <3>2
    <3>4. Emptied(items)'
      BY <1>2, <2>1, <3>3 DEF Emptied
    <3>5. QED
      BY <1>1, <1>2, <1>4, <1>5, <2>1, <3>1, <3>2, <3>3, <3>4, RemovalGoesOn
  <2>2. CASE c \notin FileRows /\ Replace(r, <<>>)
    <3>1. PICK items : items = <<>>
      OBVIOUS
    <3>2. items \in Seq(Item) /\ DOMAIN items = {}
      BY <3>1, EmptyIsSeq
    <3>3. Emptied(items)'
      BY <3>2 DEF Emptied
    <3>4. QED
      BY <1>1, <1>2, <1>4, <1>5, <2>2, <3>1, <3>2, <3>3, RemovalGoesOn
  <2>3. QED
    BY <1>2, <2>1, <2>2
<1>7. Written' /\ ContentsAccounted'
  BY <1>2, <1>3, <1>4, <1>5, <1>6, ContentsRest
<1>8. TreeSound'
  BY <1>2, TreeStays DEF SoleCall, Sound
<1>9. Placed'
  BY <1>2, <1>4, <1>6, SolePlaced
<1>10. QED
  BY <1>6, <1>7, <1>8, <1>9 DEF SoundAfter, Sound

LEMMA DeleteFileSound ==
    ASSUME IInv, IInv', DInv, NEW r \in Requests, SoleCall(r), DeleteFile(r), Beside
    PROVE  SoundAfter(r)
<1>1. PICK c : c = Current(r)
  OBVIOUS
<1>2. /\ At(r, "work") /\ Head(run[r].todo).kind = "row" /\ UNCHANGED <<dirs, disk>>
      /\ files' = [files EXCEPT ![c] = NoFile] /\ Replace(r, <<>>)
  BY <1>1 DEF DeleteFile, Working
<1>3. c \in Nat /\ run[r].op # "upload" /\ (c \in FileRows => files[c].path \notin disk)
  BY <1>1, <1>2, WorkingFirst
<1>4. /\ TreeSound' /\ FileRows' = FileRows \ {c}
      /\ \A f \in FileRows' : files'[f] = files[f]
  BY <1>2, <1>3, TreeLosesFile DEF SoleCall, Sound
<1>5. \A d : SubDirs(d)' \subseteq SubDirs(d) /\ FilesIn(d)' \subseteq FilesIn(d)
  BY <1>2, <1>4 DEF SubDirs, FilesIn, DirRows
<1>6. StorageTypeOK'
  BY DEF IInv, TypeOK
<1>7. (Calling(r)' => Found(r)') /\ Others(r)
  <2>1. PICK items : items = <<>>
    OBVIOUS
  <2>2. items \in Seq(Item) /\ DOMAIN items = {}
    BY <2>1, EmptyIsSeq
  <2>3. Emptied(items)'
    BY <2>2 DEF Emptied
  <2>4. QED
    BY <1>1, <1>2, <1>4, <1>5, <1>6, <2>1, <2>2, <2>3, RemovalGoesOn
<1>8. \A f \in FileRows : files[f].path \in disk' => f \in FileRows' /\ files'[f].path = files[f].path
  BY <1>2, <1>3, <1>4
<1>9. Written' /\ ContentsAccounted'
  BY <1>2, <1>3, <1>7, <1>8, ContentsRest
<1>10. Placed'
  <2>1. DirRows' = DirRows /\ FileRows' \subseteq FileRows
    BY <1>2, <1>4 DEF DirRows
  <2>2. QED
    BY <1>4, <1>7, <2>1, SolePlaced
<1>11. QED
  BY <1>4, <1>7, <1>9, <1>10 DEF SoundAfter, Sound

LEMMA DeleteDirSound ==
    ASSUME IInv, IInv', DInv, NEW r \in Requests, SoleCall(r), DeleteDir(r), Beside
    PROVE  SoundAfter(r)
<1>1. PICK c : c = Current(r)
  OBVIOUS
<1>2. /\ At(r, "work") /\ Head(run[r].todo).kind = "drop" /\ UNCHANGED <<files, disk>>
      /\ dirs' = [dirs EXCEPT ![c] = NoDir] /\ Replace(r, <<>>)
  BY <1>1 DEF DeleteDir, Working
<1>3. c \in Nat /\ run[r].op # "upload" /\ SubDirs(c) = {} /\ FilesIn(c) = {}
  BY <1>1, <1>2, WorkingFirst
<1>4. TreeSound' /\ DirRows' = DirRows \ {c}
  BY <1>2, <1>3, TreeShrinks DEF SoleCall, Sound
<1>5. \A d : SubDirs(d)' \subseteq SubDirs(d) /\ FilesIn(d)' \subseteq FilesIn(d)
  <2>1. dirs \in Seq(Dir \cup {NoDir})
    BY DEF IInv, TypeOK, StorageTypeOK
  <2>2. /\ DOMAIN dirs' = DOMAIN dirs
        /\ \A i \in DOMAIN dirs : dirs'[i] = IF i = c THEN NoDir ELSE dirs[i]
    BY <1>2, <2>1, RowWritten
  <2>3. QED
    BY <1>2, <2>2 DEF SubDirs, FilesIn, DirRows, FileRows
<1>6. StorageTypeOK'
  BY DEF IInv, TypeOK
<1>7. (Calling(r)' => Found(r)') /\ Others(r)
  <2>1. PICK items : items = <<>>
    OBVIOUS
  <2>2. items \in Seq(Item) /\ DOMAIN items = {}
    BY <2>1, EmptyIsSeq
  <2>3. Emptied(items)'
    BY <2>2 DEF Emptied
  <2>4. QED
    BY <1>1, <1>2, <1>4, <1>5, <1>6, <2>1, <2>2, <2>3, RemovalGoesOn
<1>8. FileRows' = FileRows
  BY <1>2 DEF FileRows
<1>9. Written' /\ ContentsAccounted'
  BY <1>2, <1>3, <1>7, <1>8, ContentsRest
<1>10. Placed'
  <2>1. \A f \in FileRows : files'[f] = files[f] /\ files[f].dir # c
    BY <1>2, <1>3 DEF FilesIn
  <2>2. QED
    BY <1>4, <1>7, <1>8, <2>1, SolePlaced
<1>11. QED
  BY <1>4, <1>7, <1>9, <1>10 DEF SoundAfter, Sound

LEMMA StepsSound ==
    ASSUME IInv, IInv', DInv, NEW r \in Requests, SoleCall(r), StorageStep(r), Beside
    PROVE  SoundAfter(r)
<1>1. CASE TestFileName(r)
  <2>1. run[r].op \in {"createDir", "rename"}
    BY <1>1 DEF TestFileName
  <2>2. QED
    BY <1>1, <2>1, CreatesSound, RenamesSound
<1>2. CASE TestParent(r) \/ TestDirName(r) \/ TestSiblings(r)
  BY <1>2, CreatesSound, RenamesSound
<1>3. CASE SaveNewDir(r) \/ SaveDirRow(r) \/ SaveFileRow(r)
  BY <1>3, SaveNewDirSound, SaveDirRowSound, SaveFileRowSound
<1>4. CASE FindVersion(r) \/ TestNoDir(r) \/ SaveFile(r)
  BY <1>4, FindVersionSound, TestNoDirSound, SaveFileSound
<1>5. CASE RemoveSubDirs(r) \/ RemoveFilesIn(r) \/ DeleteContent(r) \/ DeleteFile(r) \/ DeleteDir(r)
  BY <1>5, RemoveSubDirsSound, RemoveFilesInSound, DeleteContentSound, DeleteFileSound, DeleteDirSound
<1>6. QED
  BY <1>1, <1>2, <1>3, <1>4, <1>5 DEF StorageStep

-----------------------------------------------------------------------------
(* Every step *)

\* A call begins, beside nobody
LEMMA BeginsSound ==
    ASSUME IInv, IInv', NEW r \in Requests, At(r, "idle"), Sound, NEW n \in Names, StorageBegin(r, n), Beside
    PROVE  SoundAfter(r) /\ Others(r)
<1>1. run[r].op = "none"
  BY PointTells DEF At
<1>2. TreeSound /\ Written /\ ContentsAccounted /\ \A p \in disk : p.by # r
  BY <1>1 DEF Sound, Written
<1>10. ASSUME UNCHANGED <<dirs, files>>, Others(r) PROVE Placed'
  <2>1. Placed /\ ~At(r, "done")
    BY DEF Sound, At
  <2>2. FileRows' = FileRows /\ DirRows' = DirRows
    BY <1>10, SameRows
  <2>3. QED
    BY <1>10, <2>1, <2>2, PlacedStays
<1>3. ASSUME UNCHANGED <<dirs, files, disk>>, Others(r) PROVE Sound'
  <2>1. FileRows' = FileRows
    BY <1>3 DEF FileRows
  <2>2. Written' /\ ContentsAccounted'
    BY <1>2, <1>3, <2>1, ContentsGoOn
  <2>3. QED
    BY <1>2, <1>3, <1>10, <2>2, TreeStays DEF Sound
<1>4. CASE CreateDir(r, n)
  <2>1. PICK d \in DirRows \cup {Root}, l \in Labels :
            run' = [run EXCEPT ![r] = [op |-> "createDir", name |-> n, dir |-> d, label |-> l,
                       pc |-> IF d = Root THEN "testDir" ELSE "parent",
                       id |-> 0, row |-> NoDir, todo |-> <<>>]]
    BY <1>4 DEF CreateDir, Begin
  <2> DEFINE q == [op |-> "createDir", name |-> n, dir |-> d, label |-> l,
                   pc |-> IF d = Root THEN "testDir" ELSE "parent",
                   id |-> 0, row |-> NoDir, todo |-> <<>>]
  <2>2. Others(r) /\ run'[r] = q
    BY <2>1, CallBegins
  <2>3. q.op = "createDir" /\ q.dir = d /\ q.pc = IF d = Root THEN "testDir" ELSE "parent"
    OBVIOUS
  <2> HIDE DEF q
  <2>4. UNCHANGED <<dirs, files, disk>>
    BY <1>4 DEF CreateDir
  <2>5. Found(r)'
    BY <2>2, <2>3 DEF Found
  <2>6. QED
    BY <1>3, <2>2, <2>4, <2>5 DEF SoundAfter
<1>5. CASE Upload(r, n)
  <2>1. /\ UNCHANGED <<dirs, files>> /\ Others(r) /\ run'[r].op = "upload"
        /\ disk' = disk \cup {[by |-> r, copied |-> FALSE]}
        /\ run'[r].pc \in {"testFile", "rejected"}
    BY <1>5, UploadGoes
  <2>2. DirRows' = DirRows /\ FileRows' = FileRows
    BY <2>1, SameRows
  <2>3. "testFile" \notin Ended \cup {"rejected"}
    BY DEF Ended
  <2>4. \A p \in disk' : p.by # r => p \in disk
    BY <2>1
  <2>5. Written' /\ ContentsAccounted'
    BY <1>2, <2>1, <2>2, <2>3, <2>4, ContentsGoOn
  <2>6. Sound'
    BY <1>2, <1>10, <2>1, <2>5, TreeStays DEF Sound
  <2>7. CASE run' = [run EXCEPT ![r] = [op |-> "upload", name |-> n, pc |-> "rejected"]]
    <3> DEFINE q == [op |-> "upload", name |-> n, pc |-> "rejected"]
    <3>1. run'[r] = q
      BY <2>7, CallBegins
    <3>2. ~Calling(r)'
      BY <3>1 DEF Calling, Live, Ended
    <3>3. QED
      BY <2>1, <2>6, <3>2 DEF SoundAfter
  <2>8. CASE \E d \in DOMAIN dirs : Begin(r, "upload", n, d, "notes", "testFile")
    <3>1. PICK d \in DOMAIN dirs :
              run' = [run EXCEPT ![r] = [op |-> "upload", name |-> n, dir |-> d, label |-> "notes",
                          pc |-> "testFile", id |-> 0, row |-> NoDir, todo |-> <<>>]]
      BY <2>8 DEF Begin
    <3> DEFINE q == [op |-> "upload", name |-> n, dir |-> d, label |-> "notes",
                     pc |-> "testFile", id |-> 0, row |-> NoDir, todo |-> <<>>]
    <3>2. run'[r] = q
      BY <3>1, CallBegins
    <3>3. q.op = "upload" /\ q.dir = d /\ q.pc = "testFile"
      OBVIOUS
    <3> HIDE DEF q
    <3>4. Found(r)'
      BY <3>2, <3>3, DirIds DEF Found
    <3>5. QED
      BY <2>1, <2>6, <3>4 DEF SoundAfter
  <2>9. QED
    BY <1>5, <2>7, <2>8 DEF Upload
<1>6. CASE LoadFile(r, n)
  <2>1. PICK f \in FileRows :
            run' = [run EXCEPT ![r] = [op |-> "share", name |-> n, dir |-> Root, label |-> "notes",
                        id |-> f, pc |-> "save", row |-> files[f], todo |-> <<>>]]
    BY <1>6 DEF LoadFile
  <2> DEFINE q == [op |-> "share", name |-> n, dir |-> Root, label |-> "notes",
                   id |-> f, pc |-> "save", row |-> files[f], todo |-> <<>>]
  <2>2. Others(r) /\ run'[r] = q
    BY <2>1, CallBegins
  <2>3. q.op = "share" /\ q.id = f /\ q.row = files[f]
    OBVIOUS
  <2> HIDE DEF q
  <2>4. UNCHANGED <<dirs, files, disk>>
    BY <1>6 DEF LoadFile
  <2>5. FileRows' = FileRows
    BY <2>4, SameRows
  <2>6. Found(r)'
    BY <2>2, <2>3, <2>4, <2>5 DEF Found
  <2>7. QED
    BY <1>3, <2>2, <2>4, <2>6 DEF SoundAfter
<1>7. ASSUME NEW op, LoadDir(r, op, n) PROVE SoundAfter(r) /\ Others(r)
  <2>1. /\ Others(r) /\ run'[r].op = op /\ op \in {"rename", "share"} /\ UNCHANGED <<dirs, files, disk>>
        /\ run'[r].pc = IF op = "rename" THEN "testDir" ELSE "save"
        /\ run'[r].id = 0
    BY <1>7, LoadDirGoes
  <2>2. Found(r)'
    BY <2>1 DEF Found
  <2>3. QED
    BY <1>3, <2>1, <2>2 DEF SoundAfter
<1>8. ASSUME NEW op, StartRemoval(r, op, n) PROVE SoundAfter(r) /\ Others(r)
  <2>1. PICK kind, i :
            /\ i \in (IF op = "removeFile" THEN FileRows ELSE DOMAIN dirs)
            /\ kind = (IF op = "removeFile" THEN "file" ELSE "dir")
            /\ run' = [run EXCEPT ![r] = [op |-> op, name |-> n, dir |-> Root, label |-> "notes",
                          id |-> 0, pc |-> "work", row |-> NoDir, todo |-> Work(kind, {i})]]
    BY <1>8 DEF StartRemoval
  <2>2. PICK todo : todo = Work(kind, {i})
    OBVIOUS
  <2>3. UNCHANGED <<dirs, files, disk>> /\ op \in {"removeFile", "removeDir"}
    BY <1>8 DEF StartRemoval
  <2>4. todo = <<[kind |-> kind, id |-> i]>> /\ kind \in {"file", "dir"}
    <3>1. i \in Nat /\ kind \in {"dir", "files", "drop", "file", "row"} /\ kind \in {"file", "dir"}
      BY <2>1, IdsFinite, DirIds
    <3>2. QED
      BY <2>2, <3>1, WorkOfOne
  <2>5. \A j \in DOMAIN todo : todo[j].kind \in {"file", "dir"}
    BY <2>4
  <2>6. Emptied(todo)'
    BY <2>5 DEF Emptied
  <2> DEFINE q == [op |-> op, name |-> n, dir |-> Root, label |-> "notes",
                   id |-> 0, pc |-> "work", row |-> NoDir, todo |-> todo]
  <2>7. Others(r) /\ run'[r] = q
    BY <2>1, <2>2, CallBegins
  <2>8. q.op = op /\ q.todo = todo
    OBVIOUS
  <2> HIDE DEF q
  <2>9. run'[r].op = op /\ run'[r].todo = todo
    BY <2>7, <2>8
  <2>10. Emptied(run[r].todo)'
    BY <2>6, <2>9
  <2>11. Found(r)'
    BY <2>3, <2>9, <2>10 DEF Found
  <2>12. QED
    BY <1>3, <2>3, <2>7, <2>11 DEF SoundAfter
<1>9. QED
  BY <1>4, <1>5, <1>6, <1>7, <1>8 DEF StorageBegin

\* A step of accounts, beside no call of the storage
LEMMA AuthKeepsSound ==
    ASSUME IInv, IInv', DInv, SInv, NEW r \in Requests, Others(r), files' = files, disk' = disk, faults' = faults,
           overlapped \subseteq overlapped', run[r].op \notin StorageOps, run'[r].op \notin StorageOps,
           \/ Live(r)
           \/ \A o \in Requests \ {r} : Calling(o) => overlapped' = Names,
           ~At(r, "done"),
           Serial => (TreeSound' /\ DirRows \subseteq DirRows') \/ dirs' = dirs
    PROVE  SInv'
<1>1. SUFFICES ASSUME Serial' PROVE SInv'
  BY DEF SInv
<1>2. Serial
  BY <1>1 DEF Serial
<1>3. TreeSound /\ Placed /\ Written /\ ContentsAccounted
  BY <1>2 DEF SInv
<1>4. TreeSound'
  BY <1>2, <1>3, TreeStays
<1>10. DirRows \subseteq DirRows'
  BY <1>2 DEF DirRows
<1>5. FileRows' = FileRows
  BY DEF FileRows
<1>6. \A p \in disk' : p \in disk /\ p.by # r
  BY <1>3 DEF Written, StorageOps
<1>7. Written' /\ ContentsAccounted'
  BY <1>3, <1>5, <1>6, ContentsGoOn
<1>8. ASSUME NEW o \in Requests, Calling(o)' PROVE FALSE
  <2>1. o # r /\ Calling(o)
    BY <1>8 DEF Calling, Live, Others
  <2>2. ~Live(r)
    BY <1>2, <2>1, SerialAlone
  <2>3. run[o].name \in Names
    BY <2>1, PointTells DEF Calling, StorageOps
  <2>4. QED
    BY <1>1, <2>1, <2>2, <2>3 DEF Serial
<1>11. Placed'
  BY <1>3, <1>5, <1>10, PlacedStays
<1>9. QED
  BY <1>4, <1>7, <1>8, <1>11 DEF SInv

LEMMA SaveDirSound ==
    ASSUME IInv, IInv', DInv, SInv, NEW r \in Requests, NEW kind \in Kinds, SaveDir(r, kind)
    PROVE  SInv'
<1> DEFINE d == [user |-> run[r].name, label |-> kind, parent |-> Root]
<1>1. /\ run[r].op \in AuthOps /\ run[r].name \in Names /\ UNCHANGED <<files, disk, overlapped, faults>>
      /\ At(r, IF kind = "home" THEN "saveHome" ELSE "saveShare") /\ dirs' = Append(dirs, d)
      /\ \E p : Advances(r, p)
  BY SaveDirGoes DEF Proceeds
<1>2. d \in Dir /\ d.user = run[r].name /\ d.label = kind /\ d.parent = Root
  BY <1>1 DEF Dir, Labels, Root
<1> HIDE DEF d
<1>3. run[r].pc \in PCs \ {"idle", "done", "rejected"}
  BY <1>1 DEF At, PCs
<1>4. Live(r) /\ run[r].op \notin StorageOps /\ Others(r) /\ run'[r].op = run[r].op
  BY <1>1, <1>3, AtPoint DEF Advances
<1>5. ASSUME Serial PROVE TreeSound' /\ DirRows \subseteq DirRows'
  <2>1. TreeSound /\ Placed
    BY <1>5 DEF SInv
  <2>2. RootDirs(run[r].name, kind) = {}
    <3>1. Tested(r) /\ kind \in {"home", "share"} /\ run[r].name \notin overlapped
      BY <1>5 DEF DInv, Kinds, Serial
    <3>2. QED
      BY <1>1, <3>1 DEF Tested, At
  <2>3. \A e \in SubDirs(Root) : ~(dirs[e].user = run[r].name /\ dirs[e].label = kind)
    BY <2>2 DEF RootDirs
  <2>4. FilesIn(Root) = {}
    BY <2>1 DEF FilesIn, Placed
  <2>5. QED
    BY <1>1, <1>2, <2>1, <2>3, <2>4, TreeGrows
<1>6. ~At(r, "done")
  BY <1>3 DEF At
<1>7. QED
  BY <1>1, <1>4, <1>5, <1>6, AuthKeepsSound

\* A call of the storage
LEMMA MovesKeepSound ==
    ASSUME IInv, IInv', DInv, SInv, NEW r \in Requests, StorageMoves(r)
    PROVE  SInv'
<1>1. SUFFICES ASSUME Serial' PROVE SInv'
  BY DEF SInv
<1>2. /\ Beside /\ Others(r) /\ overlapped \subseteq overlapped' /\ faults' = faults
      /\ \/ StorageStep(r) /\ overlapped' = overlapped
         \/ /\ \E n \in Names : StorageBegin(r, n)
            /\ At(r, "idle") /\ overlapped' = IF OthersLive(r) = {} THEN overlapped ELSE Names
  BY MovesBeside, MovesQuiet
<1>3. Serial
  BY <1>1, <1>2 DEF Serial
<1>4. Sound /\ \A o \in Requests : Calling(o) => Found(o)
  BY <1>3 DEF SInv, Sound
<1>5. SoundAfter(r) /\ \A o \in Requests \ {r} : ~Live(o)
  <2>1. CASE StorageStep(r)
    <3>1. Calling(r)
      BY <1>2, <2>1, TestParentGoes, TestDirNameGoes, TestFileNameGoes, SaveNewDirGoes, FindVersionGoes,
         TestNoDirGoes, SaveFileGoes, TestSiblingsGoes, SaveDirRowGoes, SaveFileRowGoes,
         RemoveSubDirsGoes, RemoveFilesInGoes, DeleteContentGoes, DeleteFileGoes, DeleteDirGoes
      DEF StorageStep, StorageOps, Calling
    <3>2. SoleCall(r)
      BY <1>3, <1>4, <3>1 DEF SoleCall
    <3>3. QED
      BY <1>2, <1>3, <2>1, <3>1, <3>2, SerialAlone, StepsSound
  <2>2. ASSUME NEW n \in Names, StorageBegin(r, n), At(r, "idle"),
               overlapped' = IF OthersLive(r) = {} THEN overlapped ELSE Names
        PROVE  SoundAfter(r) /\ \A o \in Requests \ {r} : ~Live(o)
    <3>1. OthersLive(r) = {}
      BY <1>1, <2>2 DEF Serial
    <3>2. QED
      BY <1>2, <1>4, <2>2, <3>1, BeginsSound DEF OthersLive
  <2>3. QED
    BY <1>2, <2>1, <2>2
<1>6. \A o \in Requests : Calling(o)' => o = r
  BY <1>2, <1>5 DEF Others, Calling, Live
<1>7. QED
  BY <1>5, <1>6 DEF SoundAfter, Sound, SInv

LEMMA NextKeepsSound ==
    ASSUME IInv, DInv, SInv, [Next]_vars
    PROVE  SInv'
<1>0. IInv'
  BY NextTypes
<1>1. CASE UNCHANGED vars
  BY <1>1 DEF vars, rows, SInv, Serial, TreeSound, Placed, Stray, Written, ContentsAccounted, Found, Emptied,
     Calling, Live, At, DirRows, FileRows, SubDirs, FilesIn
<1>2. ASSUME NEW r \in Requests, NEW op, NEW n \in Names,
             \/ op \in AuthOps /\ FindUser(r, op, n)
             \/ op \in UserOps /\ UseAccount(r, op, n)
      PROVE  SInv'
  <2>1. /\ Others(r) /\ UNCHANGED <<dirs, files, disk>> /\ faults' = faults /\ At(r, "idle")
        /\ run'[r].op \notin StorageOps
    BY <1>2, FindUserGoes, UseAccountGoes DEF BeginsAs, rows, FindUser, UseAccount, AuthOps, UserOps, ProfileOps, StorageOps
  <2>2. run[r].op = "none" /\ run[r].op \notin StorageOps /\ ~At(r, "done")
    BY <2>1, PointTells DEF At, StorageOps
  <2>3. /\ overlapped \subseteq overlapped'
        /\ \A o \in Requests \ {r} : Calling(o) => overlapped' = Names
    BY <1>2 DEF FindUser, UseAccount, NotesOverlap, OthersLive, Calling, IInv, TypeOK
  <2>4. QED
    BY <1>0, <2>1, <2>2, <2>3, AuthKeepsSound
<1>3. ASSUME NEW r \in Requests, NEW p, Advances(r, p), run[r].pc \in PCs \ {"idle", "done", "rejected"},
             UNCHANGED <<dirs, files, disk, overlapped, faults>>
      PROVE  SInv'
  <2>1. Others(r) /\ run'[r].op = run[r].op /\ run[r].op \notin StorageOps /\ Live(r)
    BY <1>3, AtPoint DEF Advances
  <2>2. ~At(r, "done")
    BY <1>3 DEF At
  <2>3. QED
    BY <1>0, <1>3, <2>1, <2>2, AuthKeepsSound
<1>4. ASSUME NEW r \in Requests, NEW kind \in Kinds, FindDir(r, kind) \/ TestDir(r, kind) \/ SaveDir(r, kind)
      PROVE  SInv'
  <2>1. ASSUME FindDir(r, kind) \/ TestDir(r, kind)
        PROVE  UNCHANGED <<dirs, files, disk, overlapped, faults>> /\ \E p : Advances(r, p)
    BY <2>1, FindDirGoes, TestDirGoes DEF Proceeds, rows
  <2>2. run[r].pc \in PCs \ {"idle", "done", "rejected"}
    BY <1>4 DEF FindDir, TestDir, SaveDir, At, Kinds, PCs
  <2>3. QED
    BY <1>0, <1>3, <1>4, <2>1, <2>2, SaveDirSound
<1>5. ASSUME NEW r \in Requests,
             \/ CountUsers(r) \/ SaveRoles(r) \/ SavePermission(r) \/ SaveUser(r) \/ AssignRole(r)
             \/ LinkDirs(r) \/ CreateAgent(r) \/ CreateWallet(r)
             \/ LogIn(r) \/ SavePassword(r) \/ SaveProfile(r)
      PROVE  SInv'
  <2> DEFINE P == {"adminRole", "userRole", "permission", "user", "assign", "testHome", "agent", "wallet",
                   "done", "rejected"}
  <2>1. UNCHANGED <<dirs, files, disk, overlapped, faults>> /\ \E p \in P : Advances(r, p)
    <3>1. CASE CountUsers(r)
      <4>1. faults' = faults
        BY <3>1 DEF CountUsers
      <4>2. QED
        BY <3>1, <4>1, CountUsersGoes DEF rows
    <3>2. CASE SaveRoles(r) \/ SavePermission(r) \/ AssignRole(r) \/ CreateWallet(r)
      BY <3>2, SaveRolesGoes, SavePermissionGoes, AssignRoleGoes, CreateWalletGoes
         DEF Proceeds, rows
    <3>3. CASE LinkDirs(r) \/ CreateAgent(r) \/ LogIn(r) \/ SavePassword(r) \/ SaveProfile(r)
      BY <3>3, LinkDirsGoes, CreateAgentGoes, LogInGoes, SavePasswordGoes, SaveProfileGoes
         DEF Proceeds, rows
    <3>4. CASE SaveUser(r)
      BY <3>4, SaveUserGoes DEF Proceeds
    <3>5. QED
      BY <1>5, <3>1, <3>2, <3>3, <3>4
  <2>2. run[r].pc \in PCs \ {"idle", "done", "rejected"}
    BY <1>5 DEF CountUsers, SaveRoles, SavePermission, SaveUser, AssignRole, LinkDirs, CreateAgent,
       CreateWallet, LogIn, SavePassword, SaveProfile, At, PCs
  <2>3. QED
    BY <1>3, <2>1, <2>2
<1>6. ASSUME NEW r \in Requests, QueryFails(r) PROVE SInv'
  BY <1>6, QueryFailsGoes DEF SInv, Serial
<1>7. ASSUME NEW r \in Requests, StorageMoves(r) PROVE SInv'
  BY <1>0, <1>7, MovesKeepSound
<1>8. QED
  BY <1>1, <1>2, <1>4, <1>5, <1>6, <1>7 DEF Next, StorageMoves

LEMMA InitSound ==
    ASSUME Init
    PROVE  SInv
<1>1. files = <<>> /\ disk = {} /\ \A r \in Requests : ~Calling(r)
  BY InitIdle DEF Init, StorageInit, Calling
<1>2. FileRows = {}
  BY <1>1 DEF FileRows
<1>3. Placed /\ Written /\ ContentsAccounted
  BY <1>1, <1>2 DEF Placed, Written, ContentsAccounted
<1>4. CASE Fresh
  <2>1. DirRows = {}
    BY <1>4 DEF Fresh, DirRows
  <2>2. QED
    BY <1>1, <1>2, <1>3, <2>1 DEF SInv, TreeSound
<1>5. ASSUME NEW n \in Names, Registered(n) PROVE SInv
  <2>1. /\ DOMAIN dirs = 1 .. 2 /\ dirs[1].label = "home" /\ dirs[2].label = "share"
        /\ dirs[1].parent = Root /\ dirs[2].parent = Root
    BY <1>5 DEF Registered
  <2>2. \A d, e \in DirRows : d # e => dirs[d].label # dirs[e].label
    BY <2>1 DEF DirRows
  <2>3. \A d \in DirRows : dirs[d].parent = Root
    BY <2>1 DEF DirRows
  <2>4. TreeSound
    BY <1>2, <2>2, <2>3 DEF TreeSound
  <2>5. QED
    BY <1>1, <1>3, <2>4 DEF SInv
<1>6. QED
  BY <1>4, <1>5 DEF Init

\* As long as no requests overlapped and no query failed, the directories form a tree
\* without orphans, with names of their own, only an upload to a directory that was gone
\* leaves a file outside of it, and each content on the disk is accounted for: a
\* directory is removed after all that is in it, whatever is in it
THEOREM SerialStorageSound == Spec => []StorageSound
<1>1. Init => IInv /\ AInv /\ PInv /\ DInv /\ SInv
  BY InitTypes, InitOne, InitDirs, InitSound, InitIdle DEF PInv, NameShared, SavedLast
<1>2. IInv /\ AInv /\ PInv /\ DInv /\ SInv /\ [Next]_vars => (IInv /\ AInv /\ PInv /\ DInv /\ SInv)'
  BY NextTypes, NextKeepsOne, NextSaved, NextKeepsDirs, NextKeepsSound
<1>3. SInv => StorageSound
  BY DEF SInv, Serial, StorageSound, Placed, FilesPlaced
<1>4. QED
  BY <1>1, <1>2, <1>3, PTL DEF Spec
=============================================================================
