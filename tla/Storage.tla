--------------------------------- MODULE Storage ---------------------------------
(***************************************************************************)
(* StorageService: the directory and file rows, and the contents on the    *)
(* disk they name.  The rows refer to each other by plain columns, nothing *)
(* is done in a transaction, and neither names nor parents are constraints *)
(* of the database.  Directories and files are shared by every user: the   *)
(* calls take any id.  AuthService creates directories too: see Accounts.  *)
(*                                                                         *)
(* An action is one await of a call; the calls of node:fs beside it return *)
(* at once.  A save of a loaded row writes all of it, and inserts it again *)
(* when it is gone.                                                        *)
(***************************************************************************)
EXTENDS Integers, Sequences, FiniteSets, SequencesExt

CONSTANTS
    Requests,       \* requests to the server
    Names           \* the users, by name

VARIABLES
    dirs,           \* the storage_dir rows ever inserted, by id
    files,          \* the storage rows ever inserted, by id
    disk,           \* the paths there is a content under
    run             \* the requests

Kinds == {"home", "share"}
Labels == Kinds \cup {"notes"}
Root == 0           \* the parent of a directory without one
Dir == [user: Names, label: Labels, parent: Nat]
NoDir == [user |-> "nobody", label |-> "", parent |-> Root]
\* An upload writes a path of its own, and may copy it to another
Path == [by: Requests, copied: BOOLEAN]
File == [dir: Nat, label: Labels, version: Nat \ {0}, path: Path]
NoFile == [dir |-> Root, label |-> "", version |-> 0,
           path |-> [by |-> "nobody", copied |-> FALSE]]

StorageOps == {"createDir", "upload", "rename", "removeFile", "removeDir", "share"}
Item == [kind: {"dir", "files", "drop", "file", "row"}, id: Nat]
StoragePCs == {"parent", "testDir", "testFile", "save", "work"}
\* dir: the parent, the directory in question; todo: what is left to remove
StorageCall == [op: StorageOps, name: Names, dir: Nat, label: Labels,
                pc: StoragePCs, id: Nat, row: Dir \cup File \cup {NoDir}, todo: Seq(Item)]
\* What a call that was answered is remembered by: an upload's answer names the path;
\* stray is history, the directory it named was not there when the row was inserted
StorageAnswer == [op: StorageOps, name: Names, pc: {"done", "rejected"}]
                 \cup [op: {"upload"}, name: Names, pc: {"done"}, path: Path, stray: BOOLEAN]

DirRows == {d \in DOMAIN dirs : dirs[d] # NoDir}
FileRows == {f \in DOMAIN files : files[f] # NoFile}
SubDirs(d) == {c \in DirRows : dirs[c].parent = d}
FilesIn(d) == {f \in FileRows : files[f].dir = d}
RootDirs(n, kind) == {d \in SubDirs(Root) : dirs[d].user = n /\ dirs[d].label = kind}

Ended == {"idle", "done", "rejected"}
Live(r) == run[r].pc \notin Ended
At(r, point) == run[r].pc = point
Goto(r, point) == run' = [run EXCEPT ![r].pc = point]
Calls(r, op, point) == run[r].op = op /\ At(r, point)

\* A call is answered: its local variables are gone
Answer(r, point) == run' = [run EXCEPT ![r] = [op |-> @.op, name |-> @.name, pc |-> point]]

StorageInit == files = <<>> /\ disk = {}

-----------------------------------------------------------------------------
(* createDir *)

\* A new call of user n on the directory d; the paths of its upload are its own
Begin(r, op, n, d, l, point) ==
    run' = [run EXCEPT ![r] = [op |-> op, name |-> n, dir |-> d, label |-> l, pc |-> point,
                               id |-> 0, row |-> NoDir, todo |-> <<>>]]

CreateDir(r, n) ==
    /\ \E d \in DirRows \cup {Root}, l \in Labels :
           Begin(r, "createDir", n, d, l, IF d = Root THEN "testDir" ELSE "parent")
    /\ UNCHANGED <<dirs, files, disk>>

TestParent(r) ==
    /\ Calls(r, "createDir", "parent")
    /\ IF run[r].dir \in DirRows THEN Goto(r, "testDir") ELSE Answer(r, "rejected")
    /\ UNCHANGED <<dirs, files, disk>>

\* Another directory of the user, then a file, of that name?
TestDirName(r) ==
    LET q == run[r] IN
    /\ Calls(r, "createDir", "testDir")
    /\ IF \E d \in SubDirs(q.dir) : dirs[d].user = q.name /\ dirs[d].label = q.label
       THEN Answer(r, "rejected") ELSE Goto(r, "testFile")
    /\ UNCHANGED <<dirs, files, disk>>

TestFileName(r) ==
    LET q == run[r] IN
    /\ At(r, "testFile") /\ q.op \in {"createDir", "rename"}
    /\ IF \E f \in FilesIn(IF q.op = "rename" THEN q.row.parent ELSE q.dir) : files[f].label = q.label
       THEN Answer(r, "rejected") ELSE Goto(r, "save")
    /\ UNCHANGED <<dirs, files, disk>>

InsertDir(n, l, parent) == dirs' = Append(dirs, [user |-> n, label |-> l, parent |-> parent])

SaveNewDir(r) ==
    /\ Calls(r, "createDir", "save")
    /\ InsertDir(run[r].name, run[r].label, run[r].dir)
    /\ Answer(r, "done")
    /\ UNCHANGED <<files, disk>>

-----------------------------------------------------------------------------
(* uploadFile, saveFile *)

\* The content is written first.  Neither the route nor saveFile looks the directory
\* up: the id in the body may be one of a directory that was removed (an id nobody
\* ever had is like it).  Without a directory the one named publicfiles is looked
\* up, which is no id: the upload is rejected and its content stays
Upload(r, n) ==
    /\ disk' = disk \cup {[by |-> r, copied |-> FALSE]}
    /\ \/ \E d \in DOMAIN dirs : Begin(r, "upload", n, d, "notes", "testFile")
       \/ run' = [run EXCEPT ![r] = [op |-> "upload", name |-> n, pc |-> "rejected"]]
    /\ UNCHANGED <<dirs, files>>

Version(r, version, copied) ==
    run' = [run EXCEPT ![r].pc = "save",
               ![r].row = [dir |-> run[r].dir, label |-> run[r].label, version |-> version,
                           path |-> [by |-> r, copied |-> copied]]]

\* Plausible bug: the new version takes the content of the one found
FindVersion_SharesContent(r) ==
    LET q == run[r]
        found == {f \in FilesIn(q.dir) : files[f].label = q.label} IN
    /\ Calls(r, "upload", "testFile")
    /\ IF found = {} THEN Goto(r, "testDir")
       ELSE \E f \in found : run' = [run EXCEPT ![r].pc = "save",
                ![r].row = [files[f] EXCEPT !.version = @ + 1]]
    /\ UNCHANGED <<dirs, files, disk>>

\* A file of that name, any of its versions, makes the upload the next version,
\* under a copy of its content
FindVersion(r) ==
    LET q == run[r]
        found == {f \in FilesIn(q.dir) : files[f].label = q.label} IN
    /\ Calls(r, "upload", "testFile")
    /\ \/ found = {} /\ Goto(r, "testDir") /\ UNCHANGED disk
       \/ \E f \in found :
            /\ disk' = disk \cup {[by |-> r, copied |-> TRUE]}
            /\ Version(r, files[f].version + 1, TRUE)
    /\ UNCHANGED <<dirs, files>>

\* ... else a directory of that name forbids it
TestNoDir(r) ==
    LET q == run[r] IN
    /\ Calls(r, "upload", "testDir")
    /\ IF \E d \in SubDirs(q.dir) : dirs[d].label = q.label
       THEN Answer(r, "rejected") ELSE Version(r, 1, FALSE)
    /\ UNCHANGED <<dirs, files, disk>>

\* The answer names the path
SaveFile(r) ==
    /\ Calls(r, "upload", "save")
    /\ files' = Append(files, run[r].row)
    /\ run' = [run EXCEPT ![r] = [op |-> "upload", name |-> @.name, pc |-> "done", path |-> @.row.path,
                                  stray |-> @.dir \notin DirRows]]
    /\ UNCHANGED <<dirs, disk>>

-----------------------------------------------------------------------------
(* renameDir, share: a row is loaded, changed and saved *)

LoadDir(r, op, n) ==
    /\ op \in {"rename", "share"}
    /\ \E d \in DirRows, l \in IF op = "rename" THEN Labels ELSE {"notes"} :
           run' = [run EXCEPT ![r] = [op |-> op, name |-> n, dir |-> d, label |-> l, id |-> 0,
                       pc |-> IF op = "rename" THEN "testDir" ELSE "save",
                       row |-> dirs[d], todo |-> <<>>]]
    /\ UNCHANGED <<dirs, files, disk>>

\* A sibling, of any user and itself too, of that name forbids it
TestSiblings(r) ==
    /\ Calls(r, "rename", "testDir")
    /\ IF \E d \in SubDirs(run[r].row.parent) : dirs[d].label = run[r].label
       THEN Answer(r, "rejected") ELSE Goto(r, "testFile")
    /\ UNCHANGED <<dirs, files, disk>>

SaveDirRow(r) ==
    LET q == run[r] IN
    /\ At(r, "save") /\ q.op \in {"rename", "share"} /\ q.id = 0
    /\ dirs' = [dirs EXCEPT ![q.dir] = IF q.op = "rename" THEN [q.row EXCEPT !.label = q.label]
                                                          ELSE q.row]
    /\ Answer(r, "done")
    /\ UNCHANGED <<files, disk>>

LoadFile(r, n) ==
    /\ \E f \in FileRows :
           run' = [run EXCEPT ![r] = [op |-> "share", name |-> n, dir |-> Root, label |-> "notes",
                       id |-> f, pc |-> "save", row |-> files[f], todo |-> <<>>]]
    /\ UNCHANGED <<dirs, files, disk>>

SaveFileRow(r) ==
    /\ Calls(r, "share", "save") /\ run[r].id # 0
    /\ files' = [files EXCEPT ![run[r].id] = run[r].row]
    /\ Answer(r, "done")
    /\ UNCHANGED <<dirs, disk>>

-----------------------------------------------------------------------------
(* removeFile, removeDir *)

Work(kind, ids) == SetToSeq({[kind |-> kind, id |-> i] : i \in ids})
\* Item after item; the last one answers the call
Replace(r, items) ==
    LET left == items \o Tail(run[r].todo) IN
    IF left = <<>> THEN Answer(r, "done") ELSE run' = [run EXCEPT ![r].todo = left]

\* removeFile looks the row up first, removeDir does not: it also clears what is
\* left under a directory that is gone
StartRemoval(r, op, n) ==
    /\ op \in {"removeFile", "removeDir"}
    /\ \E i \in IF op = "removeFile" THEN FileRows ELSE DOMAIN dirs :
           run' = [run EXCEPT ![r] = [op |-> op, name |-> n, dir |-> Root, label |-> "notes",
                       id |-> 0, pc |-> "work", row |-> NoDir,
                       todo |-> Work(IF op = "removeFile" THEN "file" ELSE "dir", {i})]]
    /\ UNCHANGED <<dirs, files, disk>>

Working(r, kind) == At(r, "work") /\ Head(run[r].todo).kind = kind
Current(r) == Head(run[r].todo).id

\* Plausible bug: the directories inside are forgotten
RemoveSubDirs_Shallow(r) ==
    /\ Working(r, "dir")
    /\ Replace(r, Work("files", {Current(r)}))
    /\ UNCHANGED <<dirs, files, disk>>

\* The directories inside are found and removed, one by one, then the files
RemoveSubDirs(r) ==
    /\ Working(r, "dir")
    /\ Replace(r, Work("dir", SubDirs(Current(r))) \o Work("files", {Current(r)}))
    /\ UNCHANGED <<dirs, files, disk>>

RemoveFilesIn(r) ==
    /\ Working(r, "files")
    /\ Replace(r, Work("file", FilesIn(Current(r))) \o Work("drop", {Current(r)}))
    /\ UNCHANGED <<dirs, files, disk>>

\* The row is loaded and the content deleted, whose absence is only logged
DeleteContent(r) ==
    LET f == Current(r) IN
    /\ Working(r, "file")
    /\ IF f \in FileRows
       THEN disk' = disk \ {files[f].path} /\ Replace(r, Work("row", {f}))
       ELSE Replace(r, <<>>) /\ UNCHANGED disk
    /\ UNCHANGED <<dirs, files>>

DeleteFile(r) ==
    /\ Working(r, "row")
    /\ files' = [files EXCEPT ![Current(r)] = NoFile]
    /\ Replace(r, <<>>)
    /\ UNCHANGED <<dirs, disk>>

DeleteDir(r) ==
    /\ Working(r, "drop")
    /\ dirs' = [dirs EXCEPT ![Current(r)] = NoDir]
    /\ Replace(r, <<>>)
    /\ UNCHANGED <<files, disk>>

\* The controller's routes, for user n
StorageBegin(r, n) ==
    \/ CreateDir(r, n) \/ Upload(r, n) \/ LoadFile(r, n)
    \/ \E op \in StorageOps : LoadDir(r, op, n) \/ StartRemoval(r, op, n)
StorageStep(r) ==
    \/ TestParent(r) \/ TestDirName(r) \/ TestFileName(r) \/ SaveNewDir(r)
    \/ FindVersion(r) \/ TestNoDir(r) \/ SaveFile(r)
    \/ TestSiblings(r) \/ SaveDirRow(r) \/ SaveFileRow(r)
    \/ RemoveSubDirs(r) \/ RemoveFilesIn(r) \/ DeleteContent(r) \/ DeleteFile(r) \/ DeleteDir(r)

-----------------------------------------------------------------------------
StorageTypeOK ==
    /\ dirs \in Seq(Dir \cup {NoDir}) /\ files \in Seq(File \cup {NoFile})
    /\ disk \subseteq Path

\* Every directory has its parent, and no two entries of a directory that one user
\* sees have one name, but for the versions of a file
TreeSound ==
    /\ \A d \in DirRows : dirs[d].parent \in DirRows \cup {Root}
    /\ \A d, e \in DirRows : d # e => dirs[d] # dirs[e]
    /\ \A d \in DirRows, f \in FileRows :
           ~(dirs[d].parent = files[f].dir /\ dirs[d].label = files[f].label)

\* A file is in a directory, unless there was none when it was uploaded to it
Stray(f) == LET r == files[f].path.by IN At(r, "done") /\ run[r].stray
FilesPlaced == \A f \in FileRows : files[f].dir \in DirRows \/ Stray(f)

\* A content, when its upload has ended, has a row, unless the upload was refused
\* or stored as a copy
ContentsAccounted ==
    \A p \in disk : ~Live(p.by) =>
        \/ \E f \in FileRows : files[f].path = p
        \/ At(p.by, "rejected")
        \/ At(p.by, "done") /\ run[p.by].path # p

\* A row has its content, until the content was deleted to delete the row next,
\* and no other row has it
ContentKept(f) ==
    /\ files[f].path \in disk \/ \E r \in Requests : Working(r, "row") /\ Current(r) = f
    /\ \A g \in FileRows \ {f} : files[g].path # files[f].path
=============================================================================
