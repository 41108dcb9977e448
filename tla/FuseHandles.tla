---------------------------- MODULE FuseHandles ----------------------------
(***************************************************************************)
(* Open files of the client's file system (FuseFilesys, the                *)
(* GatorShareRedirectFSHelper, FilesysContext and the event handler).      *)
(*                                                                         *)
(* A path has two files in the shadow directory: the file with its data,   *)
(* when it is created here, and a virtual file, an XML record that tells   *)
(* where the data is.  Applications open, read, write and close; FUSE      *)
(* makes a call for each on a thread of its own, and only the table of     *)
(* open files has a lock.  The numbers of descriptors that the system      *)
(* gives are the handles; it gives the lowest that is free.                *)
(***************************************************************************)
EXTENDS Integers, FiniteSets

CONSTANTS
    Apps,           \* applications, each with one file open at a time
    Paths,
    Online,         \* the paths that the server finds when it peeks
    MaxHandle,      \* the number of descriptors of the process
    MaxPosts,       \* bound: publications of a path that are counted
    None, Torn      \* no file, no entry; an XML file that is being written

Handles == 1 .. MaxHandle
Unset == 0          \* the handle of a call whose open(2) failed

ASSUME HandlesAssumption ==
    /\ Online \subseteq Paths
    /\ MaxHandle \in Nat /\ MaxPosts \in Nat \ {0}
    /\ None \notin Paths /\ None \notin [path : Paths, access : {"Read", "Write"}]

VARIABLES
    virtual,    \* virtual[p]: the virtual file: None, Torn or where the data is
    shadow,     \* the paths whose data is in the shadow directory
    link,       \* the paths that are staged in the server's Downloads, by a link
    posts,      \* posts[p]: how often the server was told to publish p
    fd,         \* fd[h]: the path a descriptor was opened for
    context,    \* context[h]: the entry of the table of open files
    app         \* app[a]: what the application and the call it waits for are at

vars == <<virtual, shadow, link, posts, fd, context, app>>

----------------------------------------------------------------------------
Access == {"Read", "Write"}

Pcs == {"idle", "peek", "describe",     \* OnGetPathStatus
        "lookup", "record", "enter",    \* OnOpenHandle, OnCreateHandle
        "using",
        "stage", "post",                \* OnReleaseHandle: HandleReleasedFile
        "remove", "measure", "update", "close"}

Idle == [pc |-> "idle", path |-> None, access |-> "Read", handle |-> Unset, virtual |-> None]

Entry(p, access) == [path |-> p, access |-> access]

At(a, pc) == app[a].pc = pc
PathOf(a) == app[a].path
HandleOf(a) == app[a].handle

Goto(a, pc) == app' = [app EXCEPT ![a] = [app[a] EXCEPT !.pc = pc]]

(* The call ends, with an error or without, and the application has no file. *)
Ends(a) == app' = [app EXCEPT ![a] = Idle]

FreeHandles == { h \in Handles : fd[h] = None }

Opened(pc, p, access, h) ==
    [pc |-> pc, path |-> p, access |-> access, handle |-> h, virtual |-> None]

(* open(2) for path p; when it fails the code goes on with the handle as it was. *)
Opens(a, p, access, pc) ==
    \E h \in FreeHandles :
        /\ \A g \in FreeHandles : h <= g
        /\ fd' = [fd EXCEPT ![h] = p]
        /\ app' = [app EXCEPT ![a] = Opened(pc, p, access, h)]

OpensNot(a, p, access, pc) ==
    /\ app' = [app EXCEPT ![a] = Opened(pc, p, access, Unset)]
    /\ UNCHANGED fd

----------------------------------------------------------------------------
Init ==
    /\ virtual = [p \in Paths |-> None]
    /\ shadow = {}
    /\ link = {}
    /\ posts = [p \in Paths |-> 0]
    /\ fd = [h \in Handles |-> None]
    /\ context = [h \in Handles |-> None]
    /\ app = [a \in Apps |-> Idle]

(* OnGetPathStatus: a path that has no virtual file is looked up at the server, which    *)
(* can take long; the answer is then written to a virtual file.                          *)
GetPathStatus(a, p) ==
    /\ At(a, "idle")
    /\ virtual[p] = None
    /\ app' = [app EXCEPT ![a] = [Idle EXCEPT !.pc = "peek", !.path = p]]
    /\ UNCHANGED <<virtual, shadow, link, posts, fd, context>>

Peek(a) ==
    /\ At(a, "peek")
    /\ \/ /\ PathOf(a) \in Online
          /\ virtual' = [virtual EXCEPT ![PathOf(a)] = Torn]
          /\ Goto(a, "describe")
       \/ /\ Ends(a)            \* 404, or an error that is swallowed
          /\ UNCHANGED virtual
    /\ UNCHANGED <<shadow, link, posts, fd, context>>

CreateVirtualFiles(a) ==
    /\ At(a, "describe")
    /\ virtual' = [virtual EXCEPT ![PathOf(a)] = "server"]
    /\ Ends(a)
    /\ UNCHANGED <<shadow, link, posts, fd, context>>

IsThere(p, access) == IF access = "Read" THEN virtual[p] # None ELSE p \in shadow

(* OnOpenHandle: a reader opens the virtual file, a writer the data.  The server's Get,  *)
(* which comes before, leaves nothing here, and its failures are swallowed.              *)
OpenHandle(a, p, access) ==
    /\ At(a, "idle")
    /\ \/ IsThere(p, access) /\ Opens(a, p, access, "lookup")
       \/ OpensNot(a, p, access, "lookup")
    /\ UNCHANGED <<virtual, shadow, link, posts, context>>

\* Defect: the handle is entered before open(2) has set it.
AddUnset(a) ==
    /\ At(a, "lookup")
    /\ IF virtual[PathOf(a)] \in {None, Torn} THEN Ends(a) ELSE Goto(a, "using")
    /\ UNCHANGED <<virtual, shadow, link, posts, fd, context>>

(* ReadVirtualFile throws when there is none or when it cannot be parsed; the descriptor *)
(* stays open.  Otherwise the file is entered, even if open(2) failed: under handle 0,   *)
(* which no application has, so that this entry is left out here.                        *)
AddOpenFile(a) ==
    /\ At(a, "lookup")
    /\ IF virtual[PathOf(a)] \in {None, Torn} \/ HandleOf(a) = Unset
       THEN Ends(a) /\ UNCHANGED context
       ELSE /\ context' = [context EXCEPT ![HandleOf(a)] = Entry(PathOf(a), app[a].access)]
            /\ Goto(a, "using")
    /\ UNCHANGED <<virtual, shadow, link, posts, fd>>

(* OnCreateHandle, for a path that the application did not find. *)
CreateHandle(a, p) ==
    /\ At(a, "idle")
    /\ \/ Opens(a, p, "Write", "record") /\ shadow' = shadow \cup {p}
       \/ OpensNot(a, p, "Write", "record") /\ UNCHANGED shadow
    /\ UNCHANGED <<virtual, link, posts, context>>

(* CreateAndWriteVirtualFile throws when another thread has the file open, or halfway;    *)
(* the descriptor stays open.                                                            *)
WriteVirtualFile(a) ==
    /\ At(a, "record")
    /\ \/ /\ virtual' = [virtual EXCEPT ![PathOf(a)] = Torn]
          /\ Goto(a, "enter") \/ Ends(a)
       \/ Ends(a) /\ UNCHANGED virtual
    /\ UNCHANGED <<shadow, link, posts, fd, context>>

AddCreatedFile(a) ==
    /\ At(a, "enter")
    /\ virtual' = [virtual EXCEPT ![PathOf(a)] = "shadow"]
    /\ IF HandleOf(a) = Unset
       THEN Ends(a) /\ UNCHANGED context
       ELSE /\ context' = [context EXCEPT ![HandleOf(a)] = Entry(PathOf(a), "Write")]
            /\ Goto(a, "using")
    /\ UNCHANGED <<shadow, link, posts, fd>>

(* OnRemoveFile unlinks the data; its virtual file and its link stay. *)
RemoveFile(p) ==
    /\ p \in shadow
    /\ shadow' = shadow \ {p}
    /\ UNCHANGED <<virtual, link, posts, fd, context, app>>

----------------------------------------------------------------------------
(* OnReleaseHandle.  The handler publishes a file that may have been written. *)
ReleaseHandle(a) ==
    LET entry == context[HandleOf(a)]
    IN  /\ At(a, "using")
        /\ Goto(a, IF entry # None /\ entry.access # "Read" THEN "stage" ELSE "remove")
        /\ UNCHANGED <<virtual, shadow, link, posts, fd, context>>

\* Defect: a link that is already there is taken as done.
CopyToServerAgain(a) ==
    /\ At(a, "stage")
    /\ link' = link \cup {PathOf(a)}
    /\ Goto(a, "post")
    /\ UNCHANGED <<virtual, shadow, posts, fd, context>>

(* CopyToServer throws when the server does not tell its cache or the link exists, and   *)
(* the rest of the release is left out.                                                  *)
CopyToServer(a) ==
    /\ At(a, "stage")
    /\ \/ /\ PathOf(a) \notin link
          /\ link' = link \cup {PathOf(a)}
          /\ Goto(a, "post")
       \/ Ends(a) /\ UNCHANGED link
    /\ UNCHANGED <<virtual, shadow, posts, fd, context>>

Post(a) ==
    /\ At(a, "post")
    /\ posts[PathOf(a)] < MaxPosts
    /\ posts' = [posts EXCEPT ![PathOf(a)] = posts[PathOf(a)] + 1]
    /\ Goto(a, "remove") \/ Ends(a)     \* the server refuses, or does not answer
    /\ UNCHANGED <<virtual, shadow, link, fd, context>>

\* Defect: the table is one of paths, and what another has open is removed, too.
RemoveOpenPath(a) ==
    /\ At(a, "remove")
    /\ context' = [h \in DOMAIN context |->
                    IF context[h] # None /\ context[h].path = PathOf(a) THEN None ELSE context[h]]
    /\ Goto(a, "measure")
    /\ UNCHANGED <<virtual, shadow, link, posts, fd>>

\* Defect: the descriptor is closed here, and once more in the end.
RemoveAndClose(a) ==
    /\ At(a, "remove")
    /\ context' = [context EXCEPT ![HandleOf(a)] = None]
    /\ fd' = [fd EXCEPT ![HandleOf(a)] = None]
    /\ Goto(a, "measure")
    /\ UNCHANGED <<virtual, shadow, link, posts>>

RemoveOpenFile(a) ==
    /\ At(a, "remove")
    /\ context' = [context EXCEPT ![HandleOf(a)] = None]
    /\ Goto(a, "measure")
    /\ UNCHANGED <<virtual, shadow, link, posts, fd>>

(* UpdateFileSizeInVirtualFile reads the virtual file and writes it again.  It throws    *)
(* when that or the data is not there, as the data of what was read from the server is   *)
(* not; the descriptor then stays open.                                                  *)
ReadFileSize(a) ==
    LET vf == virtual[PathOf(a)]
    IN  /\ At(a, "measure")
        /\ IF vf \notin {None, Torn} /\ PathOf(a) \in shadow
           THEN /\ virtual' = [virtual EXCEPT ![PathOf(a)] = Torn]
                /\ app' = [app EXCEPT ![a] = [app[a] EXCEPT !.pc = "update", !.virtual = vf]]
           ELSE Ends(a) /\ UNCHANGED virtual
        /\ UNCHANGED <<shadow, link, posts, fd, context>>

UpdateFileSize(a) ==
    /\ At(a, "update")
    /\ virtual' = [virtual EXCEPT ![PathOf(a)] = app[a].virtual]
    /\ Goto(a, "close")
    /\ UNCHANGED <<shadow, link, posts, fd, context>>

CloseHandle(a) ==
    /\ At(a, "close")
    /\ fd' = [fd EXCEPT ![HandleOf(a)] = None]
    /\ Ends(a)
    /\ UNCHANGED <<virtual, shadow, link, posts, context>>

(* The process ends and is started again. *)
Crash ==
    /\ fd' = [h \in Handles |-> None]
    /\ context' = [h \in Handles |-> None]
    /\ app' = [a \in Apps |-> Idle]
    /\ UNCHANGED <<virtual, shadow, link, posts>>

Next ==
    \/ \E a \in Apps :
        \/ \E p \in Paths : GetPathStatus(a, p) \/ CreateHandle(a, p)
        \/ \E p \in Paths, access \in Access : OpenHandle(a, p, access)
        \/ Peek(a) \/ CreateVirtualFiles(a)
        \/ AddOpenFile(a) \/ WriteVirtualFile(a) \/ AddCreatedFile(a)
        \/ ReleaseHandle(a) \/ CopyToServer(a) \/ Post(a)
        \/ RemoveOpenFile(a) \/ ReadFileSize(a) \/ UpdateFileSize(a) \/ CloseHandle(a)
    \/ \E p \in Paths : RemoveFile(p)
    \/ Crash

Spec == Init /\ [][Next]_vars

----------------------------------------------------------------------------
Entries == [path : Paths, access : Access]

AppStates == [pc : Pcs, path : Paths \cup {None}, access : Access, handle : Handles \cup {Unset},
              virtual : {None, "server", "shadow"}]

(* Files, tables and calls keep their types; a call past its open(2) has a descriptor,   *)
(* unless it is about to record a file that it could not open.                           *)
TypeOK ==
    /\ virtual \in [Paths -> {None, Torn, "server", "shadow"}]
    /\ shadow \subseteq Paths /\ link \subseteq Paths
    /\ posts \in [Paths -> 0 .. MaxPosts]
    /\ fd \in [Handles -> Paths \cup {None}]
    /\ context \in [Handles -> Entries \cup {None}]
    /\ app \in [Apps -> AppStates]
    /\ \A a \in Apps :
        /\ ~At(a, "idle") => PathOf(a) \in Paths
        /\ app[a].pc \notin {"idle", "peek", "describe", "lookup", "record", "enter"} => HandleOf(a) # Unset

(* An entry of the table is of a descriptor that is open, for the file it was opened     *)
(* for: the entry goes before the number can be given to another file, also when a call  *)
(* throws halfway.                                                                       *)
ContextIsOpen ==
    \A h \in Handles : context[h] # None => fd[h] = context[h].path

(* As long as an application has a file open, its handle leads to that file and to the   *)
(* access it was opened with, whoever else opens or releases that path: a read does not  *)
(* throw InvalidOperationException, and a release knows of what was written that it has   *)
(* to be published.                                                                      *)
UsingIsEntered ==
    \A a \in Apps : app[a].pc \in {"using", "stage", "post", "remove"} =>
        LET entry == context[HandleOf(a)]
        IN  entry # None /\ entry.path = PathOf(a) /\ entry.access = app[a].access

(* Nothing is published twice, however many writers of a path there are and whatever of  *)
(* a release fails: a second Post would overwrite what is published.                     *)
PublishedOnce == \A p \in Paths : posts[p] <= 1

(* To the applications it is a table of open files. *)
HandlesInUse == { HandleOf(a) : a \in { b \in Apps : At(b, "using") } }

OpenFiles == INSTANCE OpenFileTable WITH
    Files <- Entries, table <- [h \in HandlesInUse |-> context[h]]

(* A file is opened under a handle that no other open file has, its handle denotes it    *)
(* until it is released, and then the handle is free; a crash releases all.              *)
ImplementsOpenFiles == OpenFiles!Spec
=============================================================================
