------------------------ MODULE FuseHandles_proofs ------------------------
(***************************************************************************)
(* Handles lead to the files they were opened for, nothing is published    *)
(* twice, and to the applications this is a table of open files: for any   *)
(* number of applications, paths and descriptors.                          *)
(***************************************************************************)
EXTENDS FuseHandles, TLAPS

USE HandlesAssumption DEF Handles, Unset

----------------------------------------------------------------------------
(* The invariant *)

Entered == {"using", "stage", "post", "remove"}
Leaving == {"measure", "update", "close"}

\* The call at R has a descriptor.
Holds(R) == R.pc \notin {"idle", "peek", "describe"} /\ R.handle # Unset

\* What a call R has to do with the descriptors, the table, the links and the posts:
\* the descriptor that it has is open for its path, and is in the table from the time
\* that it is entered to the time that it is removed.
Fits(R, fds, table, links, counts) ==
  /\ R.pc # "idle" => R.path \in Paths
  /\ R.pc \in Entered \cup Leaving => R.handle # Unset
  /\ R.pc \in {"record", "enter"} => R.access = "Write"
  /\ Holds(R) =>
       /\ fds[R.handle] = R.path
       /\ table[R.handle] = IF R.pc \in Entered THEN Entry(R.path, R.access) ELSE None
  /\ R.pc = "post" => R.path \in links /\ counts[R.path] = 0

\* No two calls have one descriptor, and no two are about to post one path.
Apart(R, Q) ==
  /\ Holds(R) /\ Holds(Q) => R.handle # Q.handle
  /\ R.pc = "post" /\ Q.pc = "post" => R.path # Q.path

PostedOnce == \A p \in Paths : posts[p] <= 1 /\ (p \notin link => posts[p] = 0)

Inv ==
  /\ TypeOK
  /\ \A a \in Apps : Fits(app[a], fd, context, link, posts)
  /\ \A a, b \in Apps : a # b => Apart(app[a], app[b])
  /\ ContextIsOpen
  /\ PostedOnce

\* A step that brings a call to R leaves alone what the call of b has.
Left(b, R) ==
  /\ Apart(R, app[b]) /\ Apart(app[b], R)
  /\ Holds(app[b]) => /\ fd'[app[b].handle] = fd[app[b].handle]
                      /\ context'[app[b].handle] = context[app[b].handle]
  /\ app[b].pc = "post" => posts'[app[b].path] = 0

LEMMA InitInv == Init => Inv
<1> SUFFICES ASSUME Init PROVE Inv
  OBVIOUS
<1>1. Idle \in AppStates
  BY DEF Idle, AppStates, Pcs, Access
<1>2. TypeOK
  BY <1>1 DEF Init, TypeOK, At, PathOf, HandleOf, Idle
<1>3. QED
  BY <1>2 DEF Init, Inv, Idle, Fits, Holds, Apart, Entered, Leaving, ContextIsOpen, PostedOnce

LEMMA TypeFromFits ==
  ASSUME app \in [Apps -> AppStates], \A a \in Apps : Fits(app[a], fd, context, link, posts),
         NEW a \in Apps
  PROVE  /\ ~At(a, "idle") => PathOf(a) \in Paths
         /\ app[a].pc \notin {"idle", "peek", "describe", "lookup", "record", "enter"}
              => HandleOf(a) # Unset
<1>1. app[a].pc \in Pcs
  BY DEF AppStates
<1>2. QED
  BY <1>1 DEF Fits, Entered, Leaving, At, PathOf, HandleOf, Pcs

\* A step of one call keeps the invariant, when its new state fits what it leaves and
\* what the others have is left alone.
LEMMA CallKeepsInv ==
  ASSUME Inv, NEW a \in Apps, NEW R \in AppStates, app' = [app EXCEPT ![a] = R],
         virtual' \in [Paths -> {None, Torn, "server", "shadow"}],
         shadow' \subseteq Paths, link' \subseteq Paths, link \subseteq link',
         posts' \in [Paths -> 0 .. MaxPosts],
         fd' \in [Handles -> Paths \cup {None}], context' \in [Handles -> Entries \cup {None}],
         Fits(R, fd', context', link', posts'),
         \A b \in Apps \ {a} : Left(b, R),
         ContextIsOpen', PostedOnce'
  PROVE  Inv'
<1>1. /\ app' \in [Apps -> AppStates] /\ app'[a] = R
      /\ \A b \in Apps \ {a} : app'[b] = app[b]
  BY DEF Inv, TypeOK
<1>2. ASSUME NEW b \in Apps PROVE Fits(app'[b], fd', context', link', posts')
  <2>1. CASE b = a
    BY <2>1, <1>1
  <2>2. CASE b # a
    BY <2>2, <1>1 DEF Inv, Fits, Left
  <2>3. QED
    BY <2>1, <2>2
<1>3. \A b, c \in Apps : b # c => Apart(app'[b], app'[c])
  BY <1>1 DEF Inv, Left
<1>4. TypeOK'
  <2>1. \A b \in Apps : app'[b].pc \in Pcs
    BY <1>1 DEF AppStates
  <2>2. ASSUME NEW b \in Apps
        PROVE /\ app'[b].pc # "idle" => app'[b].path \in Paths
              /\ app'[b].pc \notin {"idle", "peek", "describe", "lookup", "record", "enter"}
                   => app'[b].handle # Unset
    BY <1>2, <2>1 DEF Fits, Entered, Leaving, Pcs
  <2>3. QED
    BY <1>1, <2>2 DEF TypeOK, At, PathOf, HandleOf
<1>5. QED
  BY <1>2, <1>3, <1>4 DEF Inv

\* The same for a step that only moves on, with the descriptor it had or without it.
LEMMA CallMovesOn ==
  ASSUME Inv, NEW a \in Apps, NEW R \in AppStates, app' = [app EXCEPT ![a] = R],
         virtual' \in [Paths -> {None, Torn, "server", "shadow"}],
         UNCHANGED <<link, posts, fd, context>>, shadow' \subseteq Paths,
         R.pc # "idle" => R.path \in Paths, R.pc # "post",
         R.pc \in Entered \cup Leaving => R.handle # Unset,
         R.pc \in {"record", "enter"} => R.access = "Write",
         Holds(R) => /\ Holds(app[a]) /\ R.handle = app[a].handle
                     /\ R.path = app[a].path /\ R.access = app[a].access
                     /\ R.pc \in Entered <=> app[a].pc \in Entered
  PROVE  Inv'
<1>1. Fits(R, fd, context, link, posts)
  <2>1. Fits(app[a], fd, context, link, posts)
    BY DEF Inv
  <2>2. QED
    BY <2>1 DEF Fits
<1>2. \A b \in Apps \ {a} : Apart(R, app[b]) /\ Apart(app[b], R)
  BY DEF Inv, Apart
<1>3. \A b \in Apps \ {a} : Left(b, R)
  BY <1>2 DEF Inv, Fits, Left
<1>4. ContextIsOpen' /\ PostedOnce'
  BY DEF Inv, ContextIsOpen, PostedOnce
<1>5. /\ link' \subseteq Paths /\ posts' \in [Paths -> 0 .. MaxPosts]
      /\ fd' \in [Handles -> Paths \cup {None}] /\ context' \in [Handles -> Entries \cup {None}]
      /\ link' = link /\ posts' = posts /\ fd' = fd /\ context' = context
  BY DEF Inv, TypeOK
<1>6. QED
  BY <1>1, <1>2, <1>3, <1>4, <1>5, CallKeepsInv

----------------------------------------------------------------------------
(* The steps *)

\* What is known of the call at a step of it.
LEMMA AtCall ==
  ASSUME Inv, NEW a \in Apps
  PROVE  /\ app[a] \in AppStates
         /\ app[a].pc \in Pcs /\ app[a].access \in Access /\ app[a].handle \in Handles \cup {Unset}
         /\ app[a].path \in Paths \cup {None}
         /\ Fits(app[a], fd, context, link, posts)
         /\ app[a].pc # "idle" => app[a].path \in Paths
         /\ Idle \in AppStates
         /\ \A p \in Pcs : /\ [app[a] EXCEPT !.pc = p] \in AppStates
                          /\ [app[a] EXCEPT !.pc = p].pc = p
                          /\ [app[a] EXCEPT !.pc = p].path = app[a].path
                          /\ [app[a] EXCEPT !.pc = p].access = app[a].access
                          /\ [app[a] EXCEPT !.pc = p].handle = app[a].handle
<1>1. app[a] \in AppStates /\ Fits(app[a], fd, context, link, posts)
  BY DEF Inv, TypeOK
<1>2. Idle \in AppStates
  BY DEF Idle, AppStates, Pcs, Access
<1>3. QED
  BY <1>1, <1>2 DEF AppStates, Fits

LEMMA EndsKeepsInv ==
  ASSUME Inv, NEW a \in Apps, Ends(a),
         virtual' \in [Paths -> {None, Torn, "server", "shadow"}],
         UNCHANGED <<link, posts, fd, context>>, shadow' \subseteq Paths
  PROVE  Inv'
<1> DEFINE R == Idle
<1>1. app' = [app EXCEPT ![a] = R] /\ R \in AppStates
  BY AtCall DEF Ends
<1>2. R.pc = "idle"
  BY DEF Idle
<1> HIDE DEF R
<1>3. QED
  BY <1>1, <1>2, CallMovesOn DEF Holds, Entered, Leaving

LEMMA GoesKeepsInv ==
  ASSUME Inv, NEW a \in Apps, NEW p \in Pcs \ {"post"}, Goto(a, p),
         app[a].pc # "idle",
         p \in Entered <=> app[a].pc \in Entered,
         p \in Entered \cup Leaving => app[a].handle # Unset,
         app[a].pc \in {"peek", "describe"} => p \in {"peek", "describe"},
         p # "record", p = "enter" => app[a].pc = "record",
         virtual' \in [Paths -> {None, Torn, "server", "shadow"}],
         UNCHANGED <<link, posts, fd, context, shadow>>
  PROVE  Inv'
<1> DEFINE R == [app[a] EXCEPT !.pc = p]
<1>1. app' = [app EXCEPT ![a] = R]
  BY DEF Goto
<1>2. /\ R \in AppStates /\ R.pc = p /\ R.path = app[a].path
      /\ R.access = app[a].access /\ R.handle = app[a].handle /\ R.path \in Paths
  BY AtCall
<1> HIDE DEF R
<1>3. R.pc \in {"record", "enter"} => R.access = "Write"
  BY <1>2, AtCall DEF Fits
<1>4. QED
  BY <1>1, <1>2, <1>3, CallMovesOn DEF Holds, Inv, TypeOK

LEMMA PathStatusKeepsInv ==
  ASSUME Inv, NEW a \in Apps,
         (\E p \in Paths : GetPathStatus(a, p)) \/ Peek(a) \/ CreateVirtualFiles(a)
  PROVE  Inv'
<1>1. ASSUME NEW p \in Paths, GetPathStatus(a, p) PROVE Inv'
  <2> DEFINE R == [Idle EXCEPT !.pc = "peek", !.path = p]
  <2>1. app' = [app EXCEPT ![a] = R]
    BY <1>1 DEF GetPathStatus
  <2>2. R \in AppStates /\ R.pc = "peek" /\ R.path = p
    BY DEF Idle, AppStates, Pcs, Access
  <2> HIDE DEF R
  <2>3. QED
    BY <1>1, <2>1, <2>2, CallMovesOn DEF GetPathStatus, Holds, Entered, Leaving, Inv, TypeOK
<1>2. CASE Peek(a)
  <2>1. virtual' \in [Paths -> {None, Torn, "server", "shadow"}]
    BY <1>2 DEF Peek, Inv, TypeOK
  <2>2. CASE Ends(a)
    BY <1>2, <2>1, <2>2, EndsKeepsInv DEF Peek, Inv, TypeOK
  <2>3. CASE Goto(a, "describe")
    BY <1>2, <2>1, <2>3, GoesKeepsInv DEF Peek, At, Pcs, Entered, Leaving
  <2>4. QED
    BY <1>2, <2>2, <2>3 DEF Peek
<1>3. CASE CreateVirtualFiles(a)
  <2>1. virtual' \in [Paths -> {None, Torn, "server", "shadow"}]
    BY <1>3 DEF CreateVirtualFiles, Inv, TypeOK
  <2>2. QED
    BY <1>3, <2>1, EndsKeepsInv DEF CreateVirtualFiles, Inv, TypeOK
<1>4. QED
  BY <1>1, <1>2, <1>3

\* open(2) gives a descriptor that no call has and that is not in the table.
LEMMA OpensKeepsInv ==
  ASSUME Inv, NEW a \in Apps, NEW p \in Paths, NEW access \in Access,
         NEW pc \in {"lookup", "record"},
         Opens(a, p, access, pc) \/ OpensNot(a, p, access, pc),
         pc = "record" => access = "Write",
         At(a, "idle"), UNCHANGED <<virtual, link, posts, context>>, shadow' \subseteq Paths
  PROVE  Inv'
<1>1. CASE OpensNot(a, p, access, pc)
  <2> DEFINE R == Opened(pc, p, access, Unset)
  <2>1. app' = [app EXCEPT ![a] = R] /\ fd' = fd
    BY <1>1 DEF OpensNot
  <2>2. R \in AppStates /\ R.pc = pc /\ R.path = p /\ R.access = access /\ R.handle = Unset
    BY DEF Opened, AppStates, Pcs
  <2> HIDE DEF R
  <2>3. QED
    BY <2>1, <2>2, CallMovesOn DEF Holds, Entered, Leaving, Inv, TypeOK
<1>2. CASE Opens(a, p, access, pc)
  <2>1. PICK h \in FreeHandles : /\ fd' = [fd EXCEPT ![h] = p]
                                 /\ app' = [app EXCEPT ![a] = Opened(pc, p, access, h)]
    BY <1>2 DEF Opens
  <2> DEFINE R == Opened(pc, p, access, h)
  <2>2. h \in Handles /\ fd[h] = None
    BY DEF FreeHandles
  <2>3. R \in AppStates /\ R.pc = pc /\ R.path = p /\ R.access = access /\ R.handle = h
    BY <2>2 DEF Opened, AppStates, Pcs
  <2>4. context[h] = None
    BY <2>2 DEF Inv, TypeOK, ContextIsOpen, Entries
  <2>5. app' = [app EXCEPT ![a] = R]
    BY <2>1
  <2> HIDE DEF R
  <2>6. fd' \in [Handles -> Paths \cup {None}] /\ fd'[h] = p /\ \A g \in Handles \ {h} : fd'[g] = fd[g]
    BY <2>1, <2>2 DEF Inv, TypeOK
  <2>7. Fits(R, fd', context, link, posts)
    BY <2>2, <2>3, <2>4, <2>6 DEF Fits, Holds, Entered, Leaving
  <2>8. ASSUME NEW b \in Apps \ {a} PROVE Left(b, R)
    <3>1. Holds(app[b]) => app[b].handle # h
      BY <2>2, AtCall DEF Fits, Holds
    <3>2. Holds(app[b]) => app[b].handle \in Handles
      BY AtCall DEF Holds
    <3>3. QED
      BY <2>3, <2>6, <3>1, <3>2, AtCall DEF Apart, Fits, Left
  <2>9. ContextIsOpen'
    BY <2>4, <2>6 DEF Inv, ContextIsOpen
  <2>10. /\ link' \subseteq Paths /\ posts' \in [Paths -> 0 .. MaxPosts]
         /\ context' \in [Handles -> Entries \cup {None}] /\ PostedOnce'
         /\ virtual' \in [Paths -> {None, Torn, "server", "shadow"}]
         /\ link' = link /\ posts' = posts /\ context' = context
    BY DEF Inv, TypeOK, PostedOnce
  <2>11. QED
    BY <2>3, <2>5, <2>6, <2>7, <2>8, <2>9, <2>10, CallKeepsInv
<1>3. QED
  BY <1>1, <1>2

LEMMA LookupKeepsInv ==
  ASSUME Inv, NEW a \in Apps,
         (\E p \in Paths : CreateHandle(a, p)) \/ (\E p \in Paths, access \in Access : OpenHandle(a, p, access))
  PROVE  Inv'
<1>1. ASSUME NEW p \in Paths, CreateHandle(a, p) PROVE Inv'
  <2>1. shadow' \subseteq Paths
    BY <1>1 DEF CreateHandle, Inv, TypeOK
  <2>2. QED
    BY <1>1, <2>1, OpensKeepsInv DEF CreateHandle, Access
<1>2. ASSUME NEW p \in Paths, NEW access \in Access, OpenHandle(a, p, access) PROVE Inv'
  BY <1>2, OpensKeepsInv DEF OpenHandle, Inv, TypeOK
<1>3. QED
  BY <1>1, <1>2

\* A handle is entered for the call that has it, and no other call has it.
LEMMA EntersKeepsInv ==
  ASSUME Inv, NEW a \in Apps, app[a].pc \in {"lookup", "enter"}, HandleOf(a) # Unset,
         context' = [context EXCEPT ![HandleOf(a)] = Entry(PathOf(a), app[a].access)],
         Goto(a, "using"), UNCHANGED <<shadow, link, posts, fd>>,
         virtual' \in [Paths -> {None, Torn, "server", "shadow"}]
  PROVE  Inv'
<1> DEFINE R == [app[a] EXCEPT !.pc = "using"]
<1> DEFINE h == app[a].handle
<1>1. app' = [app EXCEPT ![a] = R]
  BY DEF Goto
<1>2. /\ R \in AppStates /\ R.pc = "using" /\ R.path = app[a].path /\ R.access = app[a].access
      /\ R.handle = h /\ R.path \in Paths /\ R.access \in Access /\ h \in Handles
  <2>1. "using" \in Pcs /\ h # Unset
    BY DEF Pcs, HandleOf
  <2>2. app[a].path \in Paths /\ app[a].access \in Access /\ h \in Handles
    BY <2>1, AtCall
  <2>3. QED
    BY <2>1, <2>2, AtCall
<1> HIDE DEF R
<1>3. fd[h] = R.path
  BY <1>2, AtCall DEF Fits, Holds, HandleOf
<1>4. Entry(R.path, R.access) \in Entries /\ Entry(R.path, R.access).path = R.path
  BY <1>2 DEF Entry, Entries
<1>5. /\ context' \in [Handles -> Entries \cup {None}] /\ context'[h] = Entry(R.path, R.access)
      /\ \A g \in Handles \ {h} : context'[g] = context[g]
  BY <1>2, <1>4 DEF Inv, TypeOK, HandleOf, PathOf
<1>6. Fits(R, fd, context', link, posts)
  BY <1>2, <1>3, <1>5 DEF Fits, Holds, Entered, HandleOf
<1>7. ASSUME NEW b \in Apps \ {a} PROVE Left(b, R)
  <2>1. Holds(app[b]) => app[b].handle # h
    BY DEF Inv, Apart, Holds, HandleOf
  <2>2. Holds(app[b]) => app[b].handle \in Handles
    BY AtCall DEF Holds
  <2>3. QED
    BY <1>2, <1>5, <2>1, <2>2, AtCall DEF Apart, Fits, Left
<1>8. ContextIsOpen'
  BY <1>3, <1>4, <1>5 DEF Inv, ContextIsOpen
<1>9. /\ link' \subseteq Paths /\ posts' \in [Paths -> 0 .. MaxPosts] /\ shadow' \subseteq Paths
      /\ fd' \in [Handles -> Paths \cup {None}] /\ PostedOnce'
      /\ link' = link /\ posts' = posts /\ fd' = fd
  BY DEF Inv, TypeOK, PostedOnce
<1>10. QED
  BY <1>1, <1>2, <1>5, <1>6, <1>7, <1>8, <1>9, CallKeepsInv

LEMMA OpenFileKeepsInv ==
  ASSUME Inv, NEW a \in Apps, AddOpenFile(a) \/ WriteVirtualFile(a) \/ AddCreatedFile(a)
  PROVE  Inv'
<1>1. virtual' \in [Paths -> {None, Torn, "server", "shadow"}]
  BY DEF AddOpenFile, WriteVirtualFile, AddCreatedFile, Inv, TypeOK
<1>2. CASE AddOpenFile(a)
  BY <1>1, <1>2, EndsKeepsInv, EntersKeepsInv DEF AddOpenFile, At, Inv, TypeOK
<1>3. CASE WriteVirtualFile(a)
  <2>1. CASE Ends(a)
    BY <1>1, <1>3, <2>1, EndsKeepsInv DEF WriteVirtualFile, Inv, TypeOK
  <2>2. CASE Goto(a, "enter")
    BY <1>1, <1>3, <2>2, GoesKeepsInv DEF WriteVirtualFile, At, Pcs, Entered, Leaving
  <2>3. QED
    BY <1>3, <2>1, <2>2 DEF WriteVirtualFile
<1>4. CASE AddCreatedFile(a)
  <2>1. CASE HandleOf(a) = Unset
    BY <1>1, <1>4, <2>1, EndsKeepsInv DEF AddCreatedFile, Inv, TypeOK
  <2>2. CASE HandleOf(a) # Unset
    <3>1. app[a].access = "Write"
      BY <1>4, AtCall DEF AddCreatedFile, At, Fits
    <3>2. QED
      BY <1>1, <1>4, <2>2, <3>1, EntersKeepsInv DEF AddCreatedFile, At
  <2>3. QED
    BY <2>1, <2>2
<1>5. QED
  BY <1>2, <1>3, <1>4

----------------------------------------------------------------------------
(* The steps of a release *)

LEMMA ReleaseKeepsInv ==
  ASSUME Inv, NEW a \in Apps, ReleaseHandle(a) \/ ReadFileSize(a) \/ UpdateFileSize(a)
  PROVE  Inv'
<1>1. app[a].pc \in Entered \cup Leaving => app[a].handle # Unset
  BY AtCall DEF Fits
<1>2. CASE ReleaseHandle(a)
  <2>1. PICK p \in {"stage", "remove"} : Goto(a, p)
    BY <1>2 DEF ReleaseHandle
  <2>2. virtual' \in [Paths -> {None, Torn, "server", "shadow"}]
    BY <1>2 DEF ReleaseHandle, Inv, TypeOK
  <2>3. QED
    BY <1>1, <1>2, <2>1, <2>2, GoesKeepsInv DEF ReleaseHandle, At, Pcs, Entered, Leaving
<1>3. CASE ReadFileSize(a)
  <2>1. virtual' \in [Paths -> {None, Torn, "server", "shadow"}]
    BY <1>3 DEF ReadFileSize, Inv, TypeOK
  <2>2. CASE Ends(a)
    BY <1>3, <2>1, <2>2, EndsKeepsInv DEF ReadFileSize, Inv, TypeOK
  <2>3. CASE ~Ends(a)
    <3> DEFINE vf == virtual[PathOf(a)]
    <3> DEFINE R == [app[a] EXCEPT !.pc = "update", !.virtual = vf]
    <3>1. app' = [app EXCEPT ![a] = R] /\ vf \notin {None, Torn} /\ app[a].pc = "measure"
      BY <1>3, <2>3 DEF ReadFileSize, At
    <3>2. vf \in {"server", "shadow"}
      <4>1. PathOf(a) \in Paths
        BY <3>1, AtCall DEF PathOf
      <4>2. QED
        BY <3>1, <4>1 DEF Inv, TypeOK
    <3>3. /\ R \in AppStates /\ R.pc = "update" /\ R.path = app[a].path
          /\ R.access = app[a].access /\ R.handle = app[a].handle /\ R.path \in Paths
      <4>1. app[a] \in AppStates /\ app[a].path \in Paths
        BY <3>1, AtCall
      <4>2. QED
        BY <3>2, <4>1 DEF AppStates, Pcs
    <3> HIDE DEF R
    <3>4. Holds(R) => Holds(app[a])
      BY <3>1, <3>3 DEF Holds
    <3>5. UNCHANGED <<link, posts, fd, context>> /\ shadow' \subseteq Paths
      BY <1>3 DEF ReadFileSize, Inv, TypeOK
    <3>6. QED
      BY <1>1, <2>1, <3>1, <3>3, <3>4, <3>5, CallMovesOn DEF Entered, Leaving
  <2>4. QED
    BY <2>2, <2>3
<1>4. CASE UpdateFileSize(a)
  <2>1. virtual' \in [Paths -> {None, Torn, "server", "shadow"}]
    BY <1>4, AtCall DEF UpdateFileSize, Inv, TypeOK, AppStates
  <2>2. QED
    BY <1>1, <1>4, <2>1, GoesKeepsInv DEF UpdateFileSize, At, Pcs, Entered, Leaving
<1>5. QED
  BY <1>2, <1>3, <1>4

\* The call goes on with the descriptor and the entry that it has.
LEMMA PublishKeepsInv ==
  ASSUME Inv, NEW a \in Apps, CopyToServer(a) \/ Post(a)
  PROVE  Inv'
<1> USE DEF PathOf, HandleOf
<1>1. app[a].pc \in {"stage", "post"} /\ app[a].path \in Paths /\ app[a].handle # Unset
  BY AtCall DEF CopyToServer, Post, At, Fits, Entered
<1>2. /\ virtual' \in [Paths -> {None, Torn, "server", "shadow"}] /\ shadow' \subseteq Paths
      /\ link' \subseteq Paths /\ link \subseteq link'
      /\ fd' \in [Handles -> Paths \cup {None}] /\ fd' = fd
      /\ context' \in [Handles -> Entries \cup {None}] /\ context' = context
      /\ ContextIsOpen'
  BY <1>1 DEF CopyToServer, Post, Inv, TypeOK, ContextIsOpen
<1>3. CASE CopyToServer(a) /\ ~Ends(a)
  <2> DEFINE R == [app[a] EXCEPT !.pc = "post"]
  <2>1. /\ app' = [app EXCEPT ![a] = R] /\ app[a].pc = "stage" /\ posts' = posts
        /\ app[a].path \notin link /\ link' = link \cup {app[a].path}
    BY <1>3 DEF CopyToServer, Goto, At
  <2>2. /\ R \in AppStates /\ R.pc = "post" /\ R.path = app[a].path
        /\ R.access = app[a].access /\ R.handle = app[a].handle
    BY AtCall DEF Pcs
  <2> HIDE DEF R
  <2>3. posts[app[a].path] = 0 /\ PostedOnce'
    BY <1>1, <2>1 DEF Inv, PostedOnce
  <2>4. Fits(R, fd', context', link', posts')
    BY <1>1, <1>2, <2>1, <2>2, <2>3, AtCall DEF Fits, Holds, Entered
  <2>5. ASSUME NEW b \in Apps \ {a} PROVE Left(b, R)
    <3>1. app[b].pc = "post" => app[b].path # app[a].path /\ posts[app[b].path] = 0
      BY <2>1, AtCall DEF Fits
    <3>2. Holds(app[b]) => app[b].handle # app[a].handle
      BY <1>1 DEF Inv, Apart, Holds
    <3>3. QED
      BY <1>2, <2>1, <2>2, <3>1, <3>2 DEF Left, Apart
  <2>6. posts' \in [Paths -> 0 .. MaxPosts]
    BY <2>1 DEF Inv, TypeOK
  <2>7. QED
    BY <1>2, <2>1, <2>2, <2>3, <2>4, <2>5, <2>6, CallKeepsInv
<1>4. CASE CopyToServer(a) /\ Ends(a)
  <2>1. UNCHANGED link \/ (link' = link \cup {app[a].path} /\ Goto(a, "post"))
    BY <1>4 DEF CopyToServer
  <2>2. ~Goto(a, "post")
    BY <1>4 DEF Goto, Ends, Idle, Inv, TypeOK
  <2>3. QED
    BY <1>2, <1>4, <2>1, <2>2, EndsKeepsInv DEF CopyToServer
<1>5. CASE Post(a)
  <2>1. /\ app[a].pc = "post" /\ link' = link /\ app[a].path \in link
        /\ posts[app[a].path] = 0 /\ posts[app[a].path] < MaxPosts
    BY <1>5, AtCall DEF Post, At, Fits
  <2>2. posts' = [posts EXCEPT ![app[a].path] = 1]
    BY <1>5, <2>1 DEF Post
  <2>3. /\ posts' \in [Paths -> 0 .. MaxPosts]
        /\ \A p \in Paths \ {app[a].path} : posts'[p] = posts[p]
        /\ posts'[app[a].path] = 1
    BY <1>1, <2>1, <2>2 DEF Inv, TypeOK
  <2>4. PostedOnce'
    BY <2>1, <2>3 DEF Inv, PostedOnce
  <2>5. ASSUME NEW R \in AppStates, app' = [app EXCEPT ![a] = R], R.pc # "post",
               Fits(R, fd', context', link', posts'), Holds(R) => R.handle = app[a].handle
        PROVE  Inv'
    <3>1. ASSUME NEW b \in Apps \ {a} PROVE Left(b, R)
      <4>1. app[b].pc = "post" => /\ app[b].path # app[a].path /\ app[b].path \in Paths
                                  /\ posts[app[b].path] = 0
        BY <2>1, AtCall DEF Inv, Apart, Fits
      <4>2. Holds(app[b]) => app[b].handle # app[a].handle
        BY <1>1 DEF Inv, Apart, Holds
      <4>3. QED
        BY <1>2, <2>5, <2>3, <4>1, <4>2 DEF Left, Apart
    <3>2. QED
      BY <1>2, <2>1, <2>3, <2>4, <2>5, <3>1, CallKeepsInv
  <2>6. CASE Goto(a, "remove")
    <3> DEFINE R == [app[a] EXCEPT !.pc = "remove"]
    <3>1. app' = [app EXCEPT ![a] = R]
      BY <2>6 DEF Goto
    <3>2. /\ R \in AppStates /\ R.pc = "remove" /\ R.path = app[a].path
          /\ R.access = app[a].access /\ R.handle = app[a].handle
      BY AtCall DEF Pcs
    <3> HIDE DEF R
    <3>3. Fits(R, fd', context', link', posts')
      BY <1>1, <1>2, <2>1, <3>2, AtCall DEF Fits, Holds, Entered, Leaving
    <3>4. QED
      BY <2>5, <3>1, <3>2, <3>3
  <2>7. CASE Ends(a)
    <3>1. Idle \in AppStates /\ Idle.pc = "idle"
      BY AtCall DEF Idle
    <3>2. Fits(Idle, fd', context', link', posts') /\ ~Holds(Idle)
      BY <3>1 DEF Fits, Holds, Entered, Leaving
    <3>3. QED
      BY <2>5, <2>7, <3>1, <3>2 DEF Ends
  <2>8. QED
    BY <1>5, <2>6, <2>7 DEF Post
<1>6. QED
  BY <1>3, <1>4, <1>5

\* The entry goes first, and then the descriptor.
LEMMA CloseKeepsInv ==
  ASSUME Inv, NEW a \in Apps, RemoveOpenFile(a) \/ CloseHandle(a)
  PROVE  Inv'
<1> USE DEF HandleOf
<1> DEFINE h == app[a].handle
<1>1. /\ app[a].pc \in {"remove", "close"} /\ app[a].path \in Paths
      /\ h \in Handles /\ Holds(app[a]) /\ fd[h] = app[a].path
  BY AtCall DEF RemoveOpenFile, CloseHandle, At, Fits, Entered, Leaving, Holds
<1>2. /\ virtual' \in [Paths -> {None, Torn, "server", "shadow"}] /\ shadow' \subseteq Paths
      /\ link' \subseteq Paths /\ link' = link
      /\ posts' \in [Paths -> 0 .. MaxPosts] /\ posts' = posts /\ PostedOnce'
  BY DEF RemoveOpenFile, CloseHandle, Inv, TypeOK, PostedOnce
<1>3. /\ fd' \in [Handles -> Paths \cup {None}]
      /\ context' \in [Handles -> Entries \cup {None}]
      /\ \A g \in Handles \ {h} : fd'[g] = fd[g] /\ context'[g] = context[g]
      /\ context'[h] = None
  <2>1. CASE RemoveOpenFile(a)
    BY <1>1, <2>1 DEF RemoveOpenFile, Inv, TypeOK
  <2>2. CASE CloseHandle(a)
    <3>1. context[h] = None
      BY <1>1, <2>2, AtCall DEF CloseHandle, At, Fits, Entered
    <3>2. QED
      BY <1>1, <2>2, <3>1 DEF CloseHandle, Inv, TypeOK
  <2>3. QED
    BY <2>1, <2>2
<1>4. ContextIsOpen'
  BY <1>3 DEF Inv, ContextIsOpen
<1>5. ASSUME NEW R \in AppStates, app' = [app EXCEPT ![a] = R], R.pc # "post",
             Fits(R, fd', context', link', posts'), Holds(R) => R.handle = app[a].handle
      PROVE  Inv'
  <2>1. ASSUME NEW b \in Apps \ {a} PROVE Left(b, R)
    <3>1. Holds(app[b]) => app[b].handle # h /\ app[b].handle \in Handles
      BY <1>1, AtCall DEF Inv, Apart, Holds
    <3>2. app[b].pc = "post" => posts[app[b].path] = 0
      BY AtCall DEF Fits
    <3>3. QED
      BY <1>2, <1>3, <1>5, <3>1, <3>2 DEF Left, Apart
  <2>2. QED
    BY <1>2, <1>3, <1>4, <1>5, <2>1, CallKeepsInv
<1>6. CASE RemoveOpenFile(a)
  <2> DEFINE R == [app[a] EXCEPT !.pc = "measure"]
  <2>1. app' = [app EXCEPT ![a] = R]
    BY <1>6 DEF RemoveOpenFile, Goto
  <2>2. /\ R \in AppStates /\ R.pc = "measure" /\ R.path = app[a].path
        /\ R.access = app[a].access /\ R.handle = h
    BY AtCall DEF Pcs
  <2> HIDE DEF R
  <2>3. fd' = fd
    BY <1>6 DEF RemoveOpenFile
  <2>4. Fits(R, fd', context', link', posts')
    BY <1>1, <1>3, <2>2, <2>3 DEF Fits, Holds, Entered, Leaving
  <2>5. QED
    BY <1>5, <2>1, <2>2, <2>4
<1>7. CASE CloseHandle(a)
  <2>1. Idle \in AppStates /\ Idle.pc = "idle"
    BY AtCall DEF Idle
  <2>2. Fits(Idle, fd', context', link', posts') /\ ~Holds(Idle)
    BY <2>1 DEF Fits, Holds, Entered, Leaving
  <2>3. QED
    BY <1>5, <1>7, <2>1, <2>2 DEF CloseHandle, Ends
<1>8. QED
  BY <1>6, <1>7

LEMMA CrashKeepsInv == Inv /\ Crash => Inv'
<1> SUFFICES ASSUME Inv, Crash PROVE Inv'
  OBVIOUS
<1>1. Idle \in AppStates /\ Idle.pc = "idle"
  BY DEF Idle, AppStates, Pcs, Access
<1>2. TypeOK'
  BY <1>1 DEF Crash, Inv, TypeOK, At, PathOf, HandleOf
<1>3. \A a \in Apps : app'[a] = Idle
  BY DEF Crash
<1>4. \A a \in Apps : Fits(app'[a], fd', context', link', posts')
  BY <1>1, <1>3 DEF Fits, Holds, Entered, Leaving
<1>5. \A a, b \in Apps : a # b => Apart(app'[a], app'[b])
  BY <1>1, <1>3 DEF Apart, Holds
<1>6. ContextIsOpen' /\ PostedOnce'
  BY DEF Crash, ContextIsOpen, PostedOnce, Inv
<1>7. QED
  BY <1>2, <1>4, <1>5, <1>6 DEF Inv

LEMMA NextInv == Inv /\ [Next]_vars => Inv'
<1> SUFFICES ASSUME Inv, [Next]_vars PROVE Inv'
  OBVIOUS
<1>1. CASE \E a \in Apps : \E p \in Paths : GetPathStatus(a, p) \/ CreateHandle(a, p)
  BY <1>1, PathStatusKeepsInv, LookupKeepsInv
<1>2. CASE \E a \in Apps : \E p \in Paths, access \in Access : OpenHandle(a, p, access)
  BY <1>2, LookupKeepsInv
<1>3. CASE \E a \in Apps : Peek(a) \/ CreateVirtualFiles(a)
  BY <1>3, PathStatusKeepsInv
<1>4. CASE \E a \in Apps : AddOpenFile(a) \/ WriteVirtualFile(a) \/ AddCreatedFile(a)
  BY <1>4, OpenFileKeepsInv
<1>5. CASE \E a \in Apps : ReleaseHandle(a) \/ ReadFileSize(a) \/ UpdateFileSize(a)
  BY <1>5, ReleaseKeepsInv
<1>6. CASE \E a \in Apps : CopyToServer(a) \/ Post(a)
  BY <1>6, PublishKeepsInv
<1>7. CASE \E a \in Apps : RemoveOpenFile(a) \/ CloseHandle(a)
  BY <1>7, CloseKeepsInv
<1>8. CASE Crash
  BY <1>8, CrashKeepsInv
<1>9. CASE (\E p \in Paths : RemoveFile(p)) \/ UNCHANGED vars
  <2>1. /\ virtual' = virtual /\ link' = link /\ posts' = posts /\ fd' = fd
        /\ context' = context /\ app' = app /\ shadow' \subseteq Paths
    BY <1>9 DEF RemoveFile, vars, Inv, TypeOK
  <2>2. TypeOK'
    BY <2>1 DEF Inv, TypeOK, At, PathOf, HandleOf
  <2>3. QED
    BY <2>1, <2>2 DEF Inv, ContextIsOpen, PostedOnce
<1>10. QED
  BY <1>1, <1>2, <1>3, <1>4, <1>5, <1>6, <1>7, <1>8, <1>9 DEF Next

LEMMA AlwaysInv == Spec => []Inv
<1>1. QED
  BY InitInv, NextInv, PTL DEF Spec

----------------------------------------------------------------------------
(* What follows *)

LEMMA InvImplies == Inv => UsingIsEntered /\ PublishedOnce
<1> SUFFICES ASSUME Inv PROVE UsingIsEntered /\ PublishedOnce
  OBVIOUS
<1>1. ASSUME NEW a \in Apps, app[a].pc \in Entered
      PROVE /\ context[app[a].handle] = Entry(app[a].path, app[a].access)
            /\ app[a].path \in Paths /\ app[a].access \in Access
  BY <1>1, AtCall DEF Fits, Holds, Entered
<1>2. \A p \in Paths, access \in Access :
        LET entry == Entry(p, access)
        IN  entry # None /\ entry.path = p /\ entry.access = access
  BY DEF Entry, Access
<1>3. UsingIsEntered
  BY <1>1, <1>2 DEF UsingIsEntered, HandleOf, PathOf, Entered
<1>4. PublishedOnce
  BY DEF Inv, PostedOnce, PublishedOnce
<1>5. QED
  BY <1>3, <1>4

\* Every variable keeps its type, and a call past its open(2) has a descriptor.
THEOREM TypeCorrect == Spec => []TypeOK
<1>1. Inv => TypeOK
  BY DEF Inv
<1>2. QED
  BY <1>1, AlwaysInv, PTL

\* An entry of the table of open files is of a descriptor that is open, for its path.
THEOREM EntriesAreOpen == Spec => []ContextIsOpen
<1>1. Inv => ContextIsOpen
  BY DEF Inv
<1>2. QED
  BY <1>1, AlwaysInv, PTL

\* As long as an application uses a file, its handle leads to it in the table.
THEOREM HandlesLeadToFiles == Spec => []UsingIsEntered
<1>1. QED
  BY InvImplies, AlwaysInv, PTL

\* No path is published twice, whatever of a release fails.
THEOREM NothingPublishedTwice == Spec => []PublishedOnce
<1>1. QED
  BY InvImplies, AlwaysInv, PTL

----------------------------------------------------------------------------
(* The refinement *)

Table == [h \in HandlesInUse |-> context[h]]

\* The application of a handle in use is one that uses a file, and has that handle.
LEMMA InUse ==
  ASSUME Inv, NEW h
  PROVE  /\ h \in HandlesInUse <=> \E a \in Apps : app[a].pc = "using" /\ app[a].handle = h
         /\ h \in HandlesInUse => h \in Handles
<1>1. \A a \in Apps : app[a].pc = "using" => app[a].handle \in Handles
  BY AtCall DEF Fits, Entered
<1>2. QED
  BY <1>1 DEF HandlesInUse, At, HandleOf

\* A step of a call that does not use a file before or after, and that leaves the entries
\* of the others alone, is none of the table of open files.
LEMMA ElsewhereStutters ==
  ASSUME Inv, NEW a \in Apps, app[a].pc # "using", app'[a].pc # "using",
         \A b \in Apps \ {a} : app'[b] = app[b],
         \A h \in Handles : h = app[a].handle \/ context'[h] = context[h],
         app[a].pc # "remove" => context' = context
  PROVE  UNCHANGED Table
<1>1. HandlesInUse' = HandlesInUse
  BY DEF HandlesInUse, At, HandleOf
<1>2. ASSUME NEW h \in HandlesInUse PROVE context'[h] = context[h]
  <2>1. PICK b \in Apps : app[b].pc = "using" /\ app[b].handle = h /\ h \in Handles
    BY InUse
  <2>2. app[a].pc = "remove" => app[a].handle # h
    BY <2>1, AtCall DEF Inv, Apart, Holds, Fits, Entered
  <2>3. QED
    BY <2>1, <2>2
<1>3. QED
  BY <1>1, <1>2 DEF Table

LEMMA OthersStay ==
  ASSUME Inv, NEW a \in Apps, NEW R, app' = [app EXCEPT ![a] = R]
  PROVE  app'[a] = R /\ \A b \in Apps \ {a} : app'[b] = app[b]
BY DEF Inv, TypeOK

LEMMA EndsElsewhere ==
  ASSUME Inv, NEW a \in Apps, app[a].pc # "using", Ends(a), UNCHANGED context
  PROVE  UNCHANGED Table
<1>1. Idle.pc # "using"
  BY DEF Idle
<1>2. QED
  BY <1>1, OthersStay, ElsewhereStutters DEF Ends

LEMMA GoesElsewhere ==
  ASSUME Inv, NEW a \in Apps, app[a].pc # "using", NEW p \in Pcs, p # "using", Goto(a, p),
         \A h \in Handles : h = app[a].handle \/ context'[h] = context[h],
         app[a].pc # "remove" => context' = context
  PROVE  UNCHANGED Table
<1> DEFINE R == [app[a] EXCEPT !.pc = p]
<1>1. app' = [app EXCEPT ![a] = R] /\ R.pc = p
  BY AtCall DEF Goto
<1> HIDE DEF R
<1>2. QED
  BY <1>1, OthersStay, ElsewhereStutters

\* A handle that is entered is not in use, and then denotes the file that was opened.
LEMMA EntersOpens ==
  ASSUME Inv, NEW a \in Apps, app[a].pc \in {"lookup", "enter"}, HandleOf(a) # Unset,
         context' = [context EXCEPT ![HandleOf(a)] = Entry(PathOf(a), app[a].access)],
         Goto(a, "using")
  PROVE  \E h \in Handles, f \in Entries : OpenFiles!Open(h, f)
<1> DEFINE R == [app[a] EXCEPT !.pc = "using"]
<1>1. PICK h \in Handles : h = app[a].handle
  BY AtCall DEF HandleOf
<1>2. PICK f \in Entries : f = Entry(app[a].path, app[a].access)
  BY AtCall DEF Entry, Entries
<1>3. app' = [app EXCEPT ![a] = R] /\ R.pc = "using" /\ R.handle = h
  BY <1>1, AtCall DEF Goto, Pcs
<1> HIDE DEF R
<1>4. Holds(app[a])
  BY AtCall DEF HandleOf, Holds
<1>5. h \notin HandlesInUse
  BY <1>1, <1>4, InUse DEF Inv, Apart, Holds
<1>6. HandlesInUse' = HandlesInUse \cup {h}
  <2>1. app'[a] = R /\ \A b \in Apps \ {a} : app'[b] = app[b]
    BY <1>3, OthersStay
  <2>2. QED
    BY <1>3, <2>1 DEF HandlesInUse, At, HandleOf
<1>7. context'[h] = f /\ \A g \in HandlesInUse : context'[g] = context[g]
  BY <1>1, <1>2, <1>5, InUse DEF HandleOf, PathOf, Inv, TypeOK
<1>8. Table' = [g \in DOMAIN Table \cup {h} |-> IF g = h THEN f ELSE Table[g]]
  BY <1>5, <1>6, <1>7 DEF Table
<1>9. OpenFiles!Open(h, f)
  BY <1>5, <1>8 DEF OpenFiles!Open, Table
<1>10. QED
  BY <1>9

LEMMA ReleaseReleases ==
  ASSUME Inv, NEW a \in Apps, ReleaseHandle(a)
  PROVE  \E S \in SUBSET Handles : OpenFiles!Release(S)
<1>1. PICK p \in {"stage", "remove"} : Goto(a, p)
  BY DEF ReleaseHandle
<1> DEFINE R == [app[a] EXCEPT !.pc = p]
<1>2. app' = [app EXCEPT ![a] = R] /\ R.pc # "using"
  BY <1>1, AtCall DEF Goto, Pcs
<1> HIDE DEF R
<1>3. app[a].pc = "using" /\ context' = context
  BY DEF ReleaseHandle, At
<1>4. PICK h \in Handles : h = app[a].handle /\ h \in HandlesInUse
  BY <1>3, InUse
<1>5. HandlesInUse' = HandlesInUse \ {h}
  <2>1. app'[a] = R /\ \A b \in Apps \ {a} : app'[b] = app[b]
    BY <1>2, OthersStay
  <2>2. \A b \in Apps \ {a} : app[b].pc = "using" => app[b].handle # h
    BY <1>3, <1>4, AtCall DEF Inv, Apart, Holds, Fits, Entered
  <2>3. QED
    BY <1>2, <1>3, <1>4, <2>1, <2>2 DEF HandlesInUse, At, HandleOf
<1>6. Table' = [g \in DOMAIN Table \ {h} |-> Table[g]] /\ {h} \subseteq DOMAIN Table
  BY <1>3, <1>4, <1>5 DEF Table
<1>7. OpenFiles!Release({h})
  BY <1>6 DEF OpenFiles!Release, Table
<1>8. QED
  BY <1>7

LEMMA CrashReleases ==
  ASSUME Inv, Crash
  PROVE  \E S \in SUBSET Handles : OpenFiles!Release(S)
<1>1. PICK S \in SUBSET Handles : S = HandlesInUse
  BY InUse
<1>2. HandlesInUse' = {}
  BY DEF Crash, HandlesInUse, At, Idle
<1>3. Table' = [g \in DOMAIN Table \ S |-> Table[g]] /\ S \subseteq DOMAIN Table
  BY <1>1, <1>2 DEF Table
<1>4. OpenFiles!Release(S)
  BY <1>3 DEF OpenFiles!Release, Table
<1>5. QED
  BY <1>4

LEMMA StepsStutter ==
  ASSUME Inv, NEW a \in Apps,
         \/ \E p \in Paths : GetPathStatus(a, p) \/ CreateHandle(a, p)
         \/ \E p \in Paths, access \in Access : OpenHandle(a, p, access)
         \/ Peek(a) \/ CreateVirtualFiles(a) \/ WriteVirtualFile(a)
         \/ CopyToServer(a) \/ Post(a) \/ RemoveOpenFile(a)
         \/ ReadFileSize(a) \/ UpdateFileSize(a) \/ CloseHandle(a)
  PROVE  UNCHANGED Table
<1>1. CASE Peek(a) \/ CreateVirtualFiles(a) \/ WriteVirtualFile(a) \/ CopyToServer(a) \/ Post(a)
           \/ UpdateFileSize(a) \/ CloseHandle(a)
  <2>1. app[a].pc # "using" /\ context' = context
    BY <1>1 DEF Peek, CreateVirtualFiles, WriteVirtualFile, CopyToServer, Post, UpdateFileSize,
                CloseHandle, At
  <2>2. Ends(a) \/ \E p \in {"describe", "enter", "post", "remove", "close"} : Goto(a, p)
    BY <1>1 DEF Peek, CreateVirtualFiles, WriteVirtualFile, CopyToServer, Post, UpdateFileSize,
                CloseHandle
  <2>3. QED
    BY <2>1, <2>2, EndsElsewhere, GoesElsewhere DEF Pcs
<1>2. CASE RemoveOpenFile(a)
  <2>1. /\ app[a].pc = "remove" /\ Goto(a, "measure")
        /\ \A h \in Handles : h = app[a].handle \/ context'[h] = context[h]
    BY <1>2 DEF RemoveOpenFile, At, HandleOf, Inv, TypeOK
  <2>2. QED
    BY <2>1, GoesElsewhere DEF Pcs
<1>3. CASE ReadFileSize(a)
  <2>1. app[a].pc = "measure" /\ context' = context
    BY <1>3 DEF ReadFileSize, At
  <2>2. CASE Ends(a)
    BY <2>1, <2>2, EndsElsewhere
  <2>3. CASE app' = [app EXCEPT ![a] = [app[a] EXCEPT !.pc = "update", !.virtual = virtual[PathOf(a)]]]
    <3> DEFINE R == [app[a] EXCEPT !.pc = "update", !.virtual = virtual[PathOf(a)]]
    <3>1. R.pc = "update"
      <4>1. app[a] \in AppStates
        BY AtCall
      <4>2. QED
        BY <4>1 DEF AppStates
    <3>2. app' = [app EXCEPT ![a] = R]
      BY <2>3
    <3> HIDE DEF R
    <3>3. QED
      BY <2>1, <3>1, <3>2, OthersStay, ElsewhereStutters
  <2>4. QED
    BY <1>3, <2>2, <2>3 DEF ReadFileSize
<1>4. ASSUME NEW p \in Paths, NEW access \in Access, NEW pc \in {"lookup", "record"}, At(a, "idle"),
             Opens(a, p, access, pc) \/ OpensNot(a, p, access, pc), UNCHANGED context
      PROVE  UNCHANGED Table
  <2>1. PICK h \in Handles \cup {Unset} : app' = [app EXCEPT ![a] = Opened(pc, p, access, h)]
    BY <1>4 DEF Opens, OpensNot, FreeHandles
  <2>2. Opened(pc, p, access, h).pc # "using"
    BY DEF Opened
  <2>3. QED
    BY <1>4, <2>1, <2>2, OthersStay, ElsewhereStutters DEF At
<1>5. CASE \E p \in Paths : CreateHandle(a, p)
  BY <1>4, <1>5 DEF CreateHandle, Access
<1>6. CASE \E p \in Paths, access \in Access : OpenHandle(a, p, access)
  BY <1>4, <1>6 DEF OpenHandle
<1>7. ASSUME NEW p \in Paths, GetPathStatus(a, p) PROVE UNCHANGED Table
  <2> DEFINE R == [Idle EXCEPT !.pc = "peek", !.path = p]
  <2>1. app' = [app EXCEPT ![a] = R] /\ R.pc = "peek"
    BY <1>7 DEF GetPathStatus, Idle
  <2> HIDE DEF R
  <2>2. app[a].pc = "idle" /\ context' = context
    BY <1>7 DEF GetPathStatus, At
  <2>3. app'[a].pc # "using" /\ \A b \in Apps \ {a} : app'[b] = app[b]
    BY <2>1, OthersStay
  <2>4. QED
    BY <2>2, <2>3, ElsewhereStutters
<1>8. QED
  BY <1>1, <1>2, <1>3, <1>5, <1>6, <1>7

LEMMA AddRefines ==
  ASSUME Inv, NEW a \in Apps, AddOpenFile(a) \/ AddCreatedFile(a)
  PROVE  (\E h \in Handles, f \in Entries : OpenFiles!Open(h, f)) \/ UNCHANGED Table
<1>1. app[a].pc \in {"lookup", "enter"}
  BY DEF AddOpenFile, AddCreatedFile, At
<1>2. CASE Ends(a) /\ UNCHANGED context
  BY <1>1, <1>2, EndsElsewhere
<1>3. CASE ~(Ends(a) /\ UNCHANGED context)
  <2>1. CASE AddOpenFile(a)
    BY <1>1, <1>3, <2>1, EntersOpens DEF AddOpenFile
  <2>2. CASE AddCreatedFile(a)
    <3>1. app[a].access = "Write"
      BY <2>2, AtCall DEF AddCreatedFile, At, Fits
    <3>2. QED
      BY <1>1, <1>3, <2>2, <3>1, EntersOpens DEF AddCreatedFile
  <2>3. QED
    BY <2>1, <2>2
<1>4. QED
  BY <1>2, <1>3

LEMMA StepRefines == Inv /\ [Next]_vars => [OpenFiles!Next]_Table
<1> SUFFICES ASSUME Inv, [Next]_vars PROVE OpenFiles!Next \/ UNCHANGED Table
  OBVIOUS
<1>1. CASE UNCHANGED vars \/ \E p \in Paths : RemoveFile(p)
  BY <1>1 DEF vars, RemoveFile, Table, HandlesInUse, At, HandleOf
<1>2. CASE Crash
  BY <1>2, CrashReleases DEF OpenFiles!Next
<1>3. CASE \E a \in Apps : ReleaseHandle(a)
  BY <1>3, ReleaseReleases DEF OpenFiles!Next
<1>4. CASE \E a \in Apps : AddOpenFile(a) \/ AddCreatedFile(a)
  BY <1>4, AddRefines DEF OpenFiles!Next
<1>5. CASE Next /\ ~(\/ Crash \/ (\E p \in Paths : RemoveFile(p))
                    \/ \E a \in Apps : ReleaseHandle(a) \/ AddOpenFile(a) \/ AddCreatedFile(a))
  BY <1>5, StepsStutter DEF Next
<1>6. QED
  BY <1>1, <1>2, <1>3, <1>4, <1>5

LEMMA InitRefines == Init => OpenFiles!Init
BY DEF Init, OpenFiles!Init, HandlesInUse, At, Idle

\* To the applications it is a table of open files: a handle is not given twice, and
\* denotes the file it was opened for until it is released.
THEOREM HandlesImplementOpenFiles == Spec => ImplementsOpenFiles
<1>1. QED
  BY InitRefines, StepRefines, AlwaysInv, PTL DEF Spec, ImplementsOpenFiles, OpenFiles!Spec, Table
=============================================================================
