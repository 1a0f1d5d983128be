--------------------------- MODULE OwncloudVioProofs ---------------------------
(***************************************************************************)
(* Proofs about the owncloud vio module, for every value of the constants *)
(* that ConstantsAssumption allows.                                       *)
(*                                                                         *)
(* TypeOK is not inductive by itself: _read and _write index the temp     *)
(* files through the handle (writeCtx->tmpFileName), so the type of the   *)
(* file data and of the read offset depends on which temp file an open    *)
(* handle owns.  The inductive invariant IInv adds                         *)
(*   - TempFileIsolation: each open handle's temp file exists, and no two *)
(*     open handles share one (mkstemp() returns a fresh name);           *)
(*   - HandleTmpOK: an open handle names a temp file, and its read offset *)
(*     lies within that file.                                             *)
(***************************************************************************)
EXTENDS OwncloudVio, SequenceTheorems, TLAPS

HandleTmpOK ==
    \A h \in FH : fh[h].open =>
        /\ fh[h].tmp \in TmpNames
        /\ fh[h].pos <= Len(tmp[fh[h].tmp].data)

IInv == TypeOK /\ TempFileIsolation /\ HandleTmpOK

-----------------------------------------------------------------------------
(* Lemmas about the data operators. *)

(* File content is exactly a sequence of bytes no longer than MaxLen. *)
LEMMA ContentChar ==
    ASSUME NEW s
    PROVE  s \in Content <=> s \in Seq(Bytes) /\ Len(s) <= MaxLen
<1>1. ASSUME s \in Content PROVE s \in Seq(Bytes) /\ Len(s) <= MaxLen
  <2>1. PICK n \in 0..MaxLen : s \in [1..n -> Bytes]
    BY <1>1, ConstantsAssumption DEF Content
  <2>2. s \in Seq(Bytes)
    BY <2>1, ConstantsAssumption
  <2>3. Len(s) = n
    BY <2>1, <2>2, LenProperties
  <2>. QED  BY <2>1, <2>2, <2>3
<1>2. ASSUME s \in Seq(Bytes), Len(s) <= MaxLen PROVE s \in Content
  BY <1>2, LenProperties, ConstantsAssumption DEF Content
<1>. QED  BY <1>1, <1>2

(* The empty content, of a new temp file or an empty upload. *)
LEMMA EmptyContent == << >> \in Content
<1>1. << >> \in [1..0 -> Bytes]
  OBVIOUS
<1>2. 0 \in 0..MaxLen
  BY ConstantsAssumption
<1>. QED  BY <1>1, <1>2, Zenon DEF Content

(* A byte sequence that fits is file content. *)
LEMMA ContentIntro ==
    ASSUME NEW s \in Seq(Bytes), Len(s) <= MaxLen
    PROVE  s \in Content
BY ContentChar

(* What a call returns has the type of last. *)
LEMMA ReturnType ==
    ASSUME NEW op \in Ops, NEW p \in Paths, NEW r \in Rets,
           NEW err \in Errnos \cup {Unset}, NEW st \in StatVal,
           NEW d \in Content,
           Return(op, p, r, err, st, d)
    PROVE  last' \in Result
BY DEF Return, Result

(* A call that returns no stat and no data sets last to a typed result. *)
LEMMA ReturnsType ==
    ASSUME NEW op \in Ops, NEW p \in Paths, NEW r \in Rets,
           NEW err \in Errnos \cup {Unset},
           Returns(op, p, r, err)
    PROVE  last' \in Result
<1>1. NoStat \in StatVal
  BY ConstantsAssumption DEF NoStat, StatVal
<1>. QED  BY <1>1, EmptyContent, ReturnType DEF Returns

(* The two errno translations answer errno values. *)
LEMMA ErrnoType ==
    /\ \A st : ne_session_error_errno(st) \in Errnos
    /\ \A rc : ne_error_to_errno(rc) \in Errnos
BY DEF ne_session_error_errno, ne_error_to_errno, Errnos

(* The name results() gives an entry of a path is a name or the root's. *)
LEMMA BaseType ==
    ASSUME NEW p \in Paths
    PROVE  Base(p) \in Names \cup {RootName}
<1>1. CASE p = Root
  BY <1>1 DEF Base
<1>2. CASE p # Root
  <2>1. p \in Seq(Names)
    BY ConstantsAssumption
  <2>2. Len(p) \in 1..Len(p)
    BY <1>2, <2>1, EmptySeq, LenProperties DEF Root
  <2>. QED  BY <1>2, <2>1, <2>2, ElementOfSeq DEF Base
<1>. QED  BY <1>1, <1>2

(* Every node of a tree has content of the file type. *)
LEMMA NodeSize ==
    ASSUME NEW t \in [Paths -> Node], NEW q \in Paths
    PROVE  Len(t[q].data) \in 0..MaxLen
BY ContentChar, LenProperties DEF Node

(* A listing holds entries. *)
LEMMA ListingType ==
    ASSUME NEW t \in [Paths -> Node], NEW p \in Paths, NEW incl \in BOOLEAN
    PROVE  Listing(t, p, incl) \subseteq Entry
<1>1. Children(t, p) \cup (IF incl THEN {p} ELSE {}) \subseteq Paths
  BY DEF Children
<1>2. \A q \in Paths : ToEntry(t, q) \in Entry
  BY NodeSize DEF ToEntry, Entry
<1>. QED  BY <1>1, <1>2 DEF Listing

(* resourceToFileStat() of an entry is a stat value. *)
LEMMA StatValType ==
    ASSUME NEW e \in Entry
    PROVE  resourceToFileStat(e) \in StatVal
BY DEF resourceToFileStat, Entry, StatVal

(* The records of a closed file and directory handle. *)
LEMMA ClosedTypes == ClosedFile \in FHandle /\ ClosedDir \in DHandle
<1>1. Root \in Paths /\ 0 \in 0..MaxLen
  BY ConstantsAssumption
<1>2. ClosedFile \in FHandle
  BY <1>1 DEF ClosedFile, FHandle
<1>3. ClosedDir \in DHandle
  BY <1>1 DEF ClosedDir, DHandle
<1>. QED  BY <1>2, <1>3

-----------------------------------------------------------------------------
(* The initial state. *)
LEMMA InitIInv == Init => IInv
<1>. SUFFICES ASSUME Init PROVE IInv
  OBVIOUS
<1>1. << >> \in Content
  BY EmptyContent
<1>2. TypeOK
  <2>1. NoStat \in StatVal
    BY ConstantsAssumption DEF NoStat, StatVal
  <2>2. ClosedFile \in FHandle /\ ClosedDir \in DHandle
    BY ClosedTypes
  <2>3. tmp \in [TmpNames -> [exists : BOOLEAN, data : Content]]
    BY <1>1 DEF Init
  <2>4. fs \in [name : Names \cup {RootName, NoName}, live : BOOLEAN,
                st : StatVal]
    BY <2>1 DEF Init
  <2>5. last \in Result
    BY <1>1, <2>1, ConstantsAssumption DEF Init, Result, Ops, Rets
  <2>6. server \in [Paths -> Node] /\ inits \in 0..MaxInits
    BY ConstantsAssumption DEF Init
  <2>. QED
    BY <2>2, <2>3, <2>4, <2>5, <2>6 DEF Init, TypeOK, Faults, Protocols
<1>3. TempFileIsolation /\ HandleTmpOK
  BY DEF Init, TempFileIsolation, HandleTmpOK, ClosedFile
<1>. QED  BY <1>2, <1>3 DEF IInv
-----------------------------------------------------------------------------
(* Each action preserves IInv. *)

(* A neon call on a dead session kills the process and changes nothing   *)
(* else.                                                                   *)
LEMMA CrashStep ==
    ASSUME IInv, NEW c, Crash(c), UNCHANGED <<connected, ctx, protocol>>
    PROVE  IInv'
<1>1. fault' \in Faults
  BY DEF Crash, Faults
<1>. QED
  BY <1>1 DEF Crash, IInv, TypeOK, TempFileIsolation, HandleTmpOK

(* dav_connect() leaves the session variables in their types. *)
LEMMA ConnectType ==
    ASSUME TypeOK, dav_connect
    PROVE  /\ connected' \in BOOLEAN
           /\ ctx' \in {"null", "live", "freed"}
           /\ protocol' \in Protocols
<1>1. ProtocolFor(Scheme) \subseteq Protocols
  BY DEF ProtocolFor, Protocols
<1>. QED  BY <1>1 DEF dav_connect, TypeOK

(* vio_module_init keeps IInv. *)
LEMMA ModuleInitStep ==
    ASSUME IInv, ModuleInit PROVE IInv'
<1>1. last' \in Result
  BY ReturnsType, ConstantsAssumption DEF ModuleInit, Ops, Rets, Unset
<1>. QED
  BY <1>1, ConstantsAssumption
  DEF ModuleInit, IInv, TypeOK, TempFileIsolation, HandleTmpOK

(* vio_module_shutdown, or its crash on a dead session, keeps IInv. *)
LEMMA ModuleShutdownStep ==
    ASSUME IInv, ModuleShutdown PROVE IInv'
<1>1. CASE ctx # "live"
  BY <1>1, CrashStep DEF ModuleShutdown
<1>2. CASE ctx = "live"
  <2>1. last' \in Result
    BY <1>2, ReturnsType, ConstantsAssumption
    DEF ModuleShutdown, Ops, Rets, Unset
  <2>. QED
    BY <1>2, <2>1
    DEF ModuleShutdown, IInv, TypeOK, TempFileIsolation, HandleTmpOK
<1>. QED  BY <1>1, <1>2

(* _opendir keeps IInv: the new directory handle lists entries. *)
LEMMA OpendirStep ==
    ASSUME IInv, NEW p \in Paths, Opendir(p) PROVE IInv'
<1>. PICK d \in DH : /\ ~dh[d].open
                    /\ dav_connect
                    /\ IF SessionAfterConnect # "live"
                         THEN Crash(SessionAfterConnect)
                         ELSE /\ \/ /\ NetErrors # {}
                                    /\ Returns("opendir", p, "fail",
                                               ne_session_error_errno(NoStatus))
                                    /\ UNCHANGED dh
                                 \/ /\ ~Exists(server, p)
                                    /\ Returns("opendir", p, "fail",
                                               ne_session_error_errno(404))
                                    /\ UNCHANGED dh
                                 \/ /\ Exists(server, p)
                                    /\ dh' = [dh EXCEPT ![d] =
                                                [open |-> TRUE, target |-> p,
                                                 rest |-> Listing(server, p,
                                                                  FALSE)]]
                                    /\ Returns("opendir", p, "ok", Unset)
                              /\ UNCHANGED <<phase, inits, server, tmp, fh, fs,
                                             fault>>
  BY DEF Opendir
<1>1. /\ connected' \in BOOLEAN
      /\ ctx' \in {"null", "live", "freed"}
      /\ protocol' \in Protocols
  BY ConnectType DEF IInv
<1>2. CASE SessionAfterConnect # "live"
  <2>1. fault' \in Faults
    BY <1>2 DEF Crash, Faults
  <2>. QED
    BY <1>1, <1>2, <2>1
    DEF Crash, IInv, TypeOK, TempFileIsolation, HandleTmpOK
<1>3. CASE SessionAfterConnect = "live"
  <2>0. UNCHANGED <<phase, inits, server, tmp, fh, fs, fault>>
    BY <1>3
  <2>1. CASE /\ NetErrors # {}
             /\ Returns("opendir", p, "fail", ne_session_error_errno(NoStatus))
             /\ UNCHANGED dh
    <3>1. ne_session_error_errno(NoStatus) \in Errnos
      BY ErrnoType
    <3>2. last' \in Result
      BY <2>1, <3>1, ReturnsType DEF Ops, Rets
    <3>. QED
      BY <1>1, <2>0, <2>1, <3>2
      DEF IInv, TypeOK, TempFileIsolation, HandleTmpOK
  <2>2. CASE /\ ~Exists(server, p)
             /\ Returns("opendir", p, "fail", ne_session_error_errno(404))
             /\ UNCHANGED dh
    <3>1. ne_session_error_errno(404) \in Errnos
      BY ErrnoType
    <3>2. last' \in Result
      BY <2>2, <3>1, ReturnsType DEF Ops, Rets
    <3>. QED
      BY <1>1, <2>0, <2>2, <3>2
      DEF IInv, TypeOK, TempFileIsolation, HandleTmpOK
  <2>3. CASE /\ Exists(server, p)
             /\ dh' = [dh EXCEPT ![d] =
                          [open |-> TRUE, target |-> p,
                           rest |-> Listing(server, p, FALSE)]]
             /\ Returns("opendir", p, "ok", Unset)
    <3>1. last' \in Result
      BY <2>3, ReturnsType DEF Ops, Rets, Unset
    <3>2. Listing(server, p, FALSE) \subseteq Entry
      BY ListingType DEF IInv, TypeOK
    <3>3. dh' \in [DH -> DHandle]
      BY <2>3, <3>2 DEF IInv, TypeOK, DHandle
    <3>. QED
      BY <1>1, <2>0, <3>1, <3>3
      DEF IInv, TypeOK, TempFileIsolation, HandleTmpOK
  <2>. QED  BY <1>3, <2>1, <2>2, <2>3
<1>. QED  BY <1>2, <1>3

(* _readdir keeps IInv: the cached _fs holds a name and a stat value. *)
LEMMA ReaddirStep ==
    ASSUME IInv, NEW d \in DH, Readdir(d) PROVE IInv'
<1>1. CASE dh[d].rest = {} /\ Returns("readdir", dh[d].target, "end", Unset)
                           /\ UNCHANGED <<dh, fs>>
  <2>1. last' \in Result
    BY <1>1, ReturnsType DEF IInv, TypeOK, DHandle, Ops, Rets, Unset
  <2>. QED
    BY <1>1, <2>1 DEF Readdir, IInv, TypeOK, TempFileIsolation, HandleTmpOK
<1>2. CASE \E e \in dh[d].rest :
            /\ IsFirst(e, dh[d].rest)
            /\ dh' = [dh EXCEPT ![d].rest = @ \ {e}]
            /\ fs' = [name |-> Base(e.uri), live |-> TRUE,
                      st |-> resourceToFileStat(e)]
            /\ Returns("readdir", e.uri, "ok", Unset)
  <2>. PICK e \in dh[d].rest :
            /\ dh' = [dh EXCEPT ![d].rest = @ \ {e}]
            /\ fs' = [name |-> Base(e.uri), live |-> TRUE,
                      st |-> resourceToFileStat(e)]
            /\ Returns("readdir", e.uri, "ok", Unset)
    BY <1>2
  <2>1. e \in Entry
    BY DEF IInv, TypeOK, DHandle
  <2>2. last' \in Result
    BY <2>1, ReturnsType DEF Entry, Ops, Rets, Unset
  <2>3. fs' \in [name : Names \cup {RootName, NoName}, live : BOOLEAN,
                 st : StatVal]
    BY <2>1, BaseType, StatValType DEF Entry
  <2>4. dh' \in [DH -> DHandle]
    BY DEF IInv, TypeOK, DHandle
  <2>. QED
    BY <2>2, <2>3, <2>4
    DEF Readdir, IInv, TypeOK, TempFileIsolation, HandleTmpOK
<1>. QED  BY <1>1, <1>2 DEF Readdir

(* The caller's release of a dirent keeps IInv. *)
LEMMA ReleaseDirentStep ==
    ASSUME IInv, ReleaseDirent PROVE IInv'
BY DEF ReleaseDirent, IInv, TypeOK, TempFileIsolation, HandleTmpOK

(* _closedir keeps IInv. *)
LEMMA ClosedirStep ==
    ASSUME IInv, NEW d \in DH, Closedir(d) PROVE IInv'
<1>1. last' \in Result
  BY ReturnsType DEF Closedir, IInv, TypeOK, DHandle, Ops, Rets, Unset
<1>. QED
  BY <1>1, ClosedTypes
  DEF Closedir, IInv, TypeOK, TempFileIsolation, HandleTmpOK

(* _lseek keeps IInv. *)
LEMMA LseekStep ==
    ASSUME IInv, NEW h \in FH, Lseek(h) PROVE IInv'
<1>1. last' \in Result
  BY ReturnsType DEF Lseek, IInv, TypeOK, FHandle, Ops, Rets, Unset
<1>. QED
  BY <1>1 DEF Lseek, IInv, TypeOK, TempFileIsolation, HandleTmpOK
(* The trees the server's answers leave are trees. *)
LEMMA NodeValues ==
    ASSUME NEW c \in Content
    PROVE  DirNode \in Node /\ NoNode \in Node /\ FileNode(c) \in Node
BY EmptyContent DEF DirNode, NoNode, FileNode, Node

(* MKCOL leaves a tree. *)
LEMMA MkcolTree ==
    ASSUME NEW t \in [Paths -> Node], NEW p \in Paths
    PROVE  [t EXCEPT ![p] = DirNode] \in [Paths -> Node]
BY NodeValues, EmptyContent

(* DELETE leaves a tree. *)
LEMMA DeleteTree ==
    ASSUME NEW t \in [Paths -> Node], NEW p \in Paths
    PROVE  AfterDelete(t, p) \in [Paths -> Node]
BY NodeValues, EmptyContent DEF AfterDelete

(* MOVE leaves a tree. *)
LEMMA MoveTree ==
    ASSUME NEW t \in [Paths -> Node], NEW s \in Paths, NEW d \in Paths
    PROVE  AfterMove(t, s, d) \in [Paths -> Node]
BY NodeValues, EmptyContent DEF AfterMove

(* A PUT of file content leaves a tree. *)
LEMMA PutTree ==
    ASSUME NEW t \in [Paths -> Node], NEW p \in Paths, NEW st,
           NEW c \in Content
    PROVE  AfterPut(t, p, st, c) \in [Paths -> Node]
BY NodeValues DEF AfterPut

(* One request of a namespace call: the tree and the result stay typed. *)
LEMMA RequestType ==
    ASSUME TypeOK, NEW op \in Ops, NEW p \in Paths, NEW st,
           NEW after \in [Paths -> Node], NEW failRet \in Rets,
           Request(op, p, st, after, failRet)
    PROVE  server' \in [Paths -> Node] /\ last' \in Result
<1>1. CASE \E rc \in NetErrors :
             /\ Returns(op, p, failRet, ne_error_to_errno(rc))
             /\ UNCHANGED server
  <2>. PICK rc \in NetErrors :
             /\ Returns(op, p, failRet, ne_error_to_errno(rc))
             /\ UNCHANGED server
    BY <1>1
  <2>1. ne_error_to_errno(rc) \in Errnos
    BY ErrnoType
  <2>. QED  BY <2>1, ReturnsType DEF TypeOK
<1>2. CASE StatusClass(st) = 2 /\ server' = after
                               /\ Returns(op, p, "ok", Unset)
  BY <1>2, ReturnsType DEF Rets, Unset
<1>3. CASE StatusClass(st) # 2
           /\ Returns(op, p, failRet, ne_error_to_errno("NE_ERROR"))
           /\ UNCHANGED server
  <2>1. ne_error_to_errno("NE_ERROR") \in Errnos
    BY ErrnoType
  <2>. QED  BY <1>3, <2>1, ReturnsType DEF TypeOK
<1>4. CASE \E rc \in LateErrors :
             /\ StatusClass(st) = 2
             /\ server' = after
             /\ Returns(op, p, failRet, ne_error_to_errno(rc))
  <2>. PICK rc \in LateErrors :
             /\ StatusClass(st) = 2
             /\ server' = after
             /\ Returns(op, p, failRet, ne_error_to_errno(rc))
    BY <1>4
  <2>1. ne_error_to_errno(rc) \in Errnos
    BY ErrnoType DEF LateErrors
  <2>. QED  BY <2>1, ReturnsType
<1>. QED  BY <1>1, <1>2, <1>3, <1>4 DEF Request

(* The shape shared by _mkdir, _rmdir, _unlink and _rename. *)
NsBody(op, p, st, after, failRet) ==
    /\ dav_connect
    /\ IF SessionAfterConnect # "live"
         THEN Crash(SessionAfterConnect)
         ELSE Request(op, p, st, after, failRet) /\ NsUnchanged

(* A namespace call keeps IInv, whatever its request answers. *)
LEMMA NamespaceStep ==
    ASSUME IInv, NEW op \in Ops, NEW p \in Paths, NEW st,
           NEW after \in [Paths -> Node], NEW failRet \in Rets,
           NsBody(op, p, st, after, failRet)
    PROVE  IInv'
<1>. USE DEF NsBody
<1>1. /\ connected' \in BOOLEAN
      /\ ctx' \in {"null", "live", "freed"}
      /\ protocol' \in Protocols
  BY ConnectType DEF IInv
<1>2. CASE SessionAfterConnect # "live"
  <2>1. fault' \in Faults
    BY <1>2 DEF Crash, Faults
  <2>. QED
    BY <1>1, <1>2, <2>1
    DEF Crash, IInv, TypeOK, TempFileIsolation, HandleTmpOK
<1>3. CASE SessionAfterConnect = "live"
  <2>1. server' \in [Paths -> Node] /\ last' \in Result
    BY <1>3, RequestType DEF IInv
  <2>. QED
    BY <1>1, <1>3, <2>1
    DEF NsUnchanged, IInv, TypeOK, TempFileIsolation, HandleTmpOK
<1>. QED  BY <1>2, <1>3

(* _mkdir keeps IInv. *)
LEMMA MkdirStep ==
    ASSUME IInv, NEW p \in Paths, Mkdir(p) PROVE IInv'
<1>1. [server EXCEPT ![p] = DirNode] \in [Paths -> Node]
  BY MkcolTree DEF IInv, TypeOK
<1>2. NsBody("mkdir", p, MkcolStatus(server, p), [server EXCEPT ![p] = DirNode], "fail")
  BY DEF Mkdir, NsBody
<1>3. "mkdir" \in Ops /\ "fail" \in Rets
  BY DEF Ops, Rets
<1>. QED  BY <1>1, <1>2, <1>3, NamespaceStep

(* _rmdir keeps IInv. *)
LEMMA RmdirStep ==
    ASSUME IInv, NEW p \in Paths, Rmdir(p) PROVE IInv'
<1>1. AfterDelete(server, p) \in [Paths -> Node]
  BY DeleteTree DEF IInv, TypeOK
<1>2. NsBody("rmdir", p, DeleteStatus(server, p), AfterDelete(server, p), "fail")
  BY DEF Rmdir, NsBody
<1>3. "rmdir" \in Ops /\ "fail" \in Rets
  BY DEF Ops, Rets
<1>. QED  BY <1>1, <1>2, <1>3, NamespaceStep

(* _unlink keeps IInv. *)
LEMMA UnlinkStep ==
    ASSUME IInv, NEW p \in Paths, Unlink(p) PROVE IInv'
<1>1. AfterDelete(server, p) \in [Paths -> Node]
  BY DeleteTree DEF IInv, TypeOK
<1>2. NsBody("unlink", p, DeleteStatus(server, p), AfterDelete(server, p), "ok")
  BY DEF Unlink, NsBody
<1>3. "unlink" \in Ops /\ "ok" \in Rets
  BY DEF Ops, Rets
<1>. QED  BY <1>1, <1>2, <1>3, NamespaceStep

(* _rename keeps IInv. *)
LEMMA RenameStep ==
    ASSUME IInv, NEW s \in Paths, NEW d \in Paths, Rename(s, d) PROVE IInv'
<1>1. AfterMove(server, s, d) \in [Paths -> Node]
  BY MoveTree DEF IInv, TypeOK
<1>2. NsBody("rename", s, MoveStatus(server, s, d), AfterMove(server, s, d), "fail")
  BY DEF Rename, NsBody
<1>3. "rename" \in Ops /\ "fail" \in Rets
  BY DEF Ops, Rets
<1>. QED  BY <1>1, <1>2, <1>3, NamespaceStep

(* _utimes keeps IInv, also on a dead session. *)
LEMMA UtimesStep ==
    ASSUME IInv, NEW p \in Paths, Utimes(p) PROVE IInv'
<1>1. CASE ctx # "live"
  BY <1>1, CrashStep DEF Utimes
<1>2. CASE ctx = "live"
  <2>1. server' \in [Paths -> Node] /\ last' \in Result
    <3>1. Request("utimes", p, IF Exists(server, p) THEN 207 ELSE 404,
                  server, "fail")
      BY <1>2 DEF Utimes
    <3>. QED  BY <3>1, RequestType DEF IInv, TypeOK, Ops, Rets
  <2>. QED
    BY <1>2, <2>1
    DEF Utimes, NsUnchanged, IInv, TypeOK, TempFileIsolation, HandleTmpOK
<1>. QED  BY <1>1, <1>2
(* The outcomes _stat can produce are typed. *)
StatResult == [ok : BOOLEAN, st : StatVal, err : Errnos \cup {Unset},
               req : BOOLEAN]

(* Every outcome _stat can produce is typed. *)
LEMMA StatOutcomesType ==
    ASSUME TypeOK, NEW p \in Paths
    PROVE  StatOutcomes(p) \subseteq StatResult
<1>1. \A rc, st : StatFailed(rc, st) \in StatResult
  <2>1. NoStat \in StatVal
    BY ConstantsAssumption DEF NoStat, StatVal
  <2>2. \A rc, st : StatError(rc, st) \in Errnos
    BY ErrnoType DEF StatError
  <2>. QED  BY <2>1, <2>2 DEF StatFailed, StatResult
<1>2. StatHit \in StatResult
  BY DEF StatHit, StatResult, TypeOK
<1>3. StatMiss(p) \subseteq StatResult
  <2>1. Listing(server, p, TRUE) \subseteq Entry
    BY ListingType DEF TypeOK
  <2>2. \A e \in Listing(server, p, TRUE) : resourceToFileStat(e) \in StatVal
    BY <2>1, StatValType
  <2>3. {StatFailed(rc, NoStatus) : rc \in NetErrors} \subseteq StatResult
    BY <1>1
  <2>4. {[ok |-> TRUE, st |-> resourceToFileStat(e), err |-> Unset,
          req |-> TRUE] : e \in {e \in Listing(server, p, TRUE) :
                                 IsFirst(e, Listing(server, p, TRUE))}}
          \subseteq StatResult
    <3>1. \A e \in Listing(server, p, TRUE) :
            [ok |-> TRUE, st |-> resourceToFileStat(e), err |-> Unset,
             req |-> TRUE] \in StatResult
      BY <2>2 DEF StatResult
    <3>. QED  BY <3>1, Zenon
  <2>5. StatFailed("NE_ERROR", 404) \in StatResult
    BY <1>1
  <2>. QED  BY <2>3, <2>4, <2>5 DEF StatMiss
<1>. QED  BY <1>2, <1>3 DEF StatOutcomes

(* _stat keeps IInv: a request on a dead session crashes, the rest only sets last. *)
LEMMA StatStep ==
    ASSUME IInv, NEW p \in Paths, Stat(p) PROVE IInv'
<1>. PICK r \in StatOutcomes(p) :
         IF r.req /\ ctx # "live"
           THEN Crash(ctx) /\ UNCHANGED <<connected, ctx, protocol>>
           ELSE /\ Return("stat", p, IF r.ok THEN "ok" ELSE "fail", r.err,
                          r.st, <<>>)
                /\ UNCHANGED <<phase, inits, connected, ctx, protocol, server,
                               tmp, fh, dh, fs, fault>>
  BY DEF Stat
<1>1. r \in StatResult
  BY StatOutcomesType DEF IInv
<1>2. CASE r.req /\ ctx # "live"
  BY <1>2, CrashStep
<1>3. CASE ~(r.req /\ ctx # "live")
  <2>1. last' \in Result
    BY <1>1, <1>3, EmptyContent, ReturnType DEF StatResult, Ops, Rets
  <2>. QED
    BY <1>3, <2>1 DEF IInv, TypeOK, TempFileIsolation, HandleTmpOK
<1>. QED  BY <1>2, <1>3

-----------------------------------------------------------------------------
(* A temp file name mkstemp() may return belongs to no open handle. *)
LEMMA FreshTemp ==
    ASSUME IInv, NEW t \in TmpNames, ~tmp[t].exists
    PROVE  \A g \in FH : fh[g].open => fh[g].tmp # t
BY DEF IInv, TempFileIsolation

(* The facts OpenFile establishes before its PUT or GET path. *)
OpenPre(p, h, t) ==
    /\ IInv
    /\ p \in Paths /\ h \in FH /\ t \in TmpNames
    /\ ~fh[h].open /\ ~tmp[t].exists
    /\ connected' \in BOOLEAN /\ ctx' \in {"null", "live", "freed"}
    /\ protocol' \in Protocols
    /\ UNCHANGED <<phase, inits, dh, fs>>

(* A new open handle on a fresh temp file keeps IInv. *)
NewHandle(p, h, t, m, fd) ==
    [open |-> TRUE, method |-> m, path |-> p, tmp |-> t, fd |-> fd, pos |-> 0]

(* Opening a handle on a temp file mkstemp() just created keeps IInv. *)
LEMMA NewHandleStep ==
    ASSUME NEW p, NEW h, NEW t, OpenPre(p, h, t),
           NEW m \in {"PUT", "GET"}, NEW fd \in {"none", "rw", "ro"},
           NEW c \in Content,
           tmp' = [tmp EXCEPT ![t] = [exists |-> TRUE, data |-> c]],
           fh' = [fh EXCEPT ![h] = NewHandle(p, h, t, m, fd)],
           server' \in [Paths -> Node], last' \in Result, fault' = fault
    PROVE  IInv'
<1>. USE DEF OpenPre
<1>1. \A g \in FH : fh[g].open => fh[g].tmp # t
  BY FreshTemp
<1>2. NewHandle(p, h, t, m, fd) \in FHandle
  BY ConstantsAssumption DEF NewHandle, FHandle
<1>3. TypeOK'
  BY <1>2 DEF IInv, TypeOK
<1>4. TempFileIsolation'
  BY <1>1 DEF IInv, TypeOK, TempFileIsolation, NewHandle
<1>5. HandleTmpOK'
  <2>1. Len(c) \in Nat
    BY ContentChar, LenProperties
  <2>. QED  BY <1>1, <2>1 DEF IInv, TypeOK, HandleTmpOK, NewHandle
<1>. QED  BY <1>3, <1>4, <1>5 DEF IInv

(* A new temp file with no handle (a failed begin or download) keeps IInv. *)
LEMMA LeakedTempStep ==
    ASSUME NEW p, NEW h, NEW t, OpenPre(p, h, t), NEW c \in Content,
           tmp' = [tmp EXCEPT ![t] = [exists |-> TRUE, data |-> c]],
           UNCHANGED <<fh, server, fault>>, last' \in Result
    PROVE  IInv'
<1>. USE DEF OpenPre
<1>1. \A g \in FH : fh[g].open => fh[g].tmp # t
  BY FreshTemp
<1>. QED  BY <1>1 DEF IInv, TypeOK, TempFileIsolation, HandleTmpOK

(* The PUT path of _open keeps IInv. *)
LEMMA PutOpenStep ==
    ASSUME NEW p, NEW h, NEW t, OpenPre(p, h, t), PutOpen(p, h, t)
    PROVE  IInv'
<1>. USE DEF OpenPre
<1>. PICK r \in StatOutcomes(Parent(p)) :
        \/ /\ ~r.ok
           /\ IF StatVersion = 2
                THEN fault' = "invalid_free" /\ UNCHANGED last
                ELSE Returns("open", p, "fail", "ENOENT") /\ UNCHANGED fault
           /\ UNCHANGED <<server, tmp, fh>>
        \/ /\ r.ok
           /\ tmp' = [tmp EXCEPT ![t] = [exists |-> TRUE, data |-> <<>>]]
           /\ \/ /\ NetErrors # {}
                 /\ Returns("open", p, "fail", Unset)
                 /\ UNCHANGED <<server, fh>>
              \/ \E st \in PutAnswers(server, p) :
                   /\ server' = AfterPut(server, p, st, <<>>)
                   /\ fh' = [fh EXCEPT ![h] =
                               [open |-> TRUE, method |-> "PUT", path |-> p,
                                tmp |-> t, fd |-> "rw", pos |-> 0]]
                   /\ Returns("open", p, "ok", Unset)
           /\ UNCHANGED fault
  BY DEF PutOpen
<1>0. CASE ~r.ok /\ StatVersion # 2 /\ Returns("open", p, "fail", "ENOENT")
             /\ UNCHANGED <<server, tmp, fh, fault>>
  <2>1. last' \in Result
    BY <1>0, ReturnsType DEF Ops, Rets, Errnos
  <2>. QED  BY <1>0, <2>1 DEF IInv, TypeOK, TempFileIsolation, HandleTmpOK
<1>1. CASE ~r.ok /\ StatVersion = 2 /\ fault' = "invalid_free"
             /\ UNCHANGED <<server, tmp, fh, last>>
  BY <1>1 DEF IInv, TypeOK, TempFileIsolation, HandleTmpOK, Faults
<1>2. CASE r.ok /\ tmp' = [tmp EXCEPT ![t] = [exists |-> TRUE, data |-> <<>>]]
             /\ NetErrors # {} /\ Returns("open", p, "fail", Unset)
             /\ UNCHANGED <<server, fh, fault>>
  <2>1. last' \in Result
    BY <1>2, ReturnsType DEF Ops, Rets, Unset
  <2>. QED  BY <1>2, <2>1, EmptyContent, LeakedTempStep
<1>3. CASE r.ok /\ tmp' = [tmp EXCEPT ![t] = [exists |-> TRUE, data |-> <<>>]]
             /\ UNCHANGED fault
             /\ \E st \in PutAnswers(server, p) :
                   /\ server' = AfterPut(server, p, st, <<>>)
                   /\ fh' = [fh EXCEPT ![h] =
                               [open |-> TRUE, method |-> "PUT", path |-> p,
                                tmp |-> t, fd |-> "rw", pos |-> 0]]
                   /\ Returns("open", p, "ok", Unset)
  <2>. PICK st \in PutAnswers(server, p) :
                   /\ server' = AfterPut(server, p, st, <<>>)
                   /\ fh' = [fh EXCEPT ![h] = NewHandle(p, h, t, "PUT", "rw")]
                   /\ Returns("open", p, "ok", Unset)
    BY <1>3 DEF NewHandle
  <2>1. last' \in Result
    BY ReturnsType DEF Ops, Rets, Unset
  <2>2. server' \in [Paths -> Node]
    BY EmptyContent, PutTree DEF IInv, TypeOK
  <2>. QED  BY <1>3, <2>1, <2>2, EmptyContent, NewHandleStep
<1>. QED  BY <1>0, <1>1, <1>2, <1>3

(* The GET path of _open keeps IInv. *)
LEMMA GetOpenStep ==
    ASSUME NEW p, NEW h, NEW t, OpenPre(p, h, t), GetOpen(p, h, t)
    PROVE  IInv'
<1>. USE DEF OpenPre
<1>1. CASE /\ NetErrors # {} \/ server[p].kind # "file"
           /\ tmp' = [tmp EXCEPT ![t] = [exists |-> TRUE, data |-> <<>>]]
           /\ Returns("open", p, "fail", Unset)
           /\ UNCHANGED <<fh, server, fault>>
  <2>1. last' \in Result
    BY <1>1, ReturnsType DEF Ops, Rets, Unset
  <2>. QED  BY <1>1, <2>1, EmptyContent, LeakedTempStep
<1>2. CASE /\ tmp' = [tmp EXCEPT ![t] = [exists |-> TRUE,
                                         data |-> server[p].data]]
           /\ fh' = [fh EXCEPT ![h] = NewHandle(p, h, t, "GET", "none")]
           /\ Returns("open", p, "ok", Unset)
           /\ UNCHANGED <<server, fault>>
  <2>1. last' \in Result
    BY <1>2, ReturnsType DEF Ops, Rets, Unset
  <2>2. server[p].data \in Content
    BY DEF IInv, TypeOK, Node
  <2>. QED  BY <1>2, <2>1, <2>2, NewHandleStep DEF IInv, TypeOK
<1>. QED  BY <1>1, <1>2 DEF GetOpen, NewHandle

(* _open and _creat keep IInv. *)
LEMMA OpenFileStep ==
    ASSUME IInv, NEW p \in Paths, NEW put \in BOOLEAN, OpenFile(p, put)
    PROVE  IInv'
<1>. PICK h \in FH, t \in TmpNames :
        /\ ~fh[h].open
        /\ ~tmp[t].exists
        /\ dav_connect
        /\ IF SessionAfterConnect # "live"
             THEN Crash(SessionAfterConnect)
             ELSE /\ IF put THEN PutOpen(p, h, t) ELSE GetOpen(p, h, t)
                  /\ UNCHANGED <<phase, inits, dh, fs>>
  BY DEF OpenFile
<1>1. /\ connected' \in BOOLEAN
      /\ ctx' \in {"null", "live", "freed"}
      /\ protocol' \in Protocols
  BY ConnectType DEF IInv
<1>2. CASE SessionAfterConnect # "live"
  <2>1. fault' \in Faults
    BY <1>2 DEF Crash, Faults
  <2>. QED
    BY <1>1, <1>2, <2>1
    DEF Crash, IInv, TypeOK, TempFileIsolation, HandleTmpOK
<1>3. CASE SessionAfterConnect = "live"
  <2>1. OpenPre(p, h, t)
    BY <1>1, <1>3 DEF OpenPre
  <2>2. CASE put
    BY <1>3, <2>1, <2>2, PutOpenStep
  <2>3. CASE ~put
    BY <1>3, <2>1, <2>3, GetOpenStep
  <2>. QED  BY <2>2, <2>3
<1>. QED  BY <1>2, <1>3
-----------------------------------------------------------------------------
(* Appending a prefix of a buffer to file content that still fits. *)
LEMMA AppendContent ==
    ASSUME NEW c \in Content, NEW buf \in Content, NEW k \in 0..Len(buf),
           Len(c) + Len(buf) <= MaxLen
    PROVE  /\ c \o SubSeq(buf, 1, k) \in Content
           /\ Len(c \o SubSeq(buf, 1, k)) = Len(c) + k
<1>1. c \in Seq(Bytes) /\ buf \in Seq(Bytes)
  BY ContentChar
<1>2. \A i \in 1..k : buf[i] \in Bytes
  BY <1>1, ElementOfSeq
<1>3. SubSeq(buf, 1, k) \in Seq(Bytes) /\ Len(SubSeq(buf, 1, k)) = k
  BY <1>2, SubSeqProperties
<1>4. c \o SubSeq(buf, 1, k) \in Seq(Bytes)
      /\ Len(c \o SubSeq(buf, 1, k)) = Len(c) + k
  BY <1>1, <1>3, ConcatProperties
<1>0. Len(c) \in Nat /\ Len(buf) \in Nat
  BY <1>1, LenProperties
<1>5. Len(c \o SubSeq(buf, 1, k)) <= MaxLen
  BY <1>0, <1>4, ConstantsAssumption
<1>. QED  BY <1>4, <1>5, ContentIntro

(* _write keeps IInv: it appends to its own temp file only. *)
LEMMA WriteStep ==
    ASSUME IInv, NEW h \in FH, Write(h) PROVE IInv'
<1>. DEFINE x == fh[h].tmp
<1>1. fh[h].open /\ x \in TmpNames
  BY DEF Write, IInv, HandleTmpOK
<1>. PICK buf \in Content, k \in 0..MaxLen :
        /\ Len(buf) >= 1
        /\ Len(tmp[x].data) + Len(buf) <= MaxLen
        /\ k \in IF ShortWrites THEN 0..Len(buf) ELSE {Len(buf)}
        /\ tmp' = [tmp EXCEPT ![x].data = @ \o SubSeq(buf, 1, k)]
        /\ Returns("write", fh[h].path, IF k = Len(buf) THEN "ok" ELSE "short",
                   Unset)
  BY DEF Write
<1>2. tmp[x].data \in Content
  BY <1>1 DEF IInv, TypeOK
<1>3. k \in 0..Len(buf)
  BY ContentChar, LenProperties
<1>4. /\ tmp[x].data \o SubSeq(buf, 1, k) \in Content
      /\ Len(tmp[x].data \o SubSeq(buf, 1, k)) = Len(tmp[x].data) + k
  BY <1>2, <1>3, AppendContent
<1>5. last' \in Result
  BY <1>1, ReturnsType DEF IInv, TypeOK, FHandle, Ops, Rets, Unset
<1>6. UNCHANGED <<phase, inits, connected, ctx, protocol, server, fh, dh, fs,
                  fault>>
  BY DEF Write
<1>7. TypeOK'
  BY <1>1, <1>4, <1>5, <1>6 DEF IInv, TypeOK
<1>8. \A g \in FH : fh[g].open /\ g # h => fh[g].tmp # x
  BY <1>1 DEF IInv, TempFileIsolation
<1>9. TempFileIsolation'
  BY <1>1, <1>6 DEF IInv, TypeOK, TempFileIsolation
<1>10. HandleTmpOK'
  <2>1. Len(tmp[x].data) \in Nat /\ k \in Nat
    BY <1>2, <1>3, ContentChar, LenProperties
  <2>2. tmp'[x].data = tmp[x].data \o SubSeq(buf, 1, k)
    BY <1>1 DEF IInv, TypeOK
  <2>3. \A y \in TmpNames \ {x} : tmp'[y] = tmp[y]
    BY DEF IInv, TypeOK
  <2>4. SUFFICES ASSUME NEW g \in FH, fh'[g].open
                 PROVE  fh'[g].tmp \in TmpNames
                        /\ fh'[g].pos <= Len(tmp'[fh'[g].tmp].data)
    BY DEF HandleTmpOK
  <2>5. CASE g = h
    <3>1. fh'[g] = fh[h]
      BY <1>6, <2>5
    <3>2. fh[h].pos <= Len(tmp[x].data)
      BY <1>1 DEF IInv, HandleTmpOK
    <3>3. Len(tmp'[x].data) = Len(tmp[x].data) + k
      BY <1>4, <2>2
    <3>4. fh'[g].tmp = x /\ fh'[g].pos = fh[h].pos
      BY <3>1
    <3>5. fh[h].pos \in Nat
      BY DEF IInv, TypeOK, FHandle
    <3>. QED  BY <1>1, <2>1, <3>2, <3>3, <3>4, <3>5
  <2>6. CASE g # h
    <3>1. fh'[g] = fh[g]
      BY <1>6
    <3>2. fh[g].open
      BY <2>4, <3>1
    <3>3. fh[g].tmp \in TmpNames /\ fh[g].pos <= Len(tmp[fh[g].tmp].data)
      BY <3>2 DEF IInv, HandleTmpOK
    <3>4. fh[g].tmp # x
      BY <1>8, <2>6, <3>2
    <3>5. tmp'[fh[g].tmp] = tmp[fh[g].tmp]
      BY <2>3, <3>3, <3>4
    <3>. QED  BY <3>1, <3>3, <3>5
  <2>. QED  BY <2>5, <2>6
<1>. QED  BY <1>7, <1>9, <1>10 DEF IInv

(* read(2) never moves the offset past the end of the file. *)
LEMMA ReadCountBound ==
    ASSUME NEW d, NEW pos \in Nat, NEW count \in Nat, Len(d) \in Nat,
           pos <= Len(d)
    PROVE  pos + ReadCount(d, pos, count) \in 0..Len(d)
BY DEF ReadCount

(* _read keeps IInv: the offset stays within the downloaded file. *)
LEMMA ReadStep ==
    ASSUME IInv, NEW h \in FH, Read(h) PROVE IInv'
<1>. DEFINE x == fh[h].tmp
            d == tmp[x].data
<1>1. fh[h].open /\ x \in TmpNames /\ fh[h].pos <= Len(d)
  BY DEF Read, IInv, HandleTmpOK
<1>2. d \in Content /\ Len(d) \in 0..MaxLen /\ fh[h].pos \in 0..MaxLen
  BY <1>1, ContentChar, LenProperties DEF IInv, TypeOK, FHandle
<1>c. PICK count \in 1..MaxLen :
        /\ fh' = [fh EXCEPT ![h].fd = "ro",
                            ![h].pos = @ + ReadCount(d, fh[h].pos, count)]
        /\ Returns("read", fh[h].path,
                   IF ReadCount(d, fh[h].pos, count) = 0 THEN "end" ELSE "ok",
                   Unset)
  BY DEF Read
<1>3. fh[h].pos + ReadCount(d, fh[h].pos, count) \in 0..Len(d)
  <2>1. count \in Nat /\ fh[h].pos \in Nat /\ Len(d) \in Nat
    BY <1>2, ConstantsAssumption
  <2>. QED  BY <1>1, <2>1, ReadCountBound
<1>4. last' \in Result
  BY <1>c, ReturnsType DEF IInv, TypeOK, FHandle, Ops, Rets, Unset
<1>5. UNCHANGED <<phase, inits, connected, ctx, protocol, server, tmp, dh,
                  fs, fault>>
  BY DEF Read
<1>6. fh' = [fh EXCEPT ![h] = [fh[h] EXCEPT !.fd = "ro",
                 !.pos = fh[h].pos + ReadCount(d, fh[h].pos, count)]]
  BY <1>c
<1>7. fh[h].pos + ReadCount(d, fh[h].pos, count) \in 0..MaxLen
  BY <1>2, <1>3, ConstantsAssumption
<1>8. fh' \in [FH -> FHandle]
  <2>0. fh[h] \in FHandle
    BY DEF IInv, TypeOK
  <2>1. [fh[h] EXCEPT !.fd = "ro",
          !.pos = fh[h].pos + ReadCount(d, fh[h].pos, count)] \in FHandle
    BY <1>7, <2>0 DEF FHandle
  <2>. QED  BY <1>6, <2>1 DEF IInv, TypeOK
<1>9. TypeOK'
  BY <1>4, <1>5, <1>8 DEF IInv, TypeOK
<1>10. TempFileIsolation'
  BY <1>5, <1>6 DEF IInv, TempFileIsolation
<1>11. HandleTmpOK'
  BY <1>1, <1>3, <1>5, <1>6 DEF IInv, HandleTmpOK
<1>. QED  BY <1>9, <1>10, <1>11 DEF IInv

(* _close keeps IInv: it unlinks only its own temp file. *)
LEMMA CloseStep ==
    ASSUME IInv, NEW h \in FH, Close(h) PROVE IInv'
<1>. DEFINE p == fh[h].path
            x == fh[h].tmp
<1>1. fh[h].open /\ x \in TmpNames /\ p \in Paths
  BY DEF Close, IInv, HandleTmpOK, TypeOK, FHandle
<1>2. UNCHANGED <<connected, ctx, protocol>>
  BY DEF Close
<1>3. CASE fh[h].method = "PUT" /\ ctx # "live"
  BY <1>2, <1>3, CrashStep DEF Close
<1>4. CASE ~(fh[h].method = "PUT" /\ ctx # "live")
  <2>1. /\ UnlinkTemp(x)
        /\ fh' = [fh EXCEPT ![h] = ClosedFile]
        /\ \/ /\ fh[h].method = "GET"
              /\ Returns("close(GET)", p, "ok", Unset)
              /\ UNCHANGED server
           \/ /\ fh[h].method = "PUT"
              /\ ShortWrites
              /\ Returns("close(PUT)", p, "fail", Unset)
              /\ UNCHANGED server
           \/ /\ fh[h].method = "PUT"
              /\ NetErrors # {}
              /\ Return("close(PUT)", p, "fail", Unset, NoStat, tmp[x].data)
              /\ UNCHANGED server
           \/ /\ fh[h].method = "PUT"
              /\ LateErrors # {} \/ ShortWrites
              /\ \E st \in PutAnswers(server, p) :
                   server' = AfterPut(server, p, st, tmp[x].data)
              /\ Return("close(PUT)", p, "fail", Unset, NoStat, tmp[x].data)
           \/ /\ fh[h].method = "PUT"
              /\ \E st \in PutAnswers(server, p) :
                   server' = AfterPut(server, p, st, tmp[x].data)
              /\ Return("close(PUT)", p, "ok", Unset, NoStat, tmp[x].data)
        /\ UNCHANGED <<phase, inits, dh, fs, fault>>
    BY <1>4 DEF Close
  <2>6a. tmp \in [TmpNames -> [exists : BOOLEAN, data : Content]]
    BY DEF IInv, TypeOK
  <2>6b. NoStat \in StatVal
    BY ConstantsAssumption DEF NoStat, StatVal
  <2>2. tmp[x].data \in Content /\ NoStat \in StatVal
    BY <1>1, <2>6a, <2>6b
  <2>3. server' \in [Paths -> Node] /\ last' \in Result
    <3>1. CASE Returns("close(GET)", p, "ok", Unset) /\ UNCHANGED server
      BY <1>1, <3>1, ReturnsType DEF IInv, TypeOK, Ops, Rets, Unset
    <3>2. CASE Return("close(PUT)", p, "fail", Unset, NoStat, tmp[x].data)
               /\ UNCHANGED server
      BY <1>1, <2>2, <3>2, ReturnType DEF IInv, TypeOK, Ops, Rets, Unset
    <3>3. CASE /\ \E st \in PutAnswers(server, p) :
                    server' = AfterPut(server, p, st, tmp[x].data)
               /\ Return("close(PUT)", p, "ok", Unset, NoStat, tmp[x].data)
      <4>1. server' \in [Paths -> Node]
        BY <1>1, <2>2, <3>3, PutTree DEF IInv, TypeOK
      <4>. QED  BY <1>1, <2>2, <3>3, <4>1, ReturnType DEF Ops, Rets, Unset
    <3>4. CASE /\ \E st \in PutAnswers(server, p) :
                    server' = AfterPut(server, p, st, tmp[x].data)
               /\ Return("close(PUT)", p, "fail", Unset, NoStat, tmp[x].data)
      <4>1. server' \in [Paths -> Node]
        BY <1>1, <2>2, <3>4, PutTree DEF IInv, TypeOK
      <4>. QED  BY <1>1, <2>2, <3>4, <4>1, ReturnType DEF Ops, Rets, Unset
    <3>5. CASE Returns("close(PUT)", p, "fail", Unset) /\ UNCHANGED server
      BY <1>1, <3>5, ReturnsType DEF IInv, TypeOK, Ops, Rets, Unset
    <3>. QED  BY <2>1, <3>1, <3>2, <3>3, <3>4, <3>5
  <2>4. \A g \in FH : fh[g].open /\ g # h => fh[g].tmp # x
    BY <1>1 DEF IInv, TempFileIsolation
  <2>5. TypeOK'
    BY <1>2, <2>1, <2>3, ClosedTypes, EmptyContent DEF UnlinkTemp, IInv, TypeOK
  <2>6. TempFileIsolation' /\ HandleTmpOK'
    BY <1>1, <2>1, <2>4
    DEF UnlinkTemp, IInv, TypeOK, TempFileIsolation, HandleTmpOK, ClosedFile
  <2>. QED  BY <2>5, <2>6 DEF IInv
<1>. QED  BY <1>3, <1>4
-----------------------------------------------------------------------------
(* IInv is inductive: every step of Next, and every stutter, keeps it. *)
LEMMA NextIInv == IInv /\ [Next]_vars => IInv'
<1>. SUFFICES ASSUME IInv, [Next]_vars PROVE IInv'
  OBVIOUS
<1>1. CASE ModuleInit
  BY <1>1, ModuleInitStep
<1>2. CASE ModuleShutdown
  BY <1>2, ModuleShutdownStep
<1>3. ASSUME NEW p \in Paths,
             \/ Call("opendir", Opendir(p))
             \/ Call("stat", Stat(p))
             \/ Call("open", OpenFile(p, FALSE))
             \/ Call("creat", Creat(p))
             \/ Call("mkdir", Mkdir(p))
             \/ Call("rmdir", Rmdir(p))
             \/ Call("unlink", Unlink(p))
             \/ Call("utimes", Utimes(p))
      PROVE  IInv'
  <2>1. CASE Opendir(p)
    BY <2>1, OpendirStep
  <2>2. CASE Stat(p)
    BY <2>2, StatStep
  <2>3. CASE OpenFile(p, FALSE) \/ OpenFile(p, TRUE)
    BY <2>3, OpenFileStep
  <2>4. CASE Mkdir(p)
    BY <2>4, MkdirStep
  <2>5. CASE Rmdir(p)
    BY <2>5, RmdirStep
  <2>6. CASE Unlink(p)
    BY <2>6, UnlinkStep
  <2>7. CASE Utimes(p)
    BY <2>7, UtimesStep
  <2>. QED  BY <1>3, <2>1, <2>2, <2>3, <2>4, <2>5, <2>6, <2>7 DEF Call, Creat
<1>4. ASSUME NEW s \in Paths, NEW d \in Paths, Call("rename", Rename(s, d))
      PROVE  IInv'
  BY <1>4, RenameStep DEF Call
<1>5. ASSUME NEW d \in DH,
             Call("readdir", Readdir(d)) \/ Call("closedir", Closedir(d))
      PROVE  IInv'
  BY <1>5, ReaddirStep, ClosedirStep DEF Call
<1>6. CASE Call("readdir", ReleaseDirent)
  BY <1>6, ReleaseDirentStep DEF Call
<1>7. ASSUME NEW h \in FH,
             \/ Call("write", Write(h))
             \/ Call("read", Read(h))
             \/ Call("close", Close(h))
             \/ Call("lseek", Lseek(h))
      PROVE  IInv'
  BY <1>7, WriteStep, ReadStep, CloseStep, LseekStep DEF Call
<1>8. CASE UNCHANGED vars
  BY <1>8 DEF vars, IInv, TypeOK, TempFileIsolation, HandleTmpOK
<1>. QED  BY <1>1, <1>2, <1>3, <1>4, <1>5, <1>6, <1>7, <1>8 DEF Next

(* Type correctness of the whole module: every variable keeps its type    *)
(* along every behaviour of the method table, crashes included.            *)
THEOREM TypeCorrect == Spec => []TypeOK
<1>1. Init => IInv
  BY InitIInv
<1>2. IInv /\ [Next]_vars => IInv'
  BY NextIInv
<1>3. IInv => TypeOK
  BY DEF IInv
<1>. QED  BY <1>1, <1>2, <1>3, PTL DEF Spec

(* The temp files of _open and _close: every open transfer context owns a *)
(* temp file that exists, and no two open contexts share one, whatever    *)
(* the interleaving of open, read, write and close on several handles.     *)
THEOREM TempFilesIsolated == Spec => []TempFileIsolation
<1>1. Init => IInv
  BY InitIInv
<1>2. IInv /\ [Next]_vars => IInv'
  BY NextIInv
<1>3. IInv => TempFileIsolation
  BY DEF IInv
<1>. QED  BY <1>1, <1>2, <1>3, PTL DEF Spec

(* The read offset of _read: whatever sequence of open, read, write and   *)
(* close the caller issues on several handles, the offset of an open GET  *)
(* handle never runs past the end of the temp file it reads.               *)
THEOREM ReadOffsetHolds == Spec => []ReadOffsetWithinFile
<1>1. Init => IInv
  BY InitIInv
<1>2. IInv /\ [Next]_vars => IInv'
  BY NextIInv
<1>3. IInv => ReadOffsetWithinFile
  BY DEF IInv, HandleTmpOK, ReadOffsetWithinFile
<1>. QED  BY <1>1, <1>2, <1>3, PTL DEF Spec

=============================================================================
