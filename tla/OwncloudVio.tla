----------------------------- MODULE OwncloudVio -----------------------------
(***************************************************************************)
(* The csync "owncloud" vio module (src/modules/csync_owncloud.c): the     *)
(* filesystem-shaped adapter over a WebDAV server.  One process, one       *)
(* caller (the csync engine), every call synchronous; what interleaves is  *)
(* the caller's calls on several open handles, the process-wide session    *)
(* and stat cache they share, and the state of the remote tree.            *)
(*                                                                         *)
(* The remote server and neon are the environment: a request is answered  *)
(* from the current remote tree, or fails in the transport.                *)
(***************************************************************************)
EXTENDS Integers, Sequences, FiniteSets, DavErrno

CONSTANTS
    Names,       \* path segment names; their < order is strcmp()'s order
    Paths,       \* the remote paths the model has room for (Root and
                 \* the parent of each are in it)
    RootName,    \* c_basename() of the base URL (the root collection)
    Bytes,       \* byte values of file content
    MaxLen,      \* longest file content, in bytes
    FH,          \* slots for open file handles (struct transfer_context)
    DH,          \* slots for open directory handles (struct listdir_context)
    TmpNames,    \* the names mkstemp() can return
    Scheme,      \* scheme of the base URL
    MaxInits,    \* bound on the calls of vio_module_init
    InitTree,    \* the remote tree when the module is loaded
    PutStatuses, \* statuses the server answers a PUT whose parent exists
    NetFails,    \* may a request fail in the transport (NE_CONNECT, NE_TIMEOUT)?
    ShortWrites, \* may I/O on the temp file fail (short write(2) in _write,
                 \* close(2) or the reopen in _close)?
    CallerConnectsFirst, \* csync opens the root directory before it calls
                         \* stat, utimes or the module shutdown
    StatVersion, \* which of the two definitions of _stat the build keeps
    Calls        \* the entry points the caller uses in this instance

Root == <<>>
Parent(p) == SubSeq(p, 1, Len(p) - 1)
Under(q, p) == Len(p) <= Len(q) /\ SubSeq(q, 1, Len(p)) = p
Content == UNION {[1..n -> Bytes] : n \in 0..MaxLen}
Node == [kind : {"none", "dir", "file"}, data : Content]
NoNode == [kind |-> "none", data |-> <<>>]
DirNode == [kind |-> "dir", data |-> <<>>]
FileNode(d) == [kind |-> "file", data |-> d]
NoName == -1     \* _fs.name is NULL
Schemes == {"owncloud", "ownclouds"}

ASSUME ConstantsAssumption ==
    /\ Names \subseteq Nat /\ Names # {}
    /\ Paths \subseteq Seq(Names) /\ IsFiniteSet(Paths) /\ Root \in Paths
    /\ \A p \in Paths \ {Root} : Parent(p) \in Paths
    /\ MaxLen \in Nat
    /\ RootName \in Nat \ Names
    /\ Scheme \in Schemes
    /\ MaxInits \in Nat \ {0}
    /\ IsFiniteSet(TmpNames) /\ IsFiniteSet(FH) /\ IsFiniteSet(DH)
    /\ InitTree \in [Paths -> Node] /\ InitTree[Root] = DirNode
    /\ PutStatuses \subseteq 200..599
    /\ NetFails \in BOOLEAN /\ ShortWrites \in BOOLEAN
    /\ CallerConnectsFirst \in BOOLEAN
    /\ StatVersion \in {1, 2}
    /\ Calls \subseteq {"opendir", "readdir", "closedir", "stat", "open",
                        "creat", "read", "write", "close", "lseek", "mkdir",
                        "rmdir", "unlink", "rename", "utimes"}

(* c_basename() of a path. *)
Base(p) == IF p = Root THEN RootName ELSE p[Len(p)]

(* strcmp() of the unescaped URIs, for paths: lexicographic order, a      *)
(* prefix first.                                                          *)
UriLess(p, q) ==
    \E i \in 0..Len(p) :
        /\ i <= Len(q) /\ SubSeq(p, 1, i) = SubSeq(q, 1, i)
        /\ \/ i = Len(p) /\ i < Len(q)
           \/ i < Len(p) /\ i < Len(q) /\ p[i + 1] < q[i + 1]

-----------------------------------------------------------------------------
(* struct resource, as results() fills it, and the stat fields            *)
(* resourceToFileStat() derives from it.                                  *)
Entry == [uri : Paths, type : {"normal", "collection"}, size : 0..MaxLen]
StatVal == [type : {"regular", "directory", "none"}, size : 0..MaxLen]
NoStat == [type |-> "none", size |-> 0]

(* results(): a collection when the server reports no content length and *)
(* a collection resource type, as it does for a directory; the size is   *)
(* the content length, 0 when none is reported.                          *)
ToEntry(t, q) ==
    [uri  |-> q,
     type |-> IF t[q].kind = "dir" THEN "collection" ELSE "normal",
     size |-> Len(t[q].data)]

resourceToFileStat(e) ==
    [type |-> IF e.type = "collection" THEN "directory" ELSE "regular",
     size |-> e.size]

(* compare_resource() < 0: collections before normal resources, each by  *)
(* URI.  (results() never makes resr_error or resr_reference entries.)   *)
Tier(e) == IF e.type = "collection" THEN 1 ELSE 2
Precedes(e1, e2) ==
    \/ Tier(e1) < Tier(e2)
    \/ Tier(e1) = Tier(e2) /\ UriLess(e1.uri, e2.uri)

(* The head of the sorted list fetch_resource_list() builds. *)
IsFirst(e, S) == e \in S /\ \A o \in S : ~Precedes(o, e)

-----------------------------------------------------------------------------
(* The remote server, answering from its tree t. *)
Exists(t, p) == t[p].kind # "none"
IsDir(t, p) == t[p].kind = "dir"
Children(t, p) == {q \in Paths : q # Root /\ Parent(q) = p /\ Exists(t, q)}

(* The entries of a Depth: 1 PROPFIND on an existing p, minus the target  *)
(* when include_target is 0.                                              *)
Listing(t, p, incl) ==
    {ToEntry(t, q) : q \in Children(t, p) \cup (IF incl THEN {p} ELSE {})}

MkcolStatus(t, p) ==
    CASE Exists(t, p)          -> 405
      [] ~IsDir(t, Parent(p))  -> 409
      [] OTHER                 -> 201

DeleteStatus(t, p) == IF Exists(t, p) THEN 204 ELSE 404
AfterDelete(t, p) == [q \in Paths |-> IF Under(q, p) THEN NoNode ELSE t[q]]

(* MOVE with Overwrite: T; the moved subtree replaces whatever is at d. *)
MoveStatus(t, s, d) ==
    CASE ~Exists(t, s)         -> 404
      [] Under(d, s)           -> 403
      [] Under(s, d)           -> 403
      [] ~IsDir(t, Parent(d))  -> 409
      [] OTHER                 -> 201
MovedFrom(q, s, d) == s \o SubSeq(q, Len(d) + 1, Len(q))
MovedTo(q, s, d) == d \o SubSeq(q, Len(s) + 1, Len(q))
AfterMove(t, s, d) ==
    [q \in Paths |->
        CASE Under(q, d) -> IF MovedFrom(q, s, d) \in Paths
                               THEN t[MovedFrom(q, s, d)] ELSE NoNode
          [] Under(q, s) -> NoNode
          [] OTHER       -> t[q]]
(* Bound of the model: a move whose subtree would not fit in Paths. *)
MoveFits(t, s, d) ==
    \A q \in Paths : Under(q, s) /\ Exists(t, q) => MovedTo(q, s, d) \in Paths

(* PUT: stored when the parent is a collection and p is not one. *)
PutAnswers(t, p) ==
    CASE IsDir(t, p)              -> {405}
      [] ~IsDir(t, Parent(p))     -> {409}
      [] OTHER                    -> PutStatuses
AfterPut(t, p, st, d) ==
    IF StatusClass(st) = 2 THEN [t EXCEPT ![p] = FileNode(d)] ELSE t

(* The transport: a request reaches the server, or fails.  NE_CONNECT    *)
(* fails before the request is sent; NE_TIMEOUT is the 30 s read timeout   *)
(* dav_connect() sets, which also fires when the server has applied the    *)
(* request and its answer is late.                                          *)
NetErrors == IF NetFails THEN {"NE_CONNECT", "NE_TIMEOUT"} ELSE {}
LateErrors == NetErrors \cap {"NE_TIMEOUT"}

-----------------------------------------------------------------------------
VARIABLES
    phase,      \* module lifecycle: "loaded", "inited" (vio_module_init), "shut"
    inits,      \* number of vio_module_init calls so far
    connected,  \* _connected
    ctx,        \* dav_session.ctx: "null", "live", or "freed" by ne_session_destroy
    protocol,   \* the protocol string dav_connect() passed to ne_session_create
    server,     \* the remote tree: [Paths -> Node]
    tmp,        \* local temp files: [TmpNames -> [exists, data]]
    fh,         \* file handles (struct transfer_context)
    dh,         \* directory handles (struct listdir_context)
    fs,         \* the static stat cache _fs
    last,       \* what the last call returned to the caller
    fault       \* "none", or how the process died

vars == <<phase, inits, connected, ctx, protocol, server, tmp, fh, dh, fs,
          last, fault>>

Protocols == {"none", "http", "https", "garbage"}
Ops == {"none", "init", "shutdown", "opendir", "readdir", "closedir", "stat",
        "open", "read", "write", "close(PUT)", "close(GET)", "lseek",
        "mkdir", "rmdir", "unlink", "rename", "utimes"}
Rets == {"ok", "fail", "end", "short"}
Unset == "unset"
NoTmp == "no-tmp"
Faults == {"none", "null_session", "freed_session", "invalid_free"}

FHandle == [open : BOOLEAN, method : {"PUT", "GET"}, path : Paths,
            tmp : TmpNames \cup {NoTmp}, fd : {"none", "rw", "ro"},
            pos : 0..MaxLen]
DHandle == [open : BOOLEAN, target : Paths, rest : SUBSET Entry]
Result == [op : Ops, path : Paths, ret : Rets, err : Errnos \cup {Unset},
           st : StatVal, data : Content]

ClosedFile == [open |-> FALSE, method |-> "GET", path |-> Root, tmp |-> NoTmp,
               fd |-> "none", pos |-> 0]
ClosedDir == [open |-> FALSE, target |-> Root, rest |-> {}]

TypeOK ==
    /\ phase \in {"loaded", "inited", "shut"}
    /\ inits \in 0..MaxInits
    /\ connected \in BOOLEAN
    /\ ctx \in {"null", "live", "freed"}
    /\ protocol \in Protocols
    /\ server \in [Paths -> Node]
    /\ tmp \in [TmpNames -> [exists : BOOLEAN, data : Content]]
    /\ fh \in [FH -> FHandle]
    /\ dh \in [DH -> DHandle]
    /\ fs \in [name : Names \cup {RootName, NoName}, live : BOOLEAN,
               st : StatVal]
    /\ last \in Result
    /\ fault \in Faults

Init ==
    /\ phase = "loaded"
    /\ inits = 0
    /\ connected = FALSE
    /\ ctx = "null"
    /\ protocol = "none"
    /\ server = InitTree
    /\ tmp = [t \in TmpNames |-> [exists |-> FALSE, data |-> <<>>]]
    /\ fh = [h \in FH |-> ClosedFile]
    /\ dh = [d \in DH |-> ClosedDir]
    /\ fs = [name |-> NoName, live |-> FALSE, st |-> NoStat]
    /\ last = [op |-> "none", path |-> Root, ret |-> "ok", err |-> Unset,
               st |-> NoStat, data |-> <<>>]
    /\ fault = "none"

-----------------------------------------------------------------------------
(* Helpers the actions share. *)
Ready == phase = "inited" /\ fault = "none"

(* A call returns r to the caller; err is the errno it set, or Unset. *)
Return(op, p, r, err, st, d) ==
    last' = [op |-> op, path |-> p, ret |-> r, err |-> err, st |-> st,
             data |-> d]
Returns(op, p, r, err) == Return(op, p, r, err, NoStat, <<>>)

(* dav_connect(): scheme "owncloud" gives "http"; for "ownclouds" the     *)
(* test strcmp(uri.scheme, "ownclouds") is 0, no branch is taken and the  *)
(* protocol buffer stays uninitialized; any other scheme gives "https".   *)
ProtocolFor(s) ==
    CASE s = "owncloud"  -> {"http"}
      [] s = "ownclouds" -> {"garbage", "https"}
      [] OTHER           -> {"https"}

(* Mutant: _connected is set although no session was stored. *)
dav_connect_no_session ==
    \/ connected /\ UNCHANGED <<connected, ctx, protocol>>
    \/ /\ ~connected
       /\ connected' = TRUE
       /\ protocol' \in ProtocolFor(Scheme)
       /\ UNCHANGED ctx

dav_connect ==
    \/ connected /\ UNCHANGED <<connected, ctx, protocol>>
    \/ /\ ~connected
       /\ connected' = TRUE
       /\ ctx' = "live"
       /\ protocol' \in ProtocolFor(Scheme)

(* Mutant: the call takes dav_session.ctx as it was before dav_connect(). *)
SessionAfterConnectStale == ctx

(* The session a call that ran dav_connect() then uses. *)
SessionAfterConnect == IF connected THEN ctx ELSE "live"

(* A neon call on a NULL or destroyed session: the process dies. *)
Crash(c) ==
    /\ fault' = IF c = "null" THEN "null_session" ELSE "freed_session"
    /\ UNCHANGED <<phase, inits, server, tmp, fh, dh, fs, last>>

-----------------------------------------------------------------------------
(* vio_module_init: stores the auth callback; the method table is usable. *)
ModuleInit ==
    /\ fault = "none"
    /\ phase \in {"loaded", "shut"}
    /\ inits < MaxInits
    /\ phase' = "inited"
    /\ inits' = inits + 1
    /\ Returns("init", Root, "ok", Unset)
    /\ UNCHANGED <<connected, ctx, protocol, server, tmp, fh, dh, fs, fault>>

(* vio_module_shutdown: frees the credentials and destroys the session;  *)
(* _connected is left as it is.  csync shuts the module down with no      *)
(* handle open.                                                            *)
ModuleShutdown ==
    /\ Ready
    /\ CallerConnectsFirst => connected
    /\ \A h \in FH : ~fh[h].open
    /\ \A d \in DH : ~dh[d].open
    /\ IF ctx # "live"
         THEN Crash(ctx) /\ UNCHANGED <<connected, ctx, protocol>>
         ELSE /\ ctx' = "freed"
              /\ phase' = "shut"
              /\ Returns("shutdown", Root, "ok", Unset)
              /\ UNCHANGED <<inits, connected, protocol, server, tmp, fh, dh,
                             fs, fault>>

-----------------------------------------------------------------------------
(* _opendir: PROPFIND Depth 1 without the target; on failure errno comes  *)
(* from the session's error text.                                         *)
Opendir(p) ==
    /\ Ready
    /\ \E d \in DH :
        /\ ~dh[d].open
        /\ dav_connect
        /\ IF SessionAfterConnect # "live"
             THEN Crash(SessionAfterConnect)
             ELSE /\ \/ /\ NetErrors # {}
                        /\ Returns("opendir", p, "fail",
                                   ne_session_error_errno(NoStatus))
                        /\ UNCHANGED dh
                     \/ /\ ~Exists(server, p)
                        /\ Returns("opendir", p, "fail",
                                   ne_session_error_errno(404))
                        /\ UNCHANGED dh
                     \/ /\ Exists(server, p)
                        /\ dh' = [dh EXCEPT ![d] =
                                    [open |-> TRUE, target |-> p,
                                     rest |-> Listing(server, p, FALSE)]]
                        /\ Returns("opendir", p, "ok", Unset)
                  /\ UNCHANGED <<phase, inits, server, tmp, fh, fs, fault>>

(* _readdir: the entry at the cursor, which also overwrites the stat cache *)
(* _fs; NULL past the last entry.                                         *)
Readdir(d) ==
    /\ Ready
    /\ dh[d].open
    /\ \/ /\ dh[d].rest = {}
          /\ Returns("readdir", dh[d].target, "end", Unset)
          /\ UNCHANGED <<dh, fs>>
       \/ \E e \in dh[d].rest :
            /\ IsFirst(e, dh[d].rest)
            /\ dh' = [dh EXCEPT ![d].rest = @ \ {e}]
            /\ fs' = [name |-> Base(e.uri), live |-> TRUE,
                      st |-> resourceToFileStat(e)]
            /\ Returns("readdir", e.uri, "ok", Unset)
    /\ UNCHANGED <<phase, inits, connected, ctx, protocol, server, tmp, fh,
                   fault>>

(* The caller destroys the stat struct readdir returned: _fs.name, which  *)
(* points into it, dangles.                                               *)
ReleaseDirent ==
    /\ Ready
    /\ fs.live
    /\ fs' = [fs EXCEPT !.live = FALSE]
    /\ UNCHANGED <<phase, inits, connected, ctx, protocol, server, tmp, fh,
                   dh, last, fault>>

(* _closedir: frees the list and the handle. *)
Closedir(d) ==
    /\ Ready
    /\ dh[d].open
    /\ dh' = [dh EXCEPT ![d] = ClosedDir]
    /\ Returns("closedir", dh[d].target, "ok", Unset)
    /\ UNCHANGED <<phase, inits, connected, ctx, protocol, server, tmp, fh,
                   fs, fault>>

-----------------------------------------------------------------------------
(* _stat.  The file defines it twice and does not compile as it stands;  *)
(* StatVersion says which definition the build keeps.  Both: when the    *)
(* basename equals _fs.name the cached fields answer; once the name       *)
(* dangles, strcmp() reads freed memory and may or may not match.         *)
(* Otherwise a PROPFIND with the target included, on the session as it is *)
(* (no dav_connect), answered by the head of the sorted list.  On failure *)
(* the first sets errno from the session's error text, the second from    *)
(* ne_error_to_errno(rc) and also destroys the caller's buffer.           *)
CacheMatches(p) ==
    CASE fs.name = NoName -> {FALSE}
      [] fs.live          -> {fs.name = Base(p)}
      [] OTHER            -> BOOLEAN

StatError(rc, st) ==
    IF StatVersion = 1 THEN ne_session_error_errno(st) ELSE ne_error_to_errno(rc)
StatFailed(rc, st) == [ok |-> FALSE, st |-> NoStat, err |-> StatError(rc, st),
                       req |-> TRUE]
StatMiss(p) ==
    {StatFailed(rc, NoStatus) : rc \in NetErrors} \cup
    IF Exists(server, p)
      THEN {[ok |-> TRUE, st |-> resourceToFileStat(e), err |-> Unset,
             req |-> TRUE] : e \in {e \in Listing(server, p, TRUE) :
                                    IsFirst(e, Listing(server, p, TRUE))}}
      ELSE {StatFailed("NE_ERROR", 404)}
StatHit == [ok |-> TRUE, st |-> fs.st, err |-> Unset, req |-> FALSE]
StatOutcomes(p) == UNION {IF m THEN {StatHit} ELSE StatMiss(p) :
                          m \in CacheMatches(p)}

Stat(p) ==
    /\ Ready
    /\ CallerConnectsFirst => connected
    /\ \E r \in StatOutcomes(p) :
         IF r.req /\ ctx # "live"
           THEN Crash(ctx) /\ UNCHANGED <<connected, ctx, protocol>>
           ELSE /\ Return("stat", p, IF r.ok THEN "ok" ELSE "fail", r.err,
                          r.st, <<>>)
                /\ UNCHANGED <<phase, inits, connected, ctx, protocol, server,
                               tmp, fh, dh, fs, fault>>

-----------------------------------------------------------------------------
(* _open for writing (a write, read-write or create flag): _stat() of the *)
(* parent.  When it fails, the second _stat destroys the caller's buffer, *)
(* here the address of a local struct stat, and free() aborts; with the   *)
(* first, _open fails with ENOENT.  Then mkstemp() and                     *)
(* ne_begin_request() of a PUT, which sends the request with the empty    *)
(* body it has so far.  When the begin fails the context is freed but the *)
(* temp file stays, and errno is not set.                                  *)
PutOpen(p, h, t) ==
    \E r \in StatOutcomes(Parent(p)) :
        \/ /\ ~r.ok
           /\ IF StatVersion = 2
                THEN fault' = "invalid_free" /\ UNCHANGED last
                ELSE Returns("open", p, "fail", "ENOENT") /\ UNCHANGED fault
           /\ UNCHANGED <<server, tmp, fh>>
        \/ /\ r.ok
           /\ tmp' = [tmp EXCEPT ![t] = [exists |-> TRUE, data |-> <<>>]]
           /\ \/ /\ NetErrors # {}
                 /\ Returns("open", p, "fail", Unset)
                 /\ UNCHANGED <<server, fh>>
              \/ \E st \in PutAnswers(server, p) :
                   /\ server' = AfterPut(server, p, st, <<>>)
                   /\ fh' = [fh EXCEPT ![h] =
                               [open |-> TRUE, method |-> "PUT", path |-> p,
                                tmp |-> t, fd |-> "rw", pos |-> 0]]
                   /\ Returns("open", p, "ok", Unset)
           /\ UNCHANGED fault

(* _open for reading: mkstemp(), ne_get() of the whole file into it, and  *)
(* close(fd).  A failed download frees the context, leaves the temp file  *)
(* and does not set errno.                                                 *)
GetOpen(p, h, t) ==
    /\ \/ /\ NetErrors # {} \/ server[p].kind # "file"
          /\ tmp' = [tmp EXCEPT ![t] = [exists |-> TRUE, data |-> <<>>]]
          /\ Returns("open", p, "fail", Unset)
          /\ UNCHANGED fh
       \/ /\ server[p].kind = "file"
          /\ tmp' = [tmp EXCEPT ![t] = [exists |-> TRUE,
                                        data |-> server[p].data]]
          /\ fh' = [fh EXCEPT ![h] =
                      [open |-> TRUE, method |-> "GET", path |-> p, tmp |-> t,
                       fd |-> "none", pos |-> 0]]
          /\ Returns("open", p, "ok", Unset)
    /\ UNCHANGED <<server, fault>>

(* Mutant: the temp file name is not unique (a fixed name, no mkstemp()). *)
OpenFileReusesTemp(p, put) ==
    /\ Ready
    /\ p # Root
    /\ \E h \in FH, t \in TmpNames :
        /\ ~fh[h].open
        /\ dav_connect
        /\ IF SessionAfterConnect # "live"
             THEN Crash(SessionAfterConnect)
             ELSE /\ IF put THEN PutOpen(p, h, t) ELSE GetOpen(p, h, t)
                  /\ UNCHANGED <<phase, inits, dh, fs>>

(* _open(durl, flags): dav_connect() (its result unchecked), then the PUT *)
(* or GET path.  mkstemp() returns a name no file has.                    *)
OpenFile(p, put) ==
    /\ Ready
    /\ p # Root
    /\ \E h \in FH, t \in TmpNames :
        /\ ~fh[h].open
        /\ ~tmp[t].exists
        /\ dav_connect
        /\ IF SessionAfterConnect # "live"
             THEN Crash(SessionAfterConnect)
             ELSE /\ IF put THEN PutOpen(p, h, t) ELSE GetOpen(p, h, t)
                  /\ UNCHANGED <<phase, inits, dh, fs>>

(* _creat: _open with O_CREAT|O_WRONLY|O_TRUNC, then a write of 0 bytes,  *)
(* which changes nothing.                                                  *)
Creat(p) == OpenFile(p, TRUE)

(* _write on a PUT handle: write(2) to the temp file; a short count is    *)
(* returned to the caller, only logged here.                               *)
Write(h) ==
    /\ Ready
    /\ fh[h].open /\ fh[h].method = "PUT"
    /\ \E buf \in Content, k \in 0..MaxLen :
        /\ Len(buf) >= 1
        /\ Len(tmp[fh[h].tmp].data) + Len(buf) <= MaxLen
        /\ k \in IF ShortWrites THEN 0..Len(buf) ELSE {Len(buf)}
        /\ tmp' = [tmp EXCEPT ![fh[h].tmp].data = @ \o SubSeq(buf, 1, k)]
        /\ Returns("write", fh[h].path, IF k = Len(buf) THEN "ok" ELSE "short",
                   Unset)
    /\ UNCHANGED <<phase, inits, connected, ctx, protocol, server, fh, dh, fs,
                   fault>>

(* Mutant: read(2) is taken to return count bytes, whatever is left. *)
ReadCountUnclamped(d, pos, count) == count

(* read(2) of count bytes at offset pos of a file holding d: what is left, *)
(* at most count.                                                          *)
ReadCount(d, pos, count) == IF count < Len(d) - pos THEN count ELSE Len(d) - pos

(* _read on a GET handle: opens the downloaded temp file on the first    *)
(* call, then read(2) of up to count bytes.                                *)
Read(h) ==
    /\ Ready
    /\ fh[h].open /\ fh[h].method = "GET"
    /\ \E count \in 1..MaxLen :
        LET d == tmp[fh[h].tmp].data
            k == ReadCount(d, fh[h].pos, count)
        IN  /\ fh' = [fh EXCEPT ![h].fd = "ro", ![h].pos = @ + k]
            /\ Returns("read", fh[h].path, IF k = 0 THEN "end" ELSE "ok", Unset)
    /\ UNCHANGED <<phase, inits, connected, ctx, protocol, server, tmp, dh,
                   fs, fault>>

(* unlink(tmpFileName) in _close. *)
UnlinkTemp(t) == tmp' = [tmp EXCEPT ![t] = [exists |-> FALSE, data |-> <<>>]]

(* _close.  PUT: the write descriptor is closed and the temp file        *)
(* reopened to read; it becomes the body of the request begun at open,    *)
(* and ne_request_dispatch() sends it.  When the reopen fails nothing is  *)
(* sent and -1 is returned; when close(2) fails the PUT is still sent but *)
(* -1 is returned.  A transport error returns -1 (the errno it computes   *)
(* is dropped), a timeout even after the server stored the body; any HTTP *)
(* status returns 0.  GET: close the descriptor.  Both unlink the temp    *)
(* file.  (A failing fstat(2) of a file just opened is left out.)         *)
Close(h) ==
    /\ Ready
    /\ fh[h].open
    /\ LET p == fh[h].path
           t == fh[h].tmp
       IN
       /\ IF fh[h].method = "PUT" /\ ctx # "live"
            THEN Crash(ctx)
            ELSE
            /\ UnlinkTemp(t)
            /\ fh' = [fh EXCEPT ![h] = ClosedFile]
            /\ \/ /\ fh[h].method = "GET"
                  /\ Returns("close(GET)", p, "ok", Unset)
                  /\ UNCHANGED server
               \/ /\ fh[h].method = "PUT"
                  /\ ShortWrites
                  /\ Returns("close(PUT)", p, "fail", Unset)
                  /\ UNCHANGED server
               \/ /\ fh[h].method = "PUT"
                  /\ NetErrors # {}
                  /\ Return("close(PUT)", p, "fail", Unset, NoStat,
                            tmp[t].data)
                  /\ UNCHANGED server
               \/ /\ fh[h].method = "PUT"
                  /\ LateErrors # {} \/ ShortWrites
                  /\ \E st \in PutAnswers(server, p) :
                       server' = AfterPut(server, p, st, tmp[t].data)
                  /\ Return("close(PUT)", p, "fail", Unset, NoStat,
                            tmp[t].data)
               \/ /\ fh[h].method = "PUT"
                  /\ \E st \in PutAnswers(server, p) :
                       server' = AfterPut(server, p, st, tmp[t].data)
                  /\ Return("close(PUT)", p, "ok", Unset, NoStat, tmp[t].data)
            /\ UNCHANGED <<phase, inits, dh, fs, fault>>
       /\ UNCHANGED <<connected, ctx, protocol>>

(* _lseek: not supported, -1 with errno untouched. *)
Lseek(h) ==
    /\ Ready
    /\ fh[h].open
    /\ Returns("lseek", fh[h].path, "fail", Unset)
    /\ UNCHANGED <<phase, inits, connected, ctx, protocol, server, tmp, fh,
                   dh, fs, fault>>

-----------------------------------------------------------------------------
(* The namespace calls.  Each runs dav_connect() and one neon call;       *)
(* neon's ne_mkcol, ne_delete, ne_move and ne_proppatch return NE_ERROR   *)
(* for a non-2xx status, and errno = ne_error_to_errno(rc).                *)
NsUnchanged == UNCHANGED <<phase, inits, tmp, fh, dh, fs, fault>>

(* One request on the connected session: a transport error, or the status *)
(* st with the tree after, when it is 2xx, and the call's return values.  *)
(* A timeout may come after the server applied the request.               *)
Request(op, p, st, after, failRet) ==
    \/ \E rc \in NetErrors :
         /\ Returns(op, p, failRet, ne_error_to_errno(rc))
         /\ UNCHANGED server
    \/ \E rc \in LateErrors :
         /\ StatusClass(st) = 2
         /\ server' = after
         /\ Returns(op, p, failRet, ne_error_to_errno(rc))
    \/ /\ StatusClass(st) = 2
       /\ server' = after
       /\ Returns(op, p, "ok", Unset)
    \/ /\ StatusClass(st) # 2
       /\ Returns(op, p, failRet, ne_error_to_errno("NE_ERROR"))
       /\ UNCHANGED server

(* _mkdir: MKCOL on the path as given. *)
Mkdir(p) ==
    /\ Ready
    /\ p # Root
    /\ dav_connect
    /\ IF SessionAfterConnect # "live"
         THEN Crash(SessionAfterConnect)
         ELSE /\ Request("mkdir", p, MkcolStatus(server, p),
                         [server EXCEPT ![p] = DirNode], "fail")
              /\ NsUnchanged

(* _rmdir: DELETE, which removes the whole subtree. *)
Rmdir(p) ==
    /\ Ready
    /\ p # Root
    /\ dav_connect
    /\ IF SessionAfterConnect # "live"
         THEN Crash(SessionAfterConnect)
         ELSE /\ Request("rmdir", p, DeleteStatus(server, p),
                         AfterDelete(server, p), "fail")
              /\ NsUnchanged

(* _unlink: DELETE; errno is set on failure, but it returns 0 always. *)
Unlink(p) ==
    /\ Ready
    /\ p # Root
    /\ dav_connect
    /\ IF SessionAfterConnect # "live"
         THEN Crash(SessionAfterConnect)
         ELSE /\ Request("unlink", p, DeleteStatus(server, p),
                         AfterDelete(server, p), "ok")
              /\ NsUnchanged

(* _rename: MOVE with overwrite. *)
Rename(s, d) ==
    /\ Ready
    /\ s # Root /\ d # Root
    /\ MoveFits(server, s, d)
    /\ dav_connect
    /\ IF SessionAfterConnect # "live"
         THEN Crash(SessionAfterConnect)
         ELSE /\ Request("rename", s, MoveStatus(server, s, d),
                         AfterMove(server, s, d), "fail")
              /\ NsUnchanged

(* _utimes: PROPPATCH of a "lastmodified" property in no namespace, on    *)
(* the session as it is (no dav_connect).  The property is not one the    *)
(* PROPFIND of a listing asks for, so no tree state changes.               *)
Utimes(p) ==
    /\ Ready
    /\ CallerConnectsFirst => connected
    /\ IF ctx # "live"
         THEN Crash(ctx)
         ELSE /\ Request("utimes", p, IF Exists(server, p) THEN 207 ELSE 404,
                         server, "fail")
              /\ NsUnchanged
    /\ UNCHANGED <<connected, ctx, protocol>>

-----------------------------------------------------------------------------
(* The caller calls an entry point of the method table, among Calls. *)
Call(name, A) == name \in Calls /\ A

Next ==
    \/ ModuleInit
    \/ ModuleShutdown
    \/ \E p \in Paths :
         \/ Call("opendir", Opendir(p))
         \/ Call("stat", Stat(p))
         \/ Call("open", OpenFile(p, FALSE))
         \/ Call("creat", Creat(p))
         \/ Call("mkdir", Mkdir(p))
         \/ Call("rmdir", Rmdir(p))
         \/ Call("unlink", Unlink(p))
         \/ Call("utimes", Utimes(p))
    \/ \E s, d \in Paths : Call("rename", Rename(s, d))
    \/ \E d \in DH : Call("readdir", Readdir(d)) \/ Call("closedir", Closedir(d))
    \/ Call("readdir", ReleaseDirent)
    \/ \E h \in FH :
         \/ Call("write", Write(h))
         \/ Call("read", Read(h))
         \/ Call("close", Close(h))
         \/ Call("lseek", Lseek(h))

Spec == Init /\ [][Next]_vars

-----------------------------------------------------------------------------
(***************************************************************************)
(* Properties.                                                             *)
(***************************************************************************)

(* No neon call is made on a session that was never created or that       *)
(* vio_module_shutdown destroyed (dav_connect trusts _connected, and       *)
(* _stat and _utimes do not connect at all).                               *)
NoRequestOnDeadSession == fault \notin {"null_session", "freed_session"}

(* Every open file handle owns a temp file that exists, and no two open   *)
(* handles share one: what a PUT sends and a read returns is that         *)
(* handle's data only (mkstemp() in _open, unlink() in _close).           *)
TempFileIsolation ==
    \A h \in FH : fh[h].open =>
        /\ tmp[fh[h].tmp].exists
        /\ \A g \in FH \ {h} : fh[g].open => fh[g].tmp # fh[h].tmp

(* The offset _read has reached on an open GET handle never passes the   *)
(* end of that handle's temp file, whatever the opens, writes and closes  *)
(* of the other handles did to the temp files in between (read(2) in      *)
(* _read returns at most what is left).                                   *)
ReadOffsetWithinFile ==
    \A h \in FH : fh[h].open /\ fh[h].method = "GET" =>
        fh[h].pos <= Len(tmp[fh[h].tmp].data)

(* A neon call meets a NULL session only in a call that does not connect *)
(* (_stat, _utimes or the shutdown) made before anything connected, and a *)
(* destroyed one only after vio_module_init ran again following           *)
(* vio_module_shutdown: the calls that run dav_connect(), and the close   *)
(* of a PUT that _open began, always find the session live.               *)
DeadSessionCause ==
    /\ fault = "null_session" => ~connected
    /\ fault = "freed_session" => inits >= 2

(* The spec's stat cache (section 3) must never be trusted across a       *)
(* delete or rename of the same name without a listing in between: a stat *)
(* that comes right after a call which left its path missing reports it   *)
(* missing.  _unlink, _rmdir and _rename never touch _fs.                  *)
StatAfterDeleteNotCached ==
    [][last.op \in {"unlink", "rmdir", "rename"} /\ ~Exists(server, last.path)
       /\ last'.op = "stat" /\ last'.path = last.path
         => last'.ret = "fail"]_vars

(* The spec's round trip: a close of a write handle that reports success  *)
(* has stored what was written (_close requires a 2xx status).             *)
UploadCommitted ==
    last.op = "close(PUT)" /\ last.ret = "ok" =>
        server[last.path] = FileNode(last.data)

(* An unlink that reports success has removed the resource. *)
UnlinkEffective ==
    last.op = "unlink" /\ last.ret = "ok" => ~Exists(server, last.path)

(* The spec's cleanup guarantee: every temp file on disk belongs to an    *)
(* open handle; none outlives the handle on any exit path of _open.        *)
NoOrphanTempFile ==
    \A t \in TmpNames : tmp[t].exists => \E h \in FH : fh[h].open /\ fh[h].tmp = t

(* dav_connect maps the secure scheme to https and the plain one to http. *)
SchemeSelectsProtocol ==
    connected =>
        protocol = IF Scheme = "ownclouds" THEN "https" ELSE "http"

(* The server's tree changes only through a call that asks for a change   *)
(* (mkdir, rmdir, unlink, rename, or the close that commits an upload);   *)
(* an open for writing only begins the upload.                             *)
ServerChangesOnlyByCommit ==
    [][server' # server =>
         last'.op \in {"close(PUT)", "mkdir", "rmdir", "unlink", "rename"}]_vars

(* An open for writing below a missing directory fails with ENOENT         *)
(* instead of killing the process (the _stat of the parent frees the       *)
(* caller's stack buffer on its failure path).                             *)
OpenMissingParentFails == fault # "invalid_free"
=============================================================================
