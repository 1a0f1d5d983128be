------------------------ MODULE OwncloudVioSessionProofs ------------------------
(***************************************************************************)
(* Why a neon call of the owncloud vio module can meet a dead session,    *)
(* for every caller: a NULL dav_session.ctx only in a call that does not  *)
(* connect (_stat, _utimes, vio_module_shutdown) made before anything     *)
(* connected, and a destroyed one only once vio_module_init has run again *)
(* after vio_module_shutdown.  No assumption is made of the caller: the   *)
(* runs call_before_connect and reinit_after_shutdown show both causes.   *)
(*                                                                         *)
(* DeadSessionCause is not inductive: it says nothing of the state the    *)
(* next call finds.  SessionInv adds what the session variables keep:     *)
(*   - once _connected is set, dav_session.ctx is not NULL (dav_connect() *)
(*     stores the session when it sets the flag, and nothing clears it);  *)
(*   - the session is destroyed only by vio_module_shutdown: until the    *)
(*     next vio_module_init the module is shut, and after it inits >= 2;  *)
(*   - the module is shut or initialised only after a vio_module_init;    *)
(*   - an open transfer context was opened by _open, which connected.     *)
(***************************************************************************)
EXTENDS OwncloudVioProofs

SessionInv ==
    /\ DeadSessionCause
    /\ connected => ctx # "null"
    /\ ctx = "freed" => phase = "shut" \/ inits >= 2
    /\ phase # "loaded" => inits >= 1
    /\ \A h \in FH : fh[h].open => connected

LEMMA InitSessionInv == Init => SessionInv
BY DEF Init, SessionInv, DeadSessionCause, ClosedFile

(* A call on a Ready module that uses the session as it is, and dies     *)
(* because it is not live: a NULL session means nothing has connected,   *)
(* a destroyed one that the module was initialised a second time.        *)
LEMMA DeadCrashStep ==
    ASSUME IInv, SessionInv, Ready, ctx # "live", Crash(ctx),
           UNCHANGED <<connected, ctx>>
    PROVE  SessionInv'
<1>1. UNCHANGED <<phase, inits, fh>>
  BY DEF Crash
<1>2. CASE ctx = "null"
  <2>1. ~connected /\ fault' = "null_session"
    BY <1>2 DEF SessionInv, Crash
  <2>. QED  BY <1>1, <1>2, <2>1 DEF SessionInv, DeadSessionCause
<1>3. CASE ctx = "freed"
  <2>1. inits >= 2 /\ fault' = "freed_session"
    BY <1>3 DEF SessionInv, Crash, Ready
  <2>. QED  BY <1>1, <1>3, <2>1 DEF SessionInv, DeadSessionCause
<1>. QED  BY <1>2, <1>3 DEF IInv, TypeOK

(* dav_connect() on a Ready module finds _connected set and a session    *)
(* that is not live: the call that goes on with it dies.                  *)
LEMMA ConnectCrash ==
    ASSUME IInv, SessionInv, Ready, dav_connect,
           SessionAfterConnect # "live", Crash(SessionAfterConnect)
    PROVE  SessionInv'
<1>1. connected
  BY DEF SessionAfterConnect
<1>2. UNCHANGED <<connected, ctx>> /\ SessionAfterConnect = ctx
  BY <1>1 DEF dav_connect, SessionAfterConnect
<1>. QED  BY <1>2, DeadCrashStep

(* dav_connect() whose session is then live: the module is connected on a *)
(* live session.                                                           *)
LEMMA ConnectLive ==
    ASSUME dav_connect, SessionAfterConnect = "live"
    PROVE  connected' = TRUE /\ ctx' = "live"
<1>1. CASE connected
  BY <1>1 DEF dav_connect, SessionAfterConnect
<1>2. CASE ~connected
  BY <1>2 DEF dav_connect, SessionAfterConnect
<1>. QED  BY <1>1, <1>2

(* A call that connected and left the lifecycle alone keeps SessionInv. *)
LEMMA ConnectedStep ==
    ASSUME SessionInv, connected' = TRUE, ctx' = "live",
           phase' = phase, inits' = inits,
           fault' \notin {"null_session", "freed_session"}
    PROVE  SessionInv'
BY DEF SessionInv, DeadSessionCause

(* A call that leaves the session and the lifecycle alone, and opens no *)
(* file handle, keeps SessionInv.                                          *)
LEMMA QuietStep ==
    ASSUME SessionInv, UNCHANGED <<connected, ctx, phase, inits>>,
           fault' \notin {"null_session", "freed_session"},
           \A h \in FH : fh'[h].open => fh[h].open
    PROVE  SessionInv'
BY DEF SessionInv, DeadSessionCause

-----------------------------------------------------------------------------
(* Each action keeps SessionInv. *)

(* vio_module_init counts the load; a session destroyed before it stays  *)
(* destroyed, now with inits >= 2.                                         *)
LEMMA ModuleInitSession ==
    ASSUME IInv, SessionInv, ModuleInit PROVE SessionInv'
<1>1. inits \in Nat /\ inits' = inits + 1
  BY DEF ModuleInit, IInv, TypeOK
<1>2. ctx = "freed" => inits >= 1
  BY <1>1 DEF SessionInv
<1>3. fault' = "none" /\ UNCHANGED <<connected, ctx, fh>>
  BY DEF ModuleInit
<1>. QED
  BY <1>1, <1>2, <1>3 DEF ModuleInit, SessionInv, DeadSessionCause

(* vio_module_shutdown dies on a session that is not live; otherwise it  *)
(* destroys the session and shuts the module.                              *)
LEMMA ModuleShutdownSession ==
    ASSUME IInv, SessionInv, ModuleShutdown PROVE SessionInv'
<1>1. CASE ctx # "live"
  <2>1. Ready /\ Crash(ctx) /\ UNCHANGED <<connected, ctx>>
    BY <1>1 DEF ModuleShutdown
  <2>. QED  BY <1>1, <2>1, DeadCrashStep
<1>2. CASE ctx = "live"
  <2>1. /\ ctx' = "freed" /\ phase' = "shut" /\ fault' = "none"
        /\ UNCHANGED <<inits, connected, fh>>
    BY <1>2 DEF ModuleShutdown, Ready
  <2>2. inits >= 1
    BY DEF ModuleShutdown, Ready, SessionInv
  <2>. QED
    BY <1>2, <2>1, <2>2 DEF SessionInv, DeadSessionCause
<1>. QED  BY <1>1, <1>2

(* The calls that run dav_connect() first: the call dies when the session *)
(* it then uses is not live, and otherwise leaves the lifecycle alone.    *)
LEMMA ConnectingRequestSession ==
    ASSUME IInv, SessionInv, Ready, dav_connect,
           SessionAfterConnect # "live" => Crash(SessionAfterConnect),
           SessionAfterConnect = "live" =>
               /\ phase' = phase /\ inits' = inits
               /\ fault' \notin {"null_session", "freed_session"}
    PROVE  SessionInv'
<1>1. CASE SessionAfterConnect # "live"
  BY <1>1, ConnectCrash
<1>2. CASE SessionAfterConnect = "live"
  BY <1>2, ConnectLive, ConnectedStep
<1>. QED  BY <1>1, <1>2

(* _opendir connects first, and uses the session it connected. *)
LEMMA OpendirSession ==
    ASSUME IInv, SessionInv, NEW p \in Paths, Opendir(p) PROVE SessionInv'
<1>1. PICK d \in DH :
        /\ dav_connect
        /\ IF SessionAfterConnect # "live"
             THEN Crash(SessionAfterConnect)
             ELSE UNCHANGED <<phase, inits, fault>>
  BY DEF Opendir
<1>2. Ready
  BY DEF Opendir
<1>. QED
  BY <1>1, <1>2, ConnectingRequestSession DEF Ready

(* _open and _creat connect first; the open for writing may abort on the *)
(* failure path of the _stat of the parent, which is not a session fault. *)
LEMMA OpenFileSession ==
    ASSUME IInv, SessionInv, NEW p \in Paths, NEW put \in BOOLEAN,
           OpenFile(p, put)
    PROVE  SessionInv'
<1>1. PICK h \in FH, t \in TmpNames :
        /\ dav_connect
        /\ IF SessionAfterConnect # "live"
             THEN Crash(SessionAfterConnect)
             ELSE /\ IF put THEN PutOpen(p, h, t) ELSE GetOpen(p, h, t)
                  /\ UNCHANGED <<phase, inits>>
  BY DEF OpenFile
<1>2. Ready
  BY DEF OpenFile
<1>3. SessionAfterConnect = "live" => fault' \in {fault, "invalid_free"}
  BY <1>1 DEF PutOpen, GetOpen
<1>. QED
  BY <1>1, <1>2, <1>3, ConnectingRequestSession DEF Ready

(* The namespace calls that connect first: mkdir, rmdir, unlink, rename. *)
LEMMA NamespaceSession ==
    ASSUME IInv, SessionInv, Ready, dav_connect,
           IF SessionAfterConnect # "live"
             THEN Crash(SessionAfterConnect)
             ELSE NsUnchanged
    PROVE  SessionInv'
BY ConnectingRequestSession DEF NsUnchanged, Ready

(* _stat does not connect: a PROPFIND it sends on a session that is not   *)
(* live dies.                                                              *)
LEMMA StatSession ==
    ASSUME IInv, SessionInv, NEW p \in Paths, Stat(p)
    PROVE  SessionInv'
<1>1. Ready
  BY DEF Stat
<1>. PICK r \in StatOutcomes(p) :
         IF r.req /\ ctx # "live"
           THEN Crash(ctx) /\ UNCHANGED <<connected, ctx, protocol>>
           ELSE UNCHANGED <<phase, inits, connected, ctx, fh, fault>>
  BY DEF Stat
<1>2. CASE r.req /\ ctx # "live"
  BY <1>1, <1>2, DeadCrashStep
<1>3. CASE ~(r.req /\ ctx # "live")
  BY <1>1, <1>3, QuietStep DEF Ready
<1>. QED  BY <1>2, <1>3

(* _utimes does not connect: its PROPPATCH on a session that is not live *)
(* dies.                                                                   *)
LEMMA UtimesSession ==
    ASSUME IInv, SessionInv, NEW p \in Paths, Utimes(p)
    PROVE  SessionInv'
<1>1. Ready /\ UNCHANGED <<connected, ctx>>
  BY DEF Utimes
<1>2. CASE ctx # "live"
  BY <1>1, <1>2, DeadCrashStep DEF Utimes
<1>3. CASE ctx = "live"
  <2>1. UNCHANGED <<phase, inits, fh, fault>>
    BY <1>3 DEF Utimes, NsUnchanged
  <2>. QED  BY <1>1, <2>1, QuietStep DEF Ready
<1>. QED  BY <1>2, <1>3

(* The directory calls and _write and _lseek touch neither the session *)
(* nor the open flag of a file handle.                                     *)
LEMMA LocalSession ==
    ASSUME SessionInv,
           \/ \E d \in DH : Readdir(d) \/ Closedir(d)
           \/ ReleaseDirent
           \/ \E h \in FH : Write(h) \/ Lseek(h)
    PROVE  SessionInv'
<1>1. /\ UNCHANGED <<connected, ctx, phase, inits, fh, fault>>
      /\ fault = "none"
  BY DEF Readdir, Closedir, ReleaseDirent, Write, Lseek, Ready
<1>. QED
  BY <1>1, QuietStep

(* _read moves the offset of an open handle and leaves it open. *)
LEMMA ReadSession ==
    ASSUME IInv, SessionInv, NEW h \in FH, Read(h) PROVE SessionInv'
<1>1. PICK count \in 1..MaxLen :
        fh' = [fh EXCEPT ![h].fd = "ro",
                         ![h].pos = @ + ReadCount(tmp[fh[h].tmp].data,
                                                  fh[h].pos, count)]
  BY DEF Read
<1>2. fh \in [FH -> FHandle]
  BY DEF IInv, TypeOK
<1>3. \A g \in FH : fh'[g].open = fh[g].open
  BY <1>1, <1>2
<1>4. UNCHANGED <<connected, ctx, phase, inits, fault>> /\ fault = "none"
  BY DEF Read, Ready
<1>. QED
  BY <1>3, <1>4, QuietStep

(* _close of a PUT handle dispatches on the session as it is: it dies on *)
(* a destroyed session (an open handle means _open connected, so the     *)
(* session is not NULL); otherwise the handle is closed.                  *)
LEMMA CloseSession ==
    ASSUME IInv, SessionInv, NEW h \in FH, Close(h) PROVE SessionInv'
<1>0. Ready /\ UNCHANGED <<connected, ctx>>
  BY DEF Close
<1>1. CASE fh[h].method = "PUT" /\ ctx # "live"
  <2>1. Crash(ctx)
    BY <1>1 DEF Close
  <2>. QED  BY <1>0, <1>1, <2>1, DeadCrashStep
<1>2. CASE ~(fh[h].method = "PUT" /\ ctx # "live")
  <2>1. /\ fh' = [fh EXCEPT ![h] = ClosedFile]
        /\ UNCHANGED <<phase, inits, fault>>
    BY <1>2 DEF Close
  <2>2. fh \in [FH -> FHandle]
    BY DEF IInv, TypeOK
  <2>3. \A g \in FH : fh'[g].open => fh[g].open
    BY <2>1, <2>2 DEF ClosedFile
  <2>. QED
    BY <1>0, <2>1, <2>3, QuietStep DEF Ready
<1>. QED  BY <1>1, <1>2

(* Every step of the method table keeps SessionInv. *)
LEMMA NextSession ==
    ASSUME IInv, SessionInv, [Next]_vars PROVE SessionInv'
<1>1. CASE ModuleInit
  BY <1>1, ModuleInitSession
<1>2. CASE ModuleShutdown
  BY <1>2, ModuleShutdownSession
<1>3. ASSUME NEW p \in Paths,
             \/ Call("opendir", Opendir(p))
             \/ Call("stat", Stat(p))
             \/ Call("open", OpenFile(p, FALSE))
             \/ Call("creat", Creat(p))
             \/ Call("mkdir", Mkdir(p))
             \/ Call("rmdir", Rmdir(p))
             \/ Call("unlink", Unlink(p))
             \/ Call("utimes", Utimes(p))
      PROVE  SessionInv'
  <2>1. CASE Opendir(p)
    BY <2>1, OpendirSession
  <2>2. CASE Stat(p)
    BY <2>2, StatSession
  <2>3. CASE OpenFile(p, FALSE) \/ OpenFile(p, TRUE)
    BY <2>3, OpenFileSession
  <2>4. CASE Mkdir(p) \/ Rmdir(p) \/ Unlink(p)
    <3>1. /\ Ready /\ dav_connect
          /\ IF SessionAfterConnect # "live"
               THEN Crash(SessionAfterConnect)
               ELSE NsUnchanged
      BY <2>4 DEF Mkdir, Rmdir, Unlink
    <3>. QED  BY <3>1, NamespaceSession
  <2>5. CASE Utimes(p)
    BY <2>5, UtimesSession
  <2>. QED  BY <1>3, <2>1, <2>2, <2>3, <2>4, <2>5 DEF Call, Creat
<1>4. ASSUME NEW s \in Paths, NEW d \in Paths, Call("rename", Rename(s, d))
      PROVE  SessionInv'
  <2>1. /\ Ready /\ dav_connect
        /\ IF SessionAfterConnect # "live"
             THEN Crash(SessionAfterConnect)
             ELSE NsUnchanged
    BY <1>4 DEF Call, Rename
  <2>. QED  BY <2>1, NamespaceSession
<1>5. ASSUME NEW d \in DH,
             Call("readdir", Readdir(d)) \/ Call("closedir", Closedir(d))
      PROVE  SessionInv'
  BY <1>5, LocalSession DEF Call
<1>6. CASE Call("readdir", ReleaseDirent)
  BY <1>6, LocalSession DEF Call
<1>7. ASSUME NEW h \in FH,
             \/ Call("write", Write(h))
             \/ Call("read", Read(h))
             \/ Call("close", Close(h))
             \/ Call("lseek", Lseek(h))
      PROVE  SessionInv'
  BY <1>7, LocalSession, ReadSession, CloseSession DEF Call
<1>8. CASE UNCHANGED vars
  BY <1>8 DEF vars, SessionInv, DeadSessionCause
<1>. QED  BY <1>1, <1>2, <1>3, <1>4, <1>5, <1>6, <1>7, <1>8 DEF Next

(* For every caller, a neon call meets a NULL session only in _stat,      *)
(* _utimes or vio_module_shutdown called before anything connected, and a *)
(* destroyed session only after vio_module_init ran again following        *)
(* vio_module_shutdown: the calls that connect, and the close of a PUT    *)
(* that _open began, never die on their own account.                       *)
THEOREM DeadSessionCauseHolds == Spec => []DeadSessionCause
<1>1. Init => IInv /\ SessionInv
  BY InitIInv, InitSessionInv
<1>2. IInv /\ SessionInv /\ [Next]_vars => (IInv /\ SessionInv)'
  BY NextIInv, NextSession
<1>3. IInv /\ SessionInv => DeadSessionCause
  BY DEF SessionInv
<1>. QED  BY <1>1, <1>2, <1>3, PTL DEF Spec

=============================================================================
