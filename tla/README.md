# TLA+ models of the csync owncloud vio module

This directory holds TLA+ models of `src/modules/csync_owncloud.c`. That file is
csync's "owncloud" vio module: it makes a WebDAV server look like a local file
system, through the method table `_method` that csync calls. The repository's other
source file is `src/unnamed/part_000`, a Qt Linguist translation catalogue. It
contains interface strings only and has no behaviour to model.

## The system

The module is a single C file, used by one caller (the csync engine) through
synchronous calls. It has these parts:

| Part | Code | What it does |
|---|---|---|
| Transport session | `dav_connect`, `dav_session`, `_connected` (275–346) | Creates one neon session, on first use. |
| Status translator | `ne_session_error_errno`, `ne_error_to_errno` (134–231) | Turns HTTP statuses and neon codes into errno values. |
| Resource catalog builder | `results`, `compare_resource`, `fetch_resource_list`, `resourceToFileStat` (352–535), with `_opendir`, `_readdir` and the PROPFIND of `_stat` | Turns PROPFIND answers into a sorted list of resources, which `_readdir` walks and `_stat` takes the head of. |
| Stat cache and stat | `_fs`, `_readdir`, the two definitions of `_stat` (540–630, 945–974, 1045–1131) | `_readdir` fills the one-slot cache; `_stat` answers from it when the basename matches. |
| Transfer context | `_open`, `_creat`, `_write`, `_read`, `_close`, `_lseek` (632–890) | One temp file per handle. A PUT is begun at open and dispatched at close; a GET downloads at open. |
| Namespace operations | `_mkdir`, `_rmdir`, `_unlink`, `_rename`, `_utimes` (976–1238) | One request each. |
| Module lifecycle | `vio_module_init`, `vio_module_shutdown` (1261–1281) | Stores the auth callback; destroys the session. |

The parts interact through process-wide state: the session (`dav_session.ctx`,
`_connected`) and the stat cache `_fs`. They also share the remote tree and the local
temp files. Several file and directory handles can be open at once. The caller
interleaves its calls on them, and that interleaving is the concurrency this code
has. It has no threads.

## Modules

- **`DavErrno.tla`**: the status translator. It has one operator per function, case
  by case. `NoStatus` is an error text that starts with no digits; `strtol` then
  consumes nothing and the code answers `EIO`.
- **`OwncloudVio.tla`**: the whole vio module, with the server and neon as its
  environment.
  - *State.* `phase` and `inits` are the module lifecycle. `connected`, `ctx` and
    `protocol` are `_connected`, `dav_session.ctx` (null, live or freed) and the
    protocol string passed to `ne_session_create`. `server` is the remote tree.
    `tmp` holds the local temp files. `fh` holds the transfer contexts, `dh` the
    listdir contexts and `fs` the `_fs` cache. `last` is what the last call
    returned, with its errno. `fault` records how the process died: a neon call on a
    NULL or destroyed session, or `free()` of a stack buffer.
  - *Actions.* There is one action per entry point (`Opendir`, `Readdir`,
    `Closedir`, `Stat`, `OpenFile`/`Creat`, `Write`, `Read`, `Close`, `Lseek`,
    `Mkdir`, `Rmdir`, `Unlink`, `Rename`, `Utimes`, `ModuleInit`,
    `ModuleShutdown`). `ReleaseDirent` is the caller destroying the stat struct
    that `_readdir` returned, which leaves `_fs.name` dangling.
  - Each action models the whole function: the `dav_connect` it runs (or does not
    run), the request, the neon error paths, and the errno it sets.
  - *Wrapping.* `Call(name, A)` lets an instance restrict the entry points the
    caller uses (the constant `Calls`). This only splits the state space; every
    entry point is used by some run.
- **`MC_OwncloudVio.tla`**: the model values for TLC:
  - two names;
  - four paths: the root, `/1` (a directory), `/2` (a file holding one byte) and
    `/1/2` (an empty file).

  `/2` and `/1/2` share a basename, so the basename-keyed cache can confuse them.
- **`OwncloudVioProofs.tla`**: the TLAPS proofs about `OwncloudVio`: types, temp
  files and the read offset.
- **`OwncloudVioSessionProofs.tla`**: the TLAPS proof of when a neon call can meet
  a dead session, for every caller.
- **`ResourceList.tla`**: one listdir context, step by step.
  - *State.* `include` is `include_target` (0 for `_opendir`, 1 for `_stat`).
    `pending` holds the responses of the multistatus body not yet parsed. `list`
    is `fetchCtx->list` as a sequence. `cur` is `currResource` as an index
    (NULL once it is past the end). `stage` says whether `ne_simple_propfind` is
    still running, returned `NE_OK`, or failed. `yielded` is what the last
    `_readdir` returned.
  - *Actions.* `Results(r)` is one call of `results()`. It skips the target unless
    `include_target` is set. Otherwise it converts the response (`ToResource`:
    collection when there is no content length and the type is a collection;
    size 0 when `strtol` leaves characters over) and splices it in before the
    first element `current` with `compare_resource(current, newres) >= 0`
    (`InsertPos`). `PropfindDone` is `ne_simple_propfind` returning `NE_OK`, after
    which `fetch_resource_list` and `_opendir` set `currResource` to the head.
    `PropfindFails` is a transport failure part way through the body.
    `Readdir` is `_readdir`.
  - *Environment.* The server's Depth 1 answer is chosen in `Init` (`Bodies`).
    For a file it is the target alone. For a collection it is the target with
    any set of members, each reported once, a collection without a content
    length. The responses arrive in any order.
- **`Catalog.tla`**: what a listing promises, with no list in it. It holds a
  set of collected resources and a set still to hand out. `Receive` collects,
  `Finish` and `Fail` end the PROPFIND, `HandOut` yields the least remaining
  resource (errors, then collections, then normal resources, each by URI), and
  `Exhausted` is `_readdir` returning NULL. `ResourceList` refines it through
  `Cat == INSTANCE Catalog WITH got <- ToSet(list), rest <- ...`: the collected
  set is the set of the list's elements, and the remaining set is the list from
  `currResource` on.
- **`MC_ResourceList.tla`**: the URIs 0..4 with target 0 (strcmp order is `<`
  on the integers, and the target, a prefix of its members' URIs, sorts first).
- **`ResourceListProofs.tla`**: the TLAPS proofs about `ResourceList`.

### Modelling decisions, and why

- **Two definitions of `_stat`.** The file defines `_stat` twice (540 and 1045), so
  as it stands it does not compile: a build keeps one of them. The constant
  `StatVersion` chooses which. The two differ only on a failing PROPFIND. The first
  sets `errno = ne_session_error_errno(ctx)` and leaves the caller's buffer alone
  (the destroy at 602 is commented out). The second sets
  `errno = ne_error_to_errno(rc)` and destroys the buffer (1103), which for the
  stack buffer of `_open` is an invalid `free()`. `vio_dirs` runs the first, and
  every other run the second.
- **The catalog is a set in `OwncloudVio`.** There a listing is the set of
  entries `results()` builds, with type and size. `_readdir` yields the least
  remaining entry under `compare_resource` (`Precedes`: collections first, then
  `strcmp` of the URIs). `ResourceList` models the linked list and its
  insertion loop step by step. The refinement to `Catalog`, checked by TLC and
  proved by TLAPS, shows that walking the list yields that same sequence.
- **`NE_ERROR` becomes errno 0.** `ne_error_to_errno` maps neon's generic error,
  which neon returns for every non-2xx status, to 0. So a failed MKCOL returns -1
  with errno 0. The spec states this mapping itself (§4.4) and only raises it as an
  open question, so the models keep it as written and no run checks it.
- **`result_count` is left out.** `results()` increments it and nothing reads it.
  `resr_reference` is never created, and no resource is ever an error.
- **neon.** `ne_simple_propfind`, `ne_mkcol`, `ne_delete`, `ne_move` and
  `ne_proppatch` return `NE_ERROR` for a non-2xx status. `ne_begin_request`,
  `ne_request_dispatch` and `ne_get` report transport failures. The first two
  return `NE_OK` whatever the status; `ne_get` also fails on a non-2xx status. The
  transport failures modelled (the `NetFails` switch) are `NE_CONNECT`, which
  leaves the server unchanged, and `NE_TIMEOUT`. `NE_TIMEOUT` is the 30 s read
  timeout that `dav_connect` sets, and it also fires after the server has applied
  a DELETE, MKCOL, MOVE, PROPPATCH or the PUT of `_close` (`LateErrors`). `ne_begin_request` sends the request line and the body it
  has at that moment, which at `_open` is empty. The server is therefore written at
  open.
- **Undefined behaviour is a nondeterministic choice.**
  - For the `ownclouds` scheme `protocol[]` is never written; the model reads it as
    garbage or "https".
  - The `strcmp` in `_stat` on a dangling `_fs.name` may match or not.
- **Caller discipline is a constant.** `CallerConnectsFirst` says that csync opens
  the root directory before it calls stat, utimes or shutdown. `vio_dirs` and
  `call_before_connect` run without it: then the very first call can be a
  `_stat`, which never calls `dav_connect` and so runs its PROPFIND on a NULL
  session. Every run has the caller close every handle before shutdown.
- **Local temp-file failures.** The constant `ShortWrites` lets I/O on a temp file
  fail: a short `write(2)` in `_write`, and in `_close` a failing `close(2)` of the
  write descriptor (the PUT is still sent, and -1 returned) or a failing reopen
  (nothing is sent). A failing `fstat(2)` right after a successful open is left
  out. The `NULL` handle test of `_close` (792) is not modelled: handles are the
  ones `_open` returned.
- **Data is abstract.** Names are small integers and content is a sequence over
  one byte value. Mtimes, permissions (`_stat_perms`) and URL escaping are left
  out: no property depends on them.

## Runs

No run assumes fairness, and no property is a liveness property. Each call
blocks and returns, and the code schedules nothing on its own: what happens next
is the caller's choice. Deadlock checking is off because a caller may stop at any
point, and because a crashed process stops for good.

| Run | Expect | Checks | Shows |
|---|---|---|---|
| `vio_dirs` | pass | `TypeOK`, `DeadSessionCause` | Listing, stat, namespace calls and the lifecycle, with transport failures, the first `_stat`, a caller that may stat before connecting and a module loaded twice. Every variable stays typed. A neon call meets a NULL session only before anything connected, and a destroyed one only after a second `vio_module_init`. |
| `vio_files` | pass | `NoRequestOnDeadSession`, `TempFileIsolation`, `ReadOffsetWithinFile` | Two handles with two temp names, interleaving open, creat, read, write, close and lseek, with transport and temp-file failures. No call uses a dead session. Every open handle owns its own existing temp file, and a GET handle's read offset stays within it. |
| `stat_cache_stale` | violation | `StatAfterDeleteNotCached` | Opendir and readdir fill `_fs`; an `_unlink` or `_rmdir` removes the path on the server; the next `_stat` of it answers from `_fs` that it exists. |
| `upload_status_ignored` | violation | `UploadCommitted` | `_close` returns 0 after the server answered 507. |
| `unlink_reports_success` | violation | `UnlinkEffective` | `_unlink` returns 0 after a failed DELETE. |
| `temp_leak` | violation | `NoOrphanTempFile` | A failed download in `_open` leaves its temp file behind. |
| `reinit_after_shutdown` | violation | `NoRequestOnDeadSession` | After shutdown and re-init, `_connected` is still set, so `_opendir` uses the destroyed session. |
| `call_before_connect` | violation | `NoRequestOnDeadSession` | A caller that shuts down (or stats) before anything connected makes a neon call on the NULL session. |
| `ownclouds_protocol` | violation | `SchemeSelectsProtocol` | The inverted `strcmp` leaves the protocol uninitialized for `ownclouds`. |
| `open_truncates_remote` | violation | `ServerChangesOnlyByCommit` | `_creat` empties the remote file at open. |
| `open_missing_parent_aborts` | violation | `OpenMissingParentFails` | With the second `_stat`, `_open` below a missing directory makes `_stat` free a stack address. |
| `catalog` | pass | `ListSorted`, `HeadIsTarget`, `CatalogRefined` | In every arrival order, and wherever the transport cuts the body, the list stays strictly sorted by `compare_resource`. The head of a complete `_stat` listing is the target. `_readdir` hands out what the abstract catalog does. |

Each violation is a real disagreement between the code and `spec.md` (or the code's
own comments); PROJECT.json "findings" says which.

### Bounds

- The four paths include a directory with a child, two files with the same
  basename, and the root. That is enough for `compare_resource` to order a mixed
  listing, for the cache to confuse two paths, for MOVE to nest, and for DELETE to
  remove a subtree.
- `vio_files` has two file slots and two temp names: enough for two handles to be
  open at once and for a leaked temp file to coexist with a live one.
- Content is at most one byte. That is enough to tell empty from written data, to
  read to the end, and to make a short write.
- `MaxInits` is 2 in `vio_dirs` and `reinit_after_shutdown`, where
  re-initialisation is the question, and 1 elsewhere.
- `catalog` has five URIs and content lengths 0 and 1, plus the absent and the
  junk length. A collection body then holds up to four members, so insertion at
  the head, in the middle and at the end all happen, in every arrival order, and
  collections interleave with normal resources. The transport may fail after any
  prefix of the body.

Each bound is a constant, and ConstantsAssumption states what the model needs of it.

### Mutants

Each property of a passing run is broken by a plausible bug in the code it is about:

| Mutant | Breaks |
|---|---|
| `ne_error_to_errno` stores the raw neon code | `TypeOK` in `vio_dirs` |
| A call takes `dav_session.ctx` as it was before `dav_connect` | `DeadSessionCause` |
| `dav_connect` sets `_connected` without a session | `NoRequestOnDeadSession` in `vio_files` |
| `OpenFile` uses a fixed temp name instead of `mkstemp` | `TempFileIsolation` |
| `ReadCount` ignores end of file | `ReadOffsetWithinFile` |
| `InsertPos` compares the new resource with the current one, the wrong way round | `ListSorted` |
| `compare_resource` compares the URIs the wrong way round | `HeadIsTarget` |
| `Results` splices the target in even when `include_target` is 0 | `CatalogRefined` |

## What is proved

`OwncloudVioProofs.tla` proves three theorems with TLAPS. They hold for every value
of the constants that satisfies ConstantsAssumption: any number of names, paths,
handles and temp names, any content length, either `_stat`.

- `TypeCorrect`: `Spec => []TypeOK`.
- `TempFilesIsolated`: `Spec => []TempFileIsolation`.
- `ReadOffsetHolds`: `Spec => []ReadOffsetWithinFile`.

All three rest on the inductive invariant `IInv == TypeOK /\ TempFileIsolation /\
HandleTmpOK`. TypeOK alone is not inductive, because `_write` and `_read` reach the
file data through the handle's temp name.

- If two open handles shared a temp file, or a handle's file were missing, a write
  on one handle could lengthen another handle's file. A close could also empty a
  file under a reader whose offset lies past the new end. The offset would then
  leave its type.
- `HandleTmpOK` says that an open handle names a temp file and that its offset lies
  within that file.
- `TempFileIsolation` says that no other handle's step touches that file. Its proof
  needs only that `mkstemp` returns a name no existing file has (`FreshTemp`).

The proof has one lemma per action, one step per outcome of each action, and lemmas
about the data operators (content, listings, the trees the server's answers leave,
and `read(2)`'s offset). TLC checked `IInv` as an invariant of `vio_files` before it
was proved.

`ResourceListProofs.tla` proves three theorems for every set of URIs (natural
numbers, with the target no greater than any of them, as a prefix is under
strcmp) and every size bound:

- `ListSortedHolds`: `Spec => []ListSorted`.
- `HeadIsTargetHolds`: `Spec => []HeadIsTarget`.
- `Refinement`: `Spec => CatalogRefined`, that is `Spec => Cat!Spec`.

All three rest on the inductive invariant `LInv`, which `LInvHolds` proves.
ListSorted alone is not inductive: a splice keeps the list sorted only if no
element already has the new URI. `LInv` therefore adds the following:

- The list holds no error, and it is sorted under the catalog's order `Before`.
  `CompareIsBefore` shows that this order agrees with `compare_resource` on
  non-errors.
- No response still to be parsed names a URI already in the list, and no two of
  them name the same URI (`Fresh`, `Distinct`).
- `currResource` is unset while fetching. When the PROPFIND returns, the body is
  consumed (`Staged`).
- The target's entry is a collection unless the body is a file's lone entry.
  With `include_target`, that entry is still to come or already in the list
  (`TargetKind`, `TargetKept`). HeadIsTarget needs these two facts.

The key lemmas are the following:

- `InsertPosFacts` places the splice after every element that precedes the new
  resource and before the first that does not.
- `InsertAtFacts` gives `InsertAt` element by element.
- `InsertSorted` combines them: a splice keeps the list sorted and adds exactly
  the new resource.
- `LeastNatural`, from `WellFoundedInduction`, gives the first index
  `SelectInSeq` returns.

The refinement maps each step as follows:

- a skipped target is a stutter;
- a splice is `Receive`;
- `PropfindDone` is `Finish` (the list from its head is the whole collected
  set);
- `PropfindFails` is `Fail`;
- `_readdir` is `HandOut` of `list[cur]` (the least remaining element, because
  the list is sorted) or `Exhausted`.

TLC checked `LInv` as an invariant on the `catalog` instance before it was
proved.

`ResourceListProofs.tla` also proves `TypeOKHolds`: `Spec => []TypeOK`, from `LInv`.

`OwncloudVioSessionProofs.tla` proves `DeadSessionCauseHolds`:
`Spec => []DeadSessionCause`, with no assumption about the caller. A neon call
meets a NULL session only while `_connected` is 0, that is in `_stat`, `_utimes` or
`vio_module_shutdown` called before anything connected. It meets a destroyed
session only once `inits >= 2`, after `vio_module_init` ran again following
`vio_module_shutdown`. So the calls that run `dav_connect`, and the `_close` of a
PUT that `_open` began, never die on their own account. The runs
`call_before_connect` and `reinit_after_shutdown` show that both causes occur.

The inductive invariant is `IInv /\ SessionInv`. `SessionInv` adds the following
to the property:

- `_connected` implies that `ctx` is not NULL (`dav_connect` stores the session
  when it sets the flag, and nothing clears either);
- a destroyed `ctx` implies that the module is shut or has been initialised twice;
- a shut or initialised module has had a `vio_module_init`;
- an open transfer context implies `_connected`, because `_open` connected.

With these, `DeadCrashStep` shows that a call on a Ready module that dies on the
session as it is (`_stat`, `_utimes`, the shutdown, a PUT `_close`) dies for one of
the two causes. `ConnectCrash` shows the same for a call that ran `dav_connect`:
it can only find `_connected` set with a destroyed session. TLC checked `SessionInv`
on `vio_dirs`, `vio_files`, `reinit_after_shutdown` and `call_before_connect`
before it was proved.

## What is only model-checked, and what is not modelled

- Everything else is model-checked only: the properties of the violation runs
  (`StatAfterDeleteNotCached`, `UploadCommitted`, `UnlinkEffective`,
  `NoOrphanTempFile`, `SchemeSelectsProtocol`, `ServerChangesOnlyByCommit`,
  `OpenMissingParentFails`, and `NoRequestOnDeadSession` without the caller's
  discipline), which do not hold. The counterexamples are their evidence.
- `NoRequestOnDeadSession` under the caller's discipline (`vio_files`) is
  model-checked only. It follows from `DeadSessionCause` together with the
  discipline and `MaxInits = 1`.
- No run checks liveness. Each call blocks and returns, and the module waits for
  nothing and retries nothing. That a PROPFIND ends is not a property of this
  code: `ne_simple_propfind` is one synchronous call, and stating that it returns
  would only restate the fairness put on it.
- TLAPS cannot prove liveness or `ENABLED`, what a recursive definition computes
  for every input, or anything in a module that reaches a `RECURSIVE` operator.
  The project's proofs avoid all three.
- Not modelled:
  - `ne_auth` (it copies credentials, and the model's server does not challenge);
  - `_chmod` and `_chown` (they return 0 and change nothing);
  - URI parsing and `ne_sock_init` failures (the base URL is fixed);
  - memory leaks (`_opendir` and `_readdir` allocations);
  - `modtime` and the date parsing of `results()`, because no property depends on
    them;
  - the server's side of a PROPFIND beyond the shapes of `Bodies`. A server that
    reports a member twice, a member that sorts before the target, or a collection
    with a content length, is outside the model;
  - the timeout that fires after the server applied a request: the model has it
    (`LateErrors`), but the spec says nothing of an unknown outcome, so no
    property says what the caller may conclude from `EAGAIN`;
  - the stat cache's basename fast path for a different path of the same name,
    which the spec prescribes: reachable in the model, checked by no property.

## Plan for the next steps

1. **Composition.** Let `OwncloudVio`'s `Opendir` and `Readdir` use the
   `ResourceList` steps instead of the catalog set. Then show that the `Listing`
   view of `OwncloudVio` is what `ResourceList` refines to.
2. **The stat cache.** State what `_fs` does promise, that a hit returns what
   the last `_readdir` reported, and prove it from an invariant on `fs` and `last`.
