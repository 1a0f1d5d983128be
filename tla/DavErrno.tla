------------------------------ MODULE DavErrno ------------------------------
(***************************************************************************)
(* The two translations csync_owncloud.c applies to a failed neon call:    *)
(*   ne_session_error_errno: the HTTP status at the head of the session's  *)
(*     error text (ne_get_error) to an errno value;                        *)
(*   ne_error_to_errno: a neon return code (NE_OK, NE_ERROR, ...) to an    *)
(*     errno value.                                                        *)
(* errno values are strings; "0" is the value 0 (no error).                *)
(***************************************************************************)
EXTENDS Naturals

Errnos == {"0", "EPERM", "ENOENT", "EAGAIN", "EACCES", "EINVAL", "ENOSPC",
           "EIO", "ENOMEM"}

NeCodes == {"NE_OK", "NE_ERROR", "NE_LOOKUP", "NE_AUTH", "NE_PROXYAUTH",
            "NE_CONNECT", "NE_TIMEOUT", "NE_FAILED", "NE_RETRY",
            "NE_REDIRECT"}

(* The session error text of a transport failure starts with no number:   *)
(* strtol() consumes nothing and the translation answers EIO.             *)
NoStatus == 0   \* no digits: strtol() stops at once (p == q)

ne_session_error_errno(st) ==
    CASE st = NoStatus                                   -> "EIO"
      [] st \in {200, 201, 202, 203, 204, 205, 207, 304} -> "0"
      [] st \in {401, 402, 407}                          -> "EPERM"
      [] st \in {301, 303, 404, 410}                     -> "ENOENT"
      [] st \in {408, 504}                               -> "EAGAIN"
      [] st = 423                                        -> "EACCES"
      [] st \in {400, 403, 405, 409, 411, 412, 414, 415, 424, 501}
                                                         -> "EINVAL"
      [] st \in {413, 507}                               -> "ENOSPC"
      [] OTHER                                           -> "EIO"

(* Mutant: the neon code itself is stored in errno, untranslated. *)
ne_error_to_errno_raw(rc) == rc

ne_error_to_errno(rc) ==
    CASE rc \in {"NE_OK", "NE_ERROR"}                  -> "0"
      [] rc \in {"NE_AUTH", "NE_PROXYAUTH"}            -> "EACCES"
      [] rc \in {"NE_CONNECT", "NE_TIMEOUT", "NE_RETRY"} -> "EAGAIN"
      [] rc = "NE_FAILED"                              -> "EINVAL"
      [] rc = "NE_REDIRECT"                            -> "ENOENT"
      [] OTHER                                         -> "EIO"

(* The status class neon reports in ne_get_status(req)->klass. *)
StatusClass(st) == st \div 100
=============================================================================
