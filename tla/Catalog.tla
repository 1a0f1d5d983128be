------------------------------ MODULE Catalog -------------------------------
(***************************************************************************)
(* What a directory listing of csync_owncloud.c promises its caller, with  *)
(* no list in it: fetch_resource_list() collects the resources of one      *)
(* PROPFIND (all but the request target, unless the target is asked for), *)
(* and _readdir() then hands them out one by one, each time the least of   *)
(* those not yet handed out: errors, then collections, then normal         *)
(* resources, each tier by ascending URI.  A failed PROPFIND ends the      *)
(* listing.                                                                *)
(***************************************************************************)
EXTENDS Integers

CONSTANTS
    Uris,     \* the URIs a PROPFIND may report; their < order is strcmp()'s
    Target,   \* the Request-URI of the PROPFIND
    MaxSize   \* largest content length

Types == {"error", "collection", "normal"}
Resource == [uri : Uris, type : Types, size : 0..MaxSize]
NoRes == [uri |-> Target, type |-> "error", size |-> 0]  \* readdir's NULL

(* The sort key of compare_resource(): tier, then URI. *)
TierOf(t) == CASE t = "error" -> 0 [] t = "collection" -> 1 [] OTHER -> 2
Before(a, b) ==
    \/ TierOf(a.type) < TierOf(b.type)
    \/ TierOf(a.type) = TierOf(b.type) /\ a.uri < b.uri

Least(e, S) == e \in S /\ \A o \in S : ~Before(o, e)

VARIABLES
    include,  \* include_target of the listing context
    got,      \* the resources collected so far
    rest,     \* those readdir has not handed out yet
    stage,    \* "fetching", "listed" or "failed"
    yielded   \* what the last readdir returned

cvars == <<include, got, rest, stage, yielded>>

Init ==
    /\ include \in BOOLEAN
    /\ got = {}
    /\ rest = {}
    /\ stage = "fetching"
    /\ yielded = NoRes

Receive(e) ==
    /\ stage = "fetching"
    /\ e.uri # Target \/ include
    /\ got' = got \cup {e}
    /\ UNCHANGED <<include, rest, stage, yielded>>

Finish ==
    /\ stage = "fetching"
    /\ stage' = "listed"
    /\ rest' = got
    /\ UNCHANGED <<include, got, yielded>>

Fail ==
    /\ stage = "fetching"
    /\ stage' = "failed"
    /\ UNCHANGED <<include, got, rest, yielded>>

HandOut(e) ==
    /\ stage = "listed"
    /\ Least(e, rest)
    /\ rest' = rest \ {e}
    /\ yielded' = e
    /\ UNCHANGED <<include, got, stage>>

Exhausted ==
    /\ stage = "listed"
    /\ rest = {}
    /\ yielded' = NoRes
    /\ UNCHANGED <<include, got, rest, stage>>

Next ==
    \/ \E e \in Resource : Receive(e) \/ HandOut(e)
    \/ Finish \/ Fail \/ Exhausted

Spec == Init /\ [][Next]_cvars
=============================================================================
