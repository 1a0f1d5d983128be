---------------------------- MODULE ResourceList ----------------------------
(***************************************************************************)
(* The resource list of one listdir_context in csync_owncloud.c, built by *)
(* fetch_resource_list(): ne_simple_propfind() parses the multistatus body *)
(* and calls results() once per response, in the order the server wrote   *)
(* them; results() turns the response into a struct resource and splices *)
(* it into fetchCtx->list by a linear scan with compare_resource().  When *)
(* the PROPFIND succeeds, currResource is set to the head, and _readdir() *)
(* walks the list from there.                                              *)
(*                                                                         *)
(* The server is the environment: the body of a Depth 1 PROPFIND on the   *)
(* target, chosen in Init, delivered one response at a time in any order, *)
(* or cut off by a transport failure.                                     *)
(***************************************************************************)
EXTENDS Integers, Sequences, SequencesExt

CONSTANTS
    Uris,     \* the URIs a PROPFIND may report; their < order is strcmp()'s
    Target,   \* the Request-URI of the PROPFIND (fetchCtx->target)
    MaxSize,  \* largest content length the server reports
    NetFails  \* may the PROPFIND fail in the transport?

ASSUME ListAssumption ==
    /\ Uris \subseteq Nat /\ Target \in Uris
    \* the Request-URI is a prefix of every URI under it: strcmp() puts it first
    /\ \A u \in Uris : Target <= u
    /\ MaxSize \in Nat
    /\ NetFails \in BOOLEAN

(* A response of the multistatus body: its href and the two properties   *)
(* results() reads: getcontentlength (absent, or digits followed by junk) *)
(* and resourcetype.                                                      *)
NoLength == -1
BadLength == -2
Response == [href : Uris, clength : (0..MaxSize) \cup {NoLength, BadLength},
             rtype : {"collection", "none"}]

VARIABLES
    include,  \* fetchCtx->include_target: 0 for _opendir, 1 for _stat
    pending,  \* the responses of the body not yet parsed
    list,     \* fetchCtx->list, as the sequence of its resources
    cur,      \* fetchCtx->currResource: list[cur], NULL when cur > Len(list)
    stage,    \* "fetching" until ne_simple_propfind() returns, then
              \* "listed" (NE_OK) or "failed"
    yielded   \* what the last _readdir() returned

vars == <<include, pending, list, cur, stage, yielded>>

(* The promise of the listing: the abstract catalog, whose collected set  *)
(* is the set of the list's resources and whose remaining set is the      *)
(* part of the list from currResource on.                                  *)
Cat == INSTANCE Catalog WITH
          got  <- ToSet(list),
          rest <- IF stage = "listed" THEN {list[i] : i \in cur..Len(list)}
                                      ELSE {}

Resource == Cat!Resource
NoRes == Cat!NoRes

(* results(): a collection when no content length is reported and the    *)
(* resource type is a collection; the size is the content length, 0 when *)
(* strtol() leaves characters over (and when none is reported: the struct *)
(* comes from c_malloc(), which zeroes it).                               *)
ToResource(r) ==
    [uri  |-> r.href,
     type |-> IF r.clength = NoLength /\ r.rtype = "collection"
                THEN "collection" ELSE "normal",
     size |-> IF r.clength \in 0..MaxSize THEN r.clength ELSE 0]

(* The sign of strcmp() of two URIs. *)
StrCmp(a, b) == IF a < b THEN -1 ELSE IF a = b THEN 0 ELSE 1

(* Mutant: the URIs are compared the wrong way round. *)
compare_resource_uri_swapped(r1, r2) ==
    CASE r1.type = "error"      -> -1
      [] r2.type = "error"      -> 1
      [] r1.type = "collection" -> IF r2.type # "collection" THEN -1
                                                         ELSE StrCmp(r2.uri, r1.uri)
      [] OTHER                  -> IF r2.type # "collection"
                                     THEN StrCmp(r2.uri, r1.uri) ELSE 1

(* compare_resource(r1, r2), branch by branch. *)
compare_resource(r1, r2) ==
    CASE r1.type = "error"      -> -1
      [] r2.type = "error"      -> 1
      [] r1.type = "collection" -> IF r2.type # "collection" THEN -1
                                                         ELSE StrCmp(r1.uri, r2.uri)
      [] OTHER                  -> IF r2.type # "collection"
                                     THEN StrCmp(r1.uri, r2.uri) ELSE 1

(* Mutant: the scan compares the new resource with the current one. *)
InsertPosSwapped(s, e) ==
    LET k == SelectInSeq(s, LAMBDA c : compare_resource(e, c) >= 0)
    IN  IF k = 0 THEN Len(s) + 1 ELSE k

(* The loop of results(): the new resource goes before the first element *)
(* current with compare_resource(current, newres) >= 0, or at the end.    *)
InsertPos(s, e) ==
    LET k == SelectInSeq(s, LAMBDA c : compare_resource(c, e) >= 0)
    IN  IF k = 0 THEN Len(s) + 1 ELSE k

(* The server's Depth 1 answer on the target: the target alone when it is *)
(* a file; when it is a collection, the target and any set of members,    *)
(* each reported once, collections without a content length.              *)
Consistent(r) ==
    /\ r.rtype = "collection" => r.clength = NoLength
    /\ r.rtype = "none" => r.clength # NoLength
Members == {r \in Response : r.href # Target /\ Consistent(r)}
TargetDir == [href |-> Target, clength |-> NoLength, rtype |-> "collection"]
Bodies ==
    {{r} : r \in {r \in Response : r.href = Target /\ r.rtype = "none" /\
                                   Consistent(r)}}
    \cup {{TargetDir} \cup C : C \in {C \in SUBSET Members :
                                        \A a, b \in C : a.href = b.href => a = b}}

-----------------------------------------------------------------------------
TypeOK ==
    /\ include \in BOOLEAN
    /\ pending \subseteq Response
    /\ list \in Seq(Resource)
    /\ cur \in 0..Len(list) + 1
    /\ stage \in {"fetching", "listed", "failed"}
    /\ yielded \in Resource

(* _opendir() and _stat() set up the context; the PROPFIND goes out with *)
(* the whole body on its way.                                             *)
Init ==
    /\ include \in BOOLEAN
    /\ pending \in Bodies
    /\ list = <<>>
    /\ cur = 0
    /\ stage = "fetching"
    /\ yielded = NoRes

(* Mutant: the target is spliced in even when include_target is 0. *)
ResultsKeepsTarget(r) ==
    /\ stage = "fetching"
    /\ r \in pending
    /\ pending' = pending \ {r}
    /\ list' = InsertAt(list, InsertPos(list, ToResource(r)), ToResource(r))
    /\ UNCHANGED <<include, cur, stage, yielded>>

(* results() for one response: the target itself is skipped unless       *)
(* include_target is set; any other response is spliced into the list.    *)
Results(r) ==
    /\ stage = "fetching"
    /\ r \in pending
    /\ pending' = pending \ {r}
    /\ \/ /\ r.href = Target /\ ~include
          /\ UNCHANGED list
       \/ /\ r.href # Target \/ include
          /\ list' = InsertAt(list, InsertPos(list, ToResource(r)),
                              ToResource(r))
    /\ UNCHANGED <<include, cur, stage, yielded>>

(* ne_simple_propfind() returns NE_OK once the body is parsed;            *)
(* fetch_resource_list() and _opendir() set currResource to the head.     *)
PropfindDone ==
    /\ stage = "fetching"
    /\ pending = {}
    /\ stage' = "listed"
    /\ cur' = 1
    /\ UNCHANGED <<include, pending, list, yielded>>

(* The transport fails part way through the body: the caller gets NULL   *)
(* (or -1) and the resources already spliced in stay where they are.      *)
PropfindFails ==
    /\ NetFails
    /\ stage = "fetching"
    /\ stage' = "failed"
    /\ UNCHANGED <<include, pending, list, cur, yielded>>

(* _readdir(): the resource at currResource, which moves to the next     *)
(* element; NULL once it is past the end.                                 *)
Readdir ==
    /\ stage = "listed"
    /\ \/ /\ cur <= Len(list)
          /\ yielded' = list[cur]
          /\ cur' = cur + 1
       \/ /\ cur > Len(list)
          /\ yielded' = NoRes
          /\ UNCHANGED cur
    /\ UNCHANGED <<include, pending, list, stage>>

Next ==
    \/ \E r \in Response : Results(r)
    \/ PropfindDone \/ PropfindFails \/ Readdir

Spec == Init /\ [][Next]_vars

-----------------------------------------------------------------------------
(* Whatever order the server writes its responses in, the list results() *)
(* builds is strictly ordered by compare_resource(): the insertion scan   *)
(* keeps it sorted, and no URI is in it twice.                            *)
ListSorted ==
    \A i, j \in 1..Len(list) :
        i < j => compare_resource(list[i], list[j]) < 0

(* _stat() takes the head of the list as the stat of the path it was     *)
(* asked about: with include_target set, the head of a complete listing  *)
(* is the target's own resource, not one of its members.                  *)
HeadIsTarget ==
    stage = "listed" /\ include /\ list # <<>> => list[1].uri = Target

(* _readdir() hands out the collected resources in the catalog's order,  *)
(* each once, the target left out unless asked for.                       *)
CatalogRefined == Cat!Spec

=============================================================================
