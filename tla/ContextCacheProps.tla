-------------------------- MODULE ContextCacheProps --------------------------
(* What a cached request and the metadata of the session promise.            *)
EXTENDS ContextCache, FiniteSets

(* What the model is given with a cache is what it would have been given     *)
(* without: the cache holds the same instruction and the first contents, the *)
(* rest is sent, and the user's last words are never only in the cache       *)
(* (apply_cache_to_request; find_count_of_contents_to_cache: "so there's     *)
(* always some uncached user content left to send").                         *)
RequestWhole ==
    pc = "model" /\ request.cache # None =>
        LET held == created[request.cache]
        IN  /\ held.rest = request.rest
            /\ held.contents \o request.contents = WithUserContent(contents)
            /\ request.contents # <<>> /\ IsUser(request.contents[Len(request.contents)])

(* What the session says of its caches is true.  A cache that is there is    *)
(* the one its last metadata names, no request names one that was dropped,   *)
(* and a cache serves cache_intervals invocations at most                    *)
(* (handle_context_caching; is_cache_valid; find_cache_info_from_events).    *)
(* Caches that a call created or dropped whose event was not stored, and     *)
(* those the server did not drop, are lost to this.                          *)
MetadataTrue ==
    /\ Live \subseteq lost \cup {recorded.cache, meta.cache}
    /\ pc = "model" /\ request.cache # None => request.cache \in Live \cup expired \cup lost
    /\ \A n \in DOMAIN served : Cardinality(served[n]) <= CacheIntervals

---------------------------------------------------------------------------
(* Why both hold: the inductive invariant.                                 *)

ContentRecord == [role : {"user", "model"}, text : Nat]
Rest == Instructions \cup {None}
Prints == [rest : Rest, contents : Seq(ContentRecord)]
Metadata == [known : BOOLEAN, cache : Nat, used : Nat, count : Nat, inv : Nat, print : Prints]

CacheTypeOK ==
    /\ contents \in Seq(ContentRecord) /\ {made, inv, begun} \subseteq Nat
    /\ pc \in {"idle", "preprocess", "handle", "renew", "model"}
    /\ {recorded, meta} \subseteq Metadata
    /\ request \in [contents : Seq(ContentRecord), rest : Rest, cache : Nat]
    /\ created \in Seq([rest : Rest, contents : Seq(ContentRecord), live : BOOLEAN])
    /\ DOMAIN served \subseteq Caches
    /\ \A n \in DOMAIN served : IsFiniteSet(served[n])

(* Metadata counts the contents of its fingerprint, which end before words *)
(* of the user, and a cache it names holds what the fingerprint says.      *)
Faithful(m) ==
    /\ m.known => /\ m.count = Len(m.print.contents)
                  /\ m.count # 0 => ~IsUser(m.print.contents[m.count])
    /\ m.cache # None => /\ m.known /\ m.cache \in Caches
                         /\ created[m.cache].rest = m.print.rest
                         /\ created[m.cache].contents = m.print.contents

Handling == pc \in {"handle", "renew"}
Whole == request.cache = None /\ request.contents = WithUserContent(contents)

(* What a call knows of the cache it found.                                *)
Found ==
    /\ Handling => Whole /\ meta.cache = recorded.cache
    /\ pc = "renew" => meta.known
    /\ pc \in {"idle", "preprocess"} => meta = NoMeta
    /\ pc \in {"idle", "preprocess", "handle"} => touched = {}
    /\ pc = "model" => request.cache = meta.cache

(* Where a cache may be: what is not lost is named by the metadata.        *)
Placed ==
    /\ meta.cache \in touched \cup {recorded.cache, None}
    /\ recorded.cache \in Live \cup expired \cup lost \cup touched \cup {None}
    /\ Live \subseteq lost \cup {IF pc = "model" THEN meta.cache ELSE recorded.cache}
    /\ pc = "renew" => meta.cache \notin Live \ lost
    /\ pc = "model" => meta.cache \in Live \cup expired \cup lost \cup {None}

(* used counts the invocations served, the running one included.           *)
Counted ==
    /\ recorded.cache # None => /\ Cardinality(Serves(recorded.cache)) <= recorded.used
                                /\ recorded.inv \in Serves(recorded.cache)
    /\ pc \in {"handle", "model"} /\ meta.cache # None =>
          Cardinality(Serves(meta.cache) \cup {inv}) <= meta.used
    /\ pc = "model" /\ meta.cache # None => meta.used <= CacheIntervals
    /\ \A n \in DOMAIN served : Cardinality(served[n]) <= CacheIntervals

CacheIInv ==
    /\ CacheTypeOK /\ Faithful(recorded) /\ Faithful(meta) /\ Found
    /\ Placed /\ Counted /\ RequestWhole
=============================================================================
