------------------------- MODULE ContextCacheProofs -------------------------
(***************************************************************************)
(* Theorems about the context cache, for every bound.                      *)
(***************************************************************************)
EXTENDS ContextCacheProps, DataTheorems, SequenceTheorems

-----------------------------------------------------------------------------
(* Cutting contents.                                                       *)

(* A place where contents may be cut: not before an end of the model's.    *)
Cut(cs) == {n \in 0 .. Len(cs) : n # 0 => ~IsUser(cs[n])}

LEMMA CountIsCut ==
    ASSUME NEW cs \in Seq(ContentRecord)
    PROVE  CountToCache(cs) \in Cut(cs)
<1> DEFINE S == {0} \cup {i \in DOMAIN cs : ~IsUser(cs[i])}
<1>1. Len(cs) \in Nat /\ DOMAIN cs = 1 .. Len(cs)
  BY LenProperties
<1>2. S \subseteq 0 .. Len(cs)
  BY <1>1
<1>3. S \in SUBSET Nat /\ IsFiniteSet(S) /\ S # {}
  <2>1. IsFiniteSet(0 .. Len(cs))
    BY <1>1, FS_Interval
  <2>2. IsFiniteSet(S)
    BY <1>2, <2>1, FS_Subset
  <2> QED  BY <1>1, <1>2, <2>2
<1>4. Max(S) \in S
  BY <1>3, MaxOfNaturals
<1>5. CountToCache(cs) = Max(S)
  BY DEF CountToCache
<1> QED  BY <1>1, <1>2, <1>4, <1>5 DEF Cut

LEMMA PrefixTyped ==
    ASSUME NEW cs \in Seq(ContentRecord), NEW n \in Nat
    PROVE  /\ Prefix(cs, n) \in Seq(ContentRecord)
           /\ Len(Prefix(cs, n)) = IF n <= Len(cs) THEN n ELSE Len(cs)
           /\ \A i \in 1 .. Len(Prefix(cs, n)) : Prefix(cs, n)[i] = cs[i]
<1>1. Len(cs) \in Nat
  BY LenProperties
<1> QED  BY <1>1 DEF Prefix

LEMMA SuffixTyped ==
    ASSUME NEW cs \in Seq(ContentRecord), NEW n \in 0 .. Len(cs)
    PROVE  /\ Suffix(cs, n) \in Seq(ContentRecord)
           /\ Len(Suffix(cs, n)) = Len(cs) - n
           /\ \A i \in 1 .. Len(cs) - n : Suffix(cs, n)[i] = cs[n + i]
<1>1. Len(cs) \in Nat
  BY LenProperties
<1> QED  BY <1>1 DEF Suffix

LEMMA CutRejoins ==
    ASSUME NEW cs \in Seq(ContentRecord), NEW n \in 0 .. Len(cs)
    PROVE  Prefix(cs, n) \o Suffix(cs, n) = cs
<1>1. Len(cs) \in Nat
  BY LenProperties
<1>2. /\ Prefix(cs, n) \in Seq(ContentRecord) /\ Len(Prefix(cs, n)) = n
      /\ \A i \in 1 .. n : Prefix(cs, n)[i] = cs[i]
  BY <1>1, PrefixTyped
<1> DEFINE both == Prefix(cs, n) \o Suffix(cs, n)
<1>3. both \in Seq(ContentRecord) /\ Len(both) = Len(cs)
  BY <1>1, <1>2, SuffixTyped, ConcatProperties
<1>4. ASSUME NEW i \in 1 .. Len(cs) PROVE both[i] = cs[i]
  <2>1. /\ Suffix(cs, n) \in Seq(ContentRecord) /\ Len(Suffix(cs, n)) = Len(cs) - n
        /\ \A j \in 1 .. Len(cs) - n : Suffix(cs, n)[j] = cs[n + j]
    BY SuffixTyped
  <2>2. both[i] = IF i <= n THEN Prefix(cs, n)[i] ELSE Suffix(cs, n)[i - n]
    BY <1>1, <1>2, <2>1, ConcatProperties
  <2>3. CASE i <= n
    BY <1>1, <1>2, <2>2, <2>3
  <2>4. CASE ~(i <= n)
    <3>1. i - n \in 1 .. Len(cs) - n /\ n + (i - n) = i
      BY <1>1, <2>4
    <3> QED  BY <2>1, <2>2, <2>4, <3>1
  <2> QED  BY <2>3, <2>4
<1> QED  BY <1>3, <1>4, SeqEqual

LEMMA EndsWithUser ==
    ASSUME NEW cs \in Seq(ContentRecord)
    PROVE  /\ WithUserContent(cs) \in Seq(ContentRecord)
           /\ WithUserContent(cs) # <<>>
           /\ Len(WithUserContent(cs)) \in Nat \ {0}
           /\ IsUser(WithUserContent(cs)[Len(WithUserContent(cs))])
<1> DEFINE hint == [role |-> "user", text |-> 0]
<1>1. hint \in ContentRecord /\ IsUser(hint)
  BY DEF ContentRecord, IsUser
<1>2. CASE cs # <<>> /\ IsUser(cs[Len(cs)])
  BY <1>2, EmptySeq DEF WithUserContent
<1>3. CASE ~(cs # <<>> /\ IsUser(cs[Len(cs)]))
  <2>1. WithUserContent(cs) = Append(cs, hint)
    BY <1>3 DEF WithUserContent
  <2>2. Len(cs) \in Nat
    BY LenProperties
  <2> QED  BY <1>1, <2>1, <2>2, AppendProperties
<1> QED  BY <1>2, <1>3

(* What is left to send of a request that ends with words of the user.     *)
LEMMA RestHasUser ==
    ASSUME NEW cs \in Seq(ContentRecord), NEW n \in Cut(WithUserContent(cs))
    PROVE  LET whole == WithUserContent(cs)
               rest == Suffix(whole, n)
           IN  /\ Prefix(whole, n) \o rest = whole
               /\ rest \in Seq(ContentRecord) /\ rest # <<>> /\ IsUser(rest[Len(rest)])
<1> DEFINE whole == WithUserContent(cs)
           rest == Suffix(whole, n)
<1>1. /\ whole \in Seq(ContentRecord) /\ Len(whole) \in Nat \ {0}
      /\ IsUser(whole[Len(whole)])
  BY EndsWithUser
<1>2. n \in 0 .. Len(whole) /\ n # Len(whole)
  BY <1>1 DEF Cut
<1>3. rest \in Seq(ContentRecord) /\ Len(rest) = Len(whole) - n
  BY <1>1, <1>2, SuffixTyped
<1>4. rest[Len(rest)] = whole[Len(whole)]
  <2>1. Len(whole) - n \in 1 .. Len(whole) - n /\ n + (Len(whole) - n) = Len(whole)
    BY <1>1, <1>2
  <2>2. \A i \in 1 .. Len(whole) - n : rest[i] = whole[n + i]
    BY <1>1, <1>2, SuffixTyped
  <2> QED  BY <1>3, <2>1, <2>2
<1>5. rest # <<>>
  BY <1>1, <1>2, <1>3, EmptySeq
<1> QED  BY <1>1, <1>2, <1>3, <1>4, <1>5, CutRejoins

-----------------------------------------------------------------------------
(* Fingerprints and metadata.                                              *)

LEMMA FingerprintTyped ==
    ASSUME CacheTypeOK, NEW n \in Nat
    PROVE  /\ Fingerprint(request, n) \in Prints
           /\ Fingerprint(request, n).rest = request.rest
           /\ Fingerprint(request, n).contents = Prefix(request.contents, n)
<1>1. request.contents \in Seq(ContentRecord) /\ request.rest \in Rest
  BY DEF CacheTypeOK
<1> QED  BY <1>1, PrefixTyped DEF Fingerprint, Prints

(* Metadata made of a cut of the request is faithful, with a name or not.  *)
LEMMA MadeOfCut ==
    ASSUME CacheTypeOK, NEW n \in Cut(request.contents)
    PROVE  LET m == FingerprintOnly(n)
           IN  /\ m \in Metadata /\ m.known /\ m.cache = None /\ m.count = n
               /\ m.print = Fingerprint(request, n)
               /\ m.count = Len(m.print.contents)
               /\ m.count # 0 => ~IsUser(m.print.contents[m.count])
<1>1. request.contents \in Seq(ContentRecord) /\ inv \in Nat
  BY DEF CacheTypeOK
<1>2. Len(request.contents) \in Nat /\ n \in Nat /\ n <= Len(request.contents)
  BY <1>1, LenProperties DEF Cut
<1>3. FingerprintOnly(n) \in Metadata
  BY <1>1, <1>2, FingerprintTyped DEF FingerprintOnly, Metadata, None
<1>4. Len(Prefix(request.contents, n)) = n
  BY <1>1, <1>2, PrefixTyped
<1>5. n # 0 => Prefix(request.contents, n)[n] = request.contents[n]
  BY <1>1, <1>2, <1>4, PrefixTyped
<1> QED  BY <1>2, <1>3, <1>4, <1>5, FingerprintTyped DEF FingerprintOnly, Cut

(* A request with the fingerprint of the metadata may be cut where the     *)
(* metadata says.                                                          *)
LEMMA SamePrintCuts ==
    ASSUME CacheTypeOK, Faithful(meta), meta.known, SamePrint
    PROVE  /\ meta.count \in Cut(request.contents)
           /\ meta.print.rest = request.rest
           /\ meta.print.contents = Prefix(request.contents, meta.count)
<1>1. request.contents \in Seq(ContentRecord) /\ meta.count \in Nat
  BY DEF CacheTypeOK, Metadata
<1>2. Len(request.contents) \in Nat
  BY <1>1, LenProperties
<1>3. /\ meta.print.rest = request.rest
      /\ meta.print.contents = Prefix(request.contents, meta.count)
  BY <1>1, FingerprintTyped DEF SamePrint
<1>4. /\ meta.count = Len(Prefix(request.contents, meta.count))
      /\ meta.count # 0 => ~IsUser(Prefix(request.contents, meta.count)[meta.count])
  BY <1>3 DEF Faithful
<1>5. meta.count <= Len(request.contents)
  BY <1>1, <1>2, <1>4, PrefixTyped
<1>6. meta.count # 0 => Prefix(request.contents, meta.count)[meta.count]
                            = request.contents[meta.count]
  BY <1>1, <1>4, PrefixTyped
<1> QED  BY <1>1, <1>2, <1>3, <1>4, <1>5, <1>6 DEF Cut

LEMMA NextCountCuts ==
    ASSUME CacheTypeOK, Faithful(meta), meta.known, SamePrint
    PROVE  NextCount \in Cut(request.contents)
<1>1. request.contents \in Seq(ContentRecord)
  BY DEF CacheTypeOK
<1> QED  BY <1>1, CountIsCut, SamePrintCuts DEF NextCount

-----------------------------------------------------------------------------
(* The steps of the session.                                               *)

LEMMA NewContentTyped ==
    ASSUME CacheTypeOK
    PROVE  NewContent("user") \in ContentRecord /\ NewContent("model") \in ContentRecord
BY DEF NewContent, ContentRecord, CacheTypeOK

(* Between calls the contents may become anything.                         *)
LEMMA SessionChanges ==
    ASSUME CacheIInv, UNCHANGED CacheVars,
           pc \in {"idle", "preprocess"}, pc' \in {"idle", "preprocess"},
           contents' \in Seq(ContentRecord), {made', inv', begun'} \subseteq Nat
    PROVE  CacheIInv'
<1> USE DEF CacheIInv, CacheVars
<1>1. CacheTypeOK'
  BY DEF CacheTypeOK, Caches
<1>2. Faithful(recorded)' /\ Faithful(meta)'
  BY DEF Faithful, Caches
<1>3. Found'
  BY DEF Found, Handling
<1>4. Placed'
  BY DEF Placed, Live, Caches
<1>5. Counted'
  BY DEF Counted, Serves
<1>6. RequestWhole'
  BY DEF RequestWhole
<1> QED  BY <1>1, <1>2, <1>3, <1>4, <1>5, <1>6

LEMMA UserMessageKeeps == ASSUME CacheIInv, UserMessage PROVE CacheIInv'
<1>1. CacheTypeOK
  BY DEF CacheIInv
<1>2. contents' \in Seq(ContentRecord)
  BY <1>1, NewContentTyped, AppendProperties DEF UserMessage, CacheTypeOK
<1>3. {made', inv', begun'} \subseteq Nat
  BY <1>1 DEF UserMessage, CacheTypeOK
<1> QED  BY <1>2, <1>3, SessionChanges DEF UserMessage

LEMMA RewindContentsKeeps == ASSUME CacheIInv, RewindContents PROVE CacheIInv'
<1>1. CacheTypeOK
  BY DEF CacheIInv
<1>2. contents' \in Seq(ContentRecord)
  <2>1. PICK i \in DOMAIN contents : contents' = Prefix(contents, i - 1)
    BY DEF RewindContents
  <2>2. contents \in Seq(ContentRecord) /\ i - 1 \in Nat
    BY <1>1, LenProperties DEF CacheTypeOK
  <2> QED  BY <2>1, <2>2, PrefixTyped
<1> QED  BY <1>1, <1>2, SessionChanges DEF RewindContents, CacheTypeOK

LEMMA SummariseKeeps == ASSUME CacheIInv, Summarise PROVE CacheIInv'
<1>1. CacheTypeOK
  BY DEF CacheIInv
<1>2. contents' \in Seq(ContentRecord)
  <2>1. PICK i \in 1 .. Len(contents) - 1 :
            contents' = <<NewContent("model")>> \o Suffix(contents, i)
    BY DEF Summarise
  <2>2. contents \in Seq(ContentRecord) /\ i \in 0 .. Len(contents)
    BY <1>1, LenProperties DEF CacheTypeOK
  <2>3. Suffix(contents, i) \in Seq(ContentRecord)
    BY <2>2, SuffixTyped
  <2>4. <<NewContent("model")>> \in Seq(ContentRecord)
    BY <1>1, NewContentTyped
  <2> QED  BY <2>1, <2>3, <2>4, ConcatProperties
<1> QED  BY <1>1, <1>2, SessionChanges DEF Summarise, CacheTypeOK

LEMMA PreprocessKeeps == ASSUME CacheIInv, Preprocess PROVE CacheIInv'
<1> USE DEF CacheIInv, Preprocess
<1>1. PICK rest \in Instructions :
          request' = [contents |-> WithUserContent(contents), rest |-> rest, cache |-> None]
  OBVIOUS
<1>2. WithUserContent(contents) \in Seq(ContentRecord)
  BY EndsWithUser DEF CacheTypeOK
<1>3. /\ meta' \in Metadata /\ meta'.known = recorded.known /\ meta'.cache = recorded.cache
      /\ meta'.count = recorded.count /\ meta'.print = recorded.print
      /\ meta'.used = IF recorded.cache # None /\ recorded.inv # inv
                      THEN recorded.used + 1 ELSE recorded.used
  <2>1. recorded \in Metadata /\ meta' = FindCacheInfo
    BY DEF CacheTypeOK
  <2>2. CASE recorded.cache # None /\ recorded.inv # inv
    <3>1. meta' = [recorded EXCEPT !.used = recorded.used + 1]
      BY <2>1, <2>2 DEF FindCacheInfo
    <3> QED  BY <2>1, <2>2, <3>1 DEF Metadata
  <2>3. CASE ~(recorded.cache # None /\ recorded.inv # inv)
    BY <2>1, <2>3 DEF FindCacheInfo
  <2> QED  BY <2>2, <2>3
<1>4. CacheTypeOK'
  BY <1>1, <1>2, <1>3 DEF CacheTypeOK, Rest, None, Caches
<1>5. Faithful(recorded)' /\ Faithful(meta)'
  BY <1>3 DEF Faithful, Caches
<1>6. Found'
  BY <1>1, <1>3 DEF Found, Handling, Whole
<1>7. Placed'
  BY <1>3 DEF Placed, Live, Caches
<1>8. Counted'
  <2>1. ASSUME recorded.cache # None
        PROVE  Cardinality(Serves(recorded.cache) \cup {inv}) <= meta'.used
    <3> DEFINE S == Serves(recorded.cache)
    <3>1. IsFiniteSet(S)
      BY FS_EmptySet DEF Serves, CacheTypeOK
    <3>2. Cardinality(S) <= recorded.used /\ recorded.inv \in S
      BY <2>1 DEF Counted
    <3>3. Cardinality(S) \in Nat /\ recorded.used \in Nat
      BY <3>1, FS_CardinalityType DEF CacheTypeOK, Metadata
    <3>4. CASE inv \in S
      <4>1. S \cup {inv} = S
        BY <3>4
      <4> QED  BY <1>3, <3>2, <3>3, <4>1
    <3>5. CASE inv \notin S
      <4>1. Cardinality(S \cup {inv}) = Cardinality(S) + 1
        BY <3>1, <3>5, FS_AddElement
      <4> QED  BY <1>3, <2>1, <3>2, <3>3, <3>5, <4>1
    <3> QED  BY <3>4, <3>5
  <2> QED  BY <1>3, <2>1 DEF Counted, Serves
<1>9. RequestWhole'
  BY DEF RequestWhole
<1> QED  BY <1>4, <1>5, <1>6, <1>7, <1>8, <1>9

-----------------------------------------------------------------------------
(* The steps of handle_context_caching.                                    *)

(* None names no cache.                                                    *)
LEMMA NamesOfCaches ==
    ASSUME CacheTypeOK
    PROVE  Len(created) \in Nat /\ Caches = 1 .. Len(created) /\ None \notin Caches
BY LenProperties DEF CacheTypeOK, Caches, None

(* The call goes on without a cache: its metadata is a fingerprint only.   *)
LEMMA GoesOnWithout ==
    ASSUME CacheIInv, Handling, recorded.cache \notin Live \ lost,
           NEW n \in Cut(request.contents), meta' = FingerprintOnly(n), pc' = "model",
           UNCHANGED SessionVars, UNCHANGED <<request, touched, created, lost>>
    PROVE  CacheIInv'
<1> USE DEF CacheIInv, SessionVars
<1>1. /\ meta' \in Metadata /\ meta'.known /\ meta'.cache = None
      /\ meta'.count = Len(meta'.print.contents)
      /\ meta'.count # 0 => ~IsUser(meta'.print.contents[meta'.count])
  BY MadeOfCut
<1>2. CacheTypeOK'
  BY <1>1 DEF CacheTypeOK, Caches
<1>3. Faithful(recorded)' /\ Faithful(meta)'
  BY <1>1 DEF Faithful, Caches
<1>4. Found'
  BY <1>1 DEF Found, Handling, Whole
<1>5. Placed'
  <2>1. Live \subseteq lost
    BY DEF Placed, Handling
  <2> QED  BY <1>1, <2>1 DEF Placed, Live, Caches
<1>6. Counted'
  BY <1>1 DEF Counted, Serves
<1>7. RequestWhole'
  BY DEF RequestWhole, Found, Whole
<1> QED  BY <1>2, <1>3, <1>4, <1>5, <1>6, <1>7

LEMMA FirstCallKeeps == ASSUME CacheIInv, FirstCall PROVE CacheIInv'
<1>1. recorded.cache = None
  BY DEF CacheIInv, FirstCall, Found, Handling, Faithful
<1>2. recorded.cache \notin Live
  BY <1>1, NamesOfCaches DEF CacheIInv, Live
<1>3. CountToCache(request.contents) \in Cut(request.contents)
  BY CountIsCut DEF CacheIInv, CacheTypeOK
<1> QED  BY <1>2, <1>3, GoesOnWithout DEF FirstCall, Handling

(* A call that is renewing its metadata has no cache of its own any more.  *)
LEMMA NothingOwned ==
    ASSUME CacheIInv, Renewing
    PROVE  Handling /\ meta.known /\ recorded.cache \notin Live \ lost
<1> USE DEF CacheIInv
<1>1. Handling /\ meta.known
  BY DEF Renewing, Handling, Found
<1>2. meta.cache = recorded.cache
  BY <1>1 DEF Found
<1>3. CASE pc = "renew"
  BY <1>1, <1>2, <1>3 DEF Placed
<1>4. CASE pc # "renew"
  BY <1>1, <1>2, <1>4, NamesOfCaches DEF Renewing, Live
<1> QED  BY <1>1, <1>3, <1>4

LEMMA NoCreationKeeps == ASSUME CacheIInv, NoCreation PROVE CacheIInv'
<1>1. NextCount \in Cut(request.contents)
  BY NothingOwned, NextCountCuts DEF CacheIInv, NoCreation
<1> QED  BY <1>1, NothingOwned, GoesOnWithout DEF NoCreation

LEMMA StartOverKeeps == ASSUME CacheIInv, StartOver PROVE CacheIInv'
<1>1. CountToCache(request.contents) \in Cut(request.contents)
  BY CountIsCut DEF CacheIInv, CacheTypeOK
<1> QED  BY <1>1, NothingOwned, GoesOnWithout DEF StartOver

LEMMA ReuseKeeps == ASSUME CacheIInv, Reuse PROVE CacheIInv'
<1> USE DEF CacheIInv, Reuse, SessionVars
<1> DEFINE n == meta.count
           held == created[meta.cache]
<1>1. /\ meta.cache # None /\ meta.known /\ meta.cache \in Caches
      /\ held.rest = meta.print.rest /\ held.contents = meta.print.contents
      /\ meta.used <= CacheIntervals /\ SamePrint
  BY DEF IsCacheValid, SamePrint, Faithful
<1>2. Handling /\ Whole /\ meta.cache = recorded.cache /\ touched = {}
  BY DEF Handling, Found
<1>3. /\ n \in Cut(request.contents) /\ held.rest = request.rest
      /\ held.contents = Prefix(request.contents, n)
  BY <1>1, SamePrintCuts
<1>4. request' = [request EXCEPT !.contents = Suffix(request.contents, n), !.cache = meta.cache]
  BY DEF Apply
<1>5. contents \in Seq(ContentRecord) /\ request.contents = WithUserContent(contents)
  BY <1>2 DEF CacheTypeOK, Whole
<1>6. /\ held.contents \o Suffix(request.contents, n) = WithUserContent(contents)
      /\ Suffix(request.contents, n) \in Seq(ContentRecord)
      /\ Suffix(request.contents, n) # <<>>
      /\ IsUser(Suffix(request.contents, n)[Len(Suffix(request.contents, n))])
  BY <1>3, <1>5, RestHasUser
<1>7. /\ request'.contents = Suffix(request.contents, n)
      /\ request'.rest = request.rest /\ request'.cache = meta.cache
      /\ request' \in [contents : Seq(ContentRecord), rest : Rest, cache : Nat]
  <2>1. /\ request \in [contents : Seq(ContentRecord), rest : Rest, cache : Nat]
        /\ meta.cache \in Nat
    BY DEF CacheTypeOK, Metadata
  <2> QED  BY <1>4, <1>6, <2>1
<1>8. CacheTypeOK'
  BY <1>7 DEF CacheTypeOK, Caches
<1>9. Faithful(recorded)' /\ Faithful(meta)'
  BY DEF Faithful, Caches
<1>10. Found'
  BY <1>7 DEF Found, Handling
<1>11. Placed'
  BY <1>1, <1>2 DEF Placed, Live, Caches
<1>12. Counted'
  BY <1>1 DEF Counted, Serves
<1>13. RequestWhole'
  BY <1>3, <1>6, <1>7 DEF RequestWhole
<1> QED  BY <1>8, <1>9, <1>10, <1>11, <1>12, <1>13

(* What caches hold stays when the server drops one.                       *)
CacheRecord == [rest : Rest, contents : Seq(ContentRecord), live : BOOLEAN]

LEMMA DroppedTyped ==
    ASSUME CacheTypeOK, NEW n \in Caches, created' = [created EXCEPT ![n].live = FALSE]
    PROVE  /\ created' \in Seq(CacheRecord) /\ Caches' = Caches
           /\ \A i \in Caches : /\ created'[i].rest = created[i].rest
                                /\ created'[i].contents = created[i].contents
           /\ Live' = Live \ {n}
<1>1. created \in Seq(CacheRecord) /\ Caches = 1 .. Len(created) /\ Len(created) \in Nat
  BY NamesOfCaches DEF CacheTypeOK, CacheRecord
<1> DEFINE dead == [created[n] EXCEPT !.live = FALSE]
<1>2. \A i \in Caches : created[i] \in CacheRecord
  BY <1>1, ElementOfSeq
<1>3. dead \in CacheRecord /\ dead.rest = created[n].rest
      /\ dead.contents = created[n].contents /\ dead.live = FALSE
  BY <1>2 DEF CacheRecord
<1>4. created' = [created EXCEPT ![n] = dead]
  OBVIOUS
<1>5. /\ created' \in Seq(CacheRecord) /\ Len(created') = Len(created)
      /\ \A i \in 1 .. Len(created) : created'[i] = IF i = n THEN dead ELSE created[i]
  BY <1>1, <1>3, <1>4, ExceptSeq
<1>6. Caches' = Caches
  BY <1>1, <1>5, LenProperties DEF Caches
<1>7. \A i \in Caches : created[i].live \in BOOLEAN
  BY <1>2 DEF CacheRecord
<1>8. ASSUME NEW i \in Caches
      PROVE  /\ created'[i].rest = created[i].rest
             /\ created'[i].contents = created[i].contents
             /\ created'[i].live <=> (created[i].live /\ i # n)
  <2>1. CASE i = n
    BY <1>1, <1>3, <1>5, <2>1
  <2>2. CASE i # n
    <3>1. created'[i] = created[i]
      BY <1>1, <1>5, <2>2
    <3> QED  BY <2>2, <3>1
  <2> QED  BY <2>1, <2>2
<1>9. Live' = Live \ {n}
  BY <1>6, <1>7, <1>8 DEF Live
<1> QED  BY <1>5, <1>6, <1>8, <1>9

LEMMA CleanUpKeeps == ASSUME CacheIInv, CleanUp PROVE CacheIInv'
<1> USE DEF CacheIInv, CleanUp, SessionVars
<1>1. meta.cache \in Caches /\ meta.known /\ meta.cache = recorded.cache /\ Whole /\ touched = {}
  BY DEF Faithful, Found, Handling
<1>2. /\ created' \in Seq(CacheRecord) /\ Caches' = Caches
      /\ \A i \in Caches : /\ created'[i].rest = created[i].rest
                           /\ created'[i].contents = created[i].contents
      /\ \/ Live' = Live \ {meta.cache} /\ lost' = lost
         \/ Live' = Live /\ lost' = lost \cup {meta.cache}
  <2>1. CASE created' = [created EXCEPT ![meta.cache].live = FALSE] /\ lost' = lost
    BY <1>1, <2>1, DroppedTyped
  <2>2. CASE created' = created /\ lost' = lost \cup {meta.cache}
    BY <2>2 DEF Live, Caches, CacheTypeOK, CacheRecord
  <2> QED  BY <2>1, <2>2
<1>3. CacheTypeOK'
  BY <1>2 DEF CacheTypeOK, CacheRecord
<1>4. Faithful(recorded)' /\ Faithful(meta)'
  BY <1>2 DEF Faithful
<1>5. Found'
  BY <1>1 DEF Found, Handling, Whole
<1>6. Placed'
  BY <1>1, <1>2 DEF Placed
<1>7. Counted'
  BY DEF Counted, Serves
<1>8. RequestWhole'
  BY DEF RequestWhole
<1> QED  BY <1>3, <1>4, <1>5, <1>6, <1>7, <1>8

(* A new cache leaves the others as they are.                              *)
LEMMA AddedTyped ==
    ASSUME CacheTypeOK, NEW r \in CacheRecord, r.live, created' = Append(created, r)
    PROVE  LET name == Len(created) + 1
           IN  /\ created' \in Seq(CacheRecord) /\ name \in Nat \ {None}
               /\ Caches' = Caches \cup {name} /\ name \notin Caches
               /\ created'[name] = r /\ \A i \in Caches : created'[i] = created[i]
               /\ Live' = Live \cup {name}
<1> DEFINE name == Len(created) + 1
<1>1. created \in Seq(CacheRecord) /\ Caches = 1 .. Len(created) /\ Len(created) \in Nat
  BY NamesOfCaches DEF CacheTypeOK, CacheRecord
<1>2. /\ created' \in Seq(CacheRecord) /\ Len(created') = name
      /\ \A i \in 1 .. Len(created) : created'[i] = created[i]
      /\ created'[name] = r
  BY <1>1, AppendProperties
<1>3. Caches' = 1 .. name
  BY <1>2, LenProperties DEF Caches
<1>4. Caches' = Caches \cup {name} /\ name \notin Caches /\ name \in Nat \ {None}
  BY <1>1, <1>3 DEF None
<1>5. Live' = Live \cup {name}
  BY <1>1, <1>2, <1>4 DEF Live
<1> QED  BY <1>1, <1>2, <1>4, <1>5

LEMMA CreateKeeps == ASSUME CacheIInv, Create PROVE CacheIInv'
<1> USE DEF CacheIInv, Create, SessionVars
<1> DEFINE name == Len(created) + 1
           n == NextCount
           r == [rest |-> request.rest, live |-> TRUE, contents |-> Prefix(request.contents, n)]
<1>1. Handling /\ meta.known /\ recorded.cache \notin Live \ lost
  BY NothingOwned
<1>2. Whole /\ Live \subseteq lost
  BY <1>1 DEF Found, Placed, Handling
<1>3. n \in Cut(request.contents)
  BY <1>1, NextCountCuts
<1>4. /\ request \in [contents : Seq(ContentRecord), rest : Rest, cache : Nat]
      /\ n \in Nat
  BY <1>3, LenProperties DEF CacheTypeOK, Cut
<1>5. r \in CacheRecord
  BY <1>4, PrefixTyped DEF CacheRecord
<1>6. /\ created' \in Seq(CacheRecord) /\ name \in Nat \ {None}
      /\ Caches' = Caches \cup {name} /\ name \notin Caches
      /\ created'[name] = r /\ \A i \in Caches : created'[i] = created[i]
      /\ Live' = Live \cup {name}
  BY <1>5, AddedTyped
<1>7. LET m == FingerprintOnly(n)
      IN  /\ m \in Metadata /\ m.known /\ m.cache = None
          /\ m.count = Len(m.print.contents)
          /\ m.count # 0 => ~IsUser(m.print.contents[m.count])
          /\ m.print.rest = request.rest /\ m.print.contents = Prefix(request.contents, n)
  BY <1>3, <1>4, MadeOfCut, FingerprintTyped
<1>8. Faithful(recorded)'
  BY <1>6 DEF Faithful
<1>9. CASE /\ meta' = [FingerprintOnly(n) EXCEPT !.cache = name, !.used = 1]
           /\ Apply(name, n) /\ lost' = lost
  <2>1. /\ meta' \in Metadata /\ meta'.known /\ meta'.cache = name /\ meta'.used = 1
        /\ meta'.count = Len(meta'.print.contents)
        /\ meta'.count # 0 => ~IsUser(meta'.print.contents[meta'.count])
        /\ meta'.print.rest = r.rest /\ meta'.print.contents = r.contents
    BY <1>6, <1>7, <1>9 DEF Metadata
  <2>2. /\ r.contents \o Suffix(request.contents, n) = WithUserContent(contents)
        /\ Suffix(request.contents, n) \in Seq(ContentRecord)
        /\ Suffix(request.contents, n) # <<>>
        /\ IsUser(Suffix(request.contents, n)[Len(Suffix(request.contents, n))])
    <3>1. contents \in Seq(ContentRecord) /\ request.contents = WithUserContent(contents)
      BY <1>2 DEF CacheTypeOK, Whole
    <3> QED  BY <1>3, <3>1, RestHasUser
  <2>3. /\ request'.contents = Suffix(request.contents, n)
        /\ request'.rest = request.rest /\ request'.cache = name
        /\ request' \in [contents : Seq(ContentRecord), rest : Rest, cache : Nat]
    BY <1>4, <1>6, <1>9, <2>2 DEF Apply
  <2>4. CacheTypeOK'
    BY <1>6, <2>1, <2>3 DEF CacheTypeOK, CacheRecord
  <2>5. Faithful(meta)'
    BY <1>6, <2>1 DEF Faithful
  <2>6. Found'
    BY <2>1, <2>3 DEF Found, Handling
  <2>7. Placed'
    BY <1>2, <1>6, <1>9, <2>1 DEF Placed
  <2>8. Counted'
    <3>1. name \notin DOMAIN served
      BY <1>6 DEF CacheTypeOK
    <3>2. Serves(name) \cup {inv} = {inv}
      BY <3>1 DEF Serves
    <3>3. Cardinality({inv}) = 1
      BY FS_Singleton
    <3>4. 1 <= CacheIntervals
      BY CacheConstants
    <3>5. served' = served /\ inv' = inv /\ recorded' = recorded
      OBVIOUS
    <3>6. Serves(meta.cache)' = Serves(name)
      BY <2>1, <3>5 DEF Serves
    <3>7. Cardinality(Serves(meta.cache)' \cup {inv'}) = 1
      <4>1. Serves(meta.cache)' \cup {inv'} = {inv}
        BY <3>2, <3>5, <3>6
      <4> QED  BY <3>3, <4>1
    <3>8. Serves(recorded.cache)' = Serves(recorded.cache)
      BY <3>5 DEF Serves
    <3> QED  BY <2>1, <3>4, <3>5, <3>7, <3>8 DEF Counted
  <2>9. RequestWhole'
    <3>1. created'[request'.cache] = r /\ contents' = contents
      BY <1>6, <2>3
    <3>2. WithUserContent(contents)' = WithUserContent(contents)
      BY <3>1
    <3>3. created'[request'.cache].rest = request'.rest
      BY <2>3, <3>1
    <3>4. created'[request'.cache].contents \o request'.contents = WithUserContent(contents)'
      BY <2>2, <2>3, <3>1, <3>2
    <3>5. request'.contents # <<>> /\ IsUser(request'.contents[Len(request'.contents)])
      BY <2>2, <2>3
    <3> QED  BY <3>3, <3>4, <3>5 DEF RequestWhole
  <2> QED  BY <1>8, <2>4, <2>5, <2>6, <2>7, <2>8, <2>9
<1>10. CASE /\ meta' = FingerprintOnly(n) /\ request' = request
            /\ lost' = lost \cup {name}
  <2>1. CacheTypeOK'
    BY <1>6, <1>7, <1>10 DEF CacheTypeOK, CacheRecord
  <2>2. Faithful(meta)'
    BY <1>7, <1>10 DEF Faithful
  <2>3. Found'
    BY <1>2, <1>7, <1>10 DEF Found, Handling, Whole
  <2>4. Placed'
    BY <1>2, <1>6, <1>7, <1>10 DEF Placed
  <2>5. Counted'
    BY <1>7, <1>10 DEF Counted, Serves
  <2>6. RequestWhole'
    BY <1>2, <1>10 DEF RequestWhole, Whole
  <2> QED  BY <1>8, <2>1, <2>2, <2>3, <2>4, <2>5, <2>6
<1> QED  BY <1>9, <1>10

-----------------------------------------------------------------------------
(* The end of a call.                                                      *)

LEMMA AnswerKeeps == ASSUME CacheIInv, Answer PROVE CacheIInv'
<1> USE DEF CacheIInv, Answer
<1> DEFINE c == request.cache
<1>1. pc = "model" /\ c = meta.cache /\ c \in Live \cup {None}
  BY DEF Answered, Found
<1>2. None \notin Caches /\ Live \subseteq Caches
  BY NamesOfCaches DEF Live
<1>3. contents' \in Seq(ContentRecord) /\ made' \in Nat
  <2>1. contents \in Seq(ContentRecord) /\ made \in Nat /\ NewContent("model") \in ContentRecord
    BY NewContentTyped DEF CacheTypeOK
  <2>2. [role |-> "user", text |-> made + 2] \in ContentRecord
    BY <2>1 DEF ContentRecord
  <2>3. <<NewContent("model"), [role |-> "user", text |-> made + 2]>> \in Seq(ContentRecord)
    BY <2>1, <2>2
  <2>4. CASE contents' = Append(contents, NewContent("model")) /\ made' = made + 1
    BY <2>1, <2>4, AppendProperties
  <2>5. CASE /\ contents' = contents \o <<NewContent("model"), [role |-> "user", text |-> made + 2]>>
             /\ made' = made + 2
    BY <2>1, <2>3, <2>5, ConcatProperties
  <2> QED  BY <2>4, <2>5
<1>4. /\ DOMAIN served' = DOMAIN served \cup ({c} \ {None})
      /\ \A m \in DOMAIN served' : /\ m = c => served'[m] = Serves(m) \cup {inv}
                                   /\ m # c => served'[m] = Serves(m)
  <2>1. served' = [m \in DOMAIN served \cup ({c} \ {None}) |->
                      Serves(m) \cup (IF m = c THEN {inv} ELSE {})]
    BY DEF ServedWith
  <2> QED  BY <2>1
<1>5. \A m : IsFiniteSet(Serves(m))
  BY FS_EmptySet DEF Serves, CacheTypeOK
<1>6. meta \in Metadata /\ inv \in Nat /\ NoMeta \in Metadata /\ NoRequest.cache = None
  <2>1. meta \in Metadata /\ inv \in Nat
    BY DEF CacheTypeOK
  <2>2. NoMeta \in Metadata
    BY DEF NoMeta, Metadata, Prints, Rest, None
  <2> QED  BY <2>1, <2>2 DEF NoRequest
<1>7. /\ recorded' \in Metadata /\ recorded'.known = meta.known /\ recorded'.cache = meta.cache
      /\ recorded'.count = meta.count /\ recorded'.print = meta.print
      /\ recorded'.used = meta.used /\ recorded'.inv = inv
  BY <1>6 DEF Metadata
<1>8. CacheTypeOK'
  <2>1. DOMAIN served' \subseteq Caches
    BY <1>1, <1>2, <1>4 DEF CacheTypeOK
  <2>2. ASSUME NEW m \in DOMAIN served' PROVE IsFiniteSet(served'[m])
    <3>1. IsFiniteSet(Serves(m)) /\ IsFiniteSet(Serves(m) \cup {inv})
      BY <1>5, FS_AddElement
    <3>2. CASE m = c
      BY <1>4, <3>1, <3>2
    <3>3. CASE m # c
      <4>1. served'[m] = Serves(m)
        BY <1>4, <3>3
      <4> QED  BY <3>1, <4>1
    <3> QED  BY <3>2, <3>3
  <2>3. NoRequest \in [contents : Seq(ContentRecord), rest : Rest, cache : Nat]
    BY DEF NoRequest, Rest, None
  <2> QED  BY <1>3, <1>6, <1>7, <2>1, <2>2, <2>3 DEF CacheTypeOK, Caches
<1>9. Faithful(recorded)' /\ Faithful(meta)'
  BY <1>7 DEF Faithful, Caches, NoMeta
<1>10. Found'
  BY DEF Found, Handling
<1>11. Placed'
  BY <1>1, <1>7 DEF Placed, Live, Caches, NoMeta
<1>12. Counted'
  <2>1. ASSUME c # None
        PROVE  /\ c \in DOMAIN served' /\ served'[c] = Serves(c) \cup {inv}
               /\ Cardinality(served'[c]) <= meta.used /\ meta.used <= CacheIntervals
    BY <1>1, <1>4, <2>1 DEF Counted
  <2>2. recorded'.cache # None => /\ Cardinality(Serves(recorded.cache)') <= recorded'.used
                                  /\ recorded'.inv \in Serves(recorded.cache)'
    BY <1>1, <1>7, <2>1 DEF Serves
  <2>3. ASSUME NEW m \in DOMAIN served' PROVE Cardinality(served'[m]) <= CacheIntervals
    <3>1. CASE m = c
      <4>1. c # None /\ Cardinality(served'[c]) \in Nat /\ meta.used \in Nat
        <5>1. c # None
          BY <1>2, <1>4, <3>1 DEF CacheTypeOK
        <5>2. IsFiniteSet(served'[c])
          BY <1>8, <3>1 DEF CacheTypeOK
        <5> QED  BY <1>6, <5>1, <5>2, FS_CardinalityType DEF Metadata
      <4> QED  BY <2>1, <3>1, <4>1, CacheConstants
    <3>2. CASE m # c
      <4>1. m \in DOMAIN served /\ served'[m] = served[m]
        BY <1>4, <3>2 DEF Serves
      <4> QED  BY <4>1 DEF Counted
    <3> QED  BY <3>1, <3>2
  <2> QED  BY <2>2, <2>3 DEF Counted, NoMeta
<1>13. RequestWhole'
  BY DEF RequestWhole
<1> QED  BY <1>8, <1>9, <1>10, <1>11, <1>12, <1>13

(* A call is given up: what it created or dropped is lost.                 *)
LEMMA GivenUp ==
    ASSUME CacheIInv, pc \in {"handle", "renew", "model"}, pc' = "idle",
           lost' = lost \cup touched, touched' = {}, request' = NoRequest, meta' = NoMeta,
           contents' \in Seq(ContentRecord), made' \in Nat,
           UNCHANGED <<inv, begun, recorded, created, expired, served>>
    PROVE  CacheIInv'
<1> USE DEF CacheIInv
<1>1. CacheTypeOK'
  <2>1. NoMeta \in Metadata
    BY DEF NoMeta, Metadata, Prints, Rest, None
  <2>2. NoRequest \in [contents : Seq(ContentRecord), rest : Rest, cache : Nat]
    BY DEF NoRequest, Rest, None
  <2> QED  BY <2>1, <2>2 DEF CacheTypeOK, Caches
<1>2. Faithful(recorded)' /\ Faithful(meta)'
  BY DEF Faithful, Caches, NoMeta
<1>3. Found'
  BY DEF Found, Handling
<1>4. Placed'
  <2>1. None \notin Live
    BY NamesOfCaches DEF Live
  <2>2. Live \subseteq lost' \cup {recorded.cache}
    BY <2>1 DEF Placed
  <2> QED  BY <2>2 DEF Placed, Live, Caches, NoMeta
<1>5. Counted'
  BY DEF Counted, Serves
<1>6. RequestWhole'
  BY DEF RequestWhole
<1> QED  BY <1>1, <1>2, <1>3, <1>4, <1>5, <1>6

LEMMA AnswerUnrecordedKeeps == ASSUME CacheIInv, AnswerUnrecorded PROVE CacheIInv'
<1>1. contents \in Seq(ContentRecord) /\ made \in Nat /\ NewContent("model") \in ContentRecord
  BY NewContentTyped DEF CacheIInv, CacheTypeOK
<1>2. contents' \in Seq(ContentRecord) /\ made' \in Nat
  BY <1>1, AppendProperties DEF AnswerUnrecorded
<1> QED  BY <1>2, GivenUp DEF AnswerUnrecorded, Answered

LEMMA CallFailsKeeps == ASSUME CacheIInv, CallFails PROVE CacheIInv'
<1>1. contents' \in Seq(ContentRecord) /\ made' \in Nat
  BY DEF CacheIInv, CacheTypeOK, CallFails, SessionVars
<1> QED  BY <1>1, GivenUp DEF CallFails, SessionVars

LEMMA ExpireKeeps == ASSUME CacheIInv, NEW n \in Caches, Expire(n) PROVE CacheIInv'
<1> USE DEF CacheIInv, Expire
<1>1. /\ created' \in Seq(CacheRecord) /\ Caches' = Caches
      /\ \A i \in Caches : /\ created'[i].rest = created[i].rest
                           /\ created'[i].contents = created[i].contents
      /\ Live' = Live \ {n}
  BY DroppedTyped
<1>2. CacheTypeOK'
  BY <1>1 DEF CacheTypeOK, CacheRecord
<1>3. Faithful(recorded)' /\ Faithful(meta)'
  BY <1>1 DEF Faithful
<1>4. Found'
  BY DEF Found, Handling, Whole
<1>5. Placed'
  BY <1>1 DEF Placed
<1>6. Counted'
  BY DEF Counted, Serves
<1>7. RequestWhole'
  <2>1. pc = "model" /\ request.cache # None => request.cache \in Caches
    BY DEF Found, Faithful
  <2> QED  BY <1>1, <2>1 DEF RequestWhole
<1> QED  BY <1>2, <1>3, <1>4, <1>5, <1>6, <1>7

-----------------------------------------------------------------------------
(* The theorems.                                                           *)

LEMMA InitHolds == ASSUME Init PROVE CacheIInv
<1> USE DEF Init
<1>1. Caches = {} /\ DOMAIN served = {}
  BY EmptySeq DEF Caches
<1>2. NoMeta \in Metadata
  BY DEF NoMeta, Metadata, Prints, Rest, None
<1>3. NoRequest \in [contents : Seq(ContentRecord), rest : Rest, cache : Nat]
  BY DEF NoRequest, Rest, None
<1>4. CacheTypeOK
  BY <1>1, <1>2, <1>3 DEF CacheTypeOK
<1>5. Faithful(recorded) /\ Faithful(meta) /\ Found
  BY DEF Faithful, NoMeta, Found, Handling
<1>6. Placed
  BY <1>1 DEF Placed, NoMeta, Live
<1>7. Counted
  BY <1>1 DEF Counted, NoMeta
<1>8. RequestWhole
  BY DEF RequestWhole
<1> QED  BY <1>4, <1>5, <1>6, <1>7, <1>8 DEF CacheIInv

LEMMA NextKeeps == ASSUME CacheIInv, [Next]_vars PROVE CacheIInv'
<1>1. CASE Next
  BY <1>1, UserMessageKeeps, RewindContentsKeeps, SummariseKeeps, PreprocessKeeps,
     FirstCallKeeps, ReuseKeeps, CleanUpKeeps, CreateKeeps, NoCreationKeeps, StartOverKeeps,
     AnswerKeeps, AnswerUnrecordedKeeps, CallFailsKeeps, ExpireKeeps DEF Next
<1>2. CASE UNCHANGED vars
  BY <1>2, SMTT(60) DEF vars, CacheIInv, CacheTypeOK, Faithful, Found, Handling, Whole,
     Placed, Live, Caches, Counted, Serves, RequestWhole
<1> QED  BY <1>1, <1>2

(* The inductive invariant: what metadata names is what the cache holds,   *)
(* and every cache is where the session can find it or lost with its call. *)
THEOREM CacheInvariant == Spec => []CacheIInv
<1>1. Init => CacheIInv
  BY InitHolds
<1>2. CacheIInv /\ [Next]_vars => CacheIInv'
  BY NextKeeps
<1> QED  BY <1>1, <1>2, PTL DEF Spec

(* A request with a cache is the whole request, and the user's last words  *)
(* are sent (apply_cache_to_request).                                      *)
THEOREM CachedRequestsWhole == Spec => []RequestWhole
<1>1. CacheIInv => RequestWhole
  BY DEF CacheIInv
<1> QED  BY <1>1, CacheInvariant, PTL

(* A cache that is there is named by the session's metadata or lost with a *)
(* call, and serves cache_intervals invocations at most                    *)
(* (handle_context_caching, find_cache_info_from_events).                  *)
THEOREM MetadataIsTrue == Spec => []MetadataTrue
<1>1. ASSUME CacheIInv PROVE MetadataTrue
  <2>1. Live \subseteq lost \cup {recorded.cache, meta.cache}
    BY <1>1 DEF CacheIInv, Placed
  <2>2. pc = "model" /\ request.cache # None => request.cache \in Live \cup expired \cup lost
    BY <1>1 DEF CacheIInv, Placed, Found
  <2>3. \A n \in DOMAIN served : Cardinality(served[n]) <= CacheIntervals
    BY <1>1 DEF CacheIInv, Counted
  <2> QED  BY <2>1, <2>2, <2>3 DEF MetadataTrue
<1> QED  BY <1>1, CacheInvariant, PTL
=============================================================================
