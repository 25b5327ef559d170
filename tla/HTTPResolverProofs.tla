-------------------------- MODULE HTTPResolverProofs --------------------------
(***************************************************************************)
(* For any number of calls, keys, documents and tags, any TTL and any      *)
(* clock: the types, the soundness of the cache, and the refinement of     *)
(* SourceAuthority.  The last two assume that a 304 answers conditional    *)
(* requests only.  CacheSound also needs cache keys that keep their bytes; *)
(* the refinement needs that, or tags that tell the keys apart.  The runs  *)
(* unasked304 and aliased_key show that neither can be dropped.            *)
(***************************************************************************)
EXTENDS HTTPResolver, TLAPS

----------------------------------------------------------------------------
(* What the operators return.                                              *)

\* Decode answers with its document or with ZeroSource, and a known error.
LEMMA DecodeType ==
    ASSUME NEW k, NEW d \in Docs \cup {ZeroSource}
    PROVE  Decode(k, d) \in Answers
BY DEF Decode, Answers, Answer, Refuse, Errors

\* fetchSource: its parts have their types.
LEMMA FetchedType ==
    ASSUME NEW k, NEW r \in Replies
    PROVE  /\ Fetched(k, r).source \in Docs \cup {ZeroSource}
           /\ Fetched(k, r).etag = r.etag
           /\ Fetched(k, r).err \in Errors
           /\ Fetched(k, r).notModified = (r.status = "not_modified")
<1>1. r.source \in Docs \cup {ZeroSource}
    BY DEF Replies
<1>2. Decode(k, r.source) \in Answers
    BY <1>1, DecodeType
<1> QED
    BY <1>2 DEF Fetched, Answers, Answer, NoAnswer, Refuse, Errors

LEMMA FetchedCases ==
    ASSUME NEW k, NEW r \in Replies
    PROVE  /\ r.status = "ok" => /\ Fetched(k, r).source = Decode(k, r.source).source
                                 /\ Fetched(k, r).err = Decode(k, r.source).err
           /\ r.status = "not_found" => Answer(Fetched(k, r).source, Fetched(k, r).err) = Refuse("not_found")
           /\ r.status = "gone"      => Answer(Fetched(k, r).source, Fetched(k, r).err) = Refuse("disabled")
           /\ r.status = "failed"    => Answer(Fetched(k, r).source, Fetched(k, r).err) = Refuse("failed")
<1>1. CASE r.status = "ok"
    BY <1>1 DEF Fetched
<1>2. CASE r.status # "ok"
    BY <1>2 DEF Fetched, Refuse, Answer
<1> QED
    BY <1>1, <1>2

\* The control plane's answers are well-formed.
LEMMA ServeType ==
    ASSUME NEW k \in Keys, NEW h \in Holdings, NEW tag
    PROVE  Serve(k, h, tag) \in Replies
<1>1. CASE h \in {Missing, Gone}
    BY <1>1, DocsAssumption, ETagAssumption DEF Serve, Replies, Empty, Reply
<1>2. CASE h \in Docs
    BY <1>2, DocsAssumption, ETagAssumption DEF Serve, Replies, Empty, Reply
<1> QED
    BY <1>1, <1>2 DEF Holdings

\* A well-formed cache stays so under store.
LEMMA StoredType ==
    ASSUME cache \in [Keys -> Entries], now \in Nat,
           NEW k \in Keys, NEW s \in Docs \cup {ZeroSource}, NEW tag \in ETags \cup {NoETag}
    PROVE  Stored(k, s, tag) \in [Keys -> Entries]
BY TimeAssumption DEF Stored, Entries, Entry

LEMMA NoEntryType == NoEntry \in Entries
BY DEF NoEntry, Entry, Entries

LEMMA EmptyType ==
    ASSUME NEW st \in {"none", "ok", "not_modified", "not_found", "gone", "failed"}
    PROVE  Empty(st) \in Replies
BY DEF Empty, Reply, Replies

LEMMA RefuseType ==
    ASSUME NEW e \in Errors
    PROVE  Refuse(e) \in Answers
BY DEF Refuse, Answer, Answers, Errors

LEMMA NoAnswerType == NoAnswer \in Answers
BY RefuseType DEF NoAnswer, Errors

----------------------------------------------------------------------------
(* Types.                                                                  *)

\* A received reply of the right type preserves TypeOK.
LEMMA ReceivesType ==
    ASSUME TypeOK, NEW c \in Calls, NEW r \in Replies, Receives(c, r)
    PROVE  TypeOK'
BY DEF TypeOK, Receives

\* So does finishing a call with an answer, whatever well-formed cache it leaves.
LEMMA FinishesType ==
    ASSUME TypeOK, NEW c \in Calls, NEW x \in Answers, pc[c] = "reply",
           Finishes(c, x), cache' \in [Keys -> Entries]
    PROVE  TypeOK'
BY NoEntryType, EmptyType DEF TypeOK, Finishes

LEMMA TypeStep ==
    ASSUME TypeOK, [Next]_vars
    PROVE  TypeOK'
<1>1. ASSUME NEW k \in Keys, NEW h \in Holdings, Publish(k, h)
      PROVE  TypeOK'
    BY <1>1 DEF TypeOK, Publish
<1>2. CASE Tick
    BY <1>2, TimeAssumption DEF TypeOK, Tick
<1>3. ASSUME NEW c \in Calls, NEW k \in Keys \cup {BlankKey}, Invoke(c, k)
      PROVE  TypeOK'
    BY <1>3 DEF TypeOK, Invoke
<1>4. ASSUME NEW c \in Calls, RejectBlank(c)
      PROVE  TypeOK'
    <2>1. Refuse("not_found") \in Answers
        BY RefuseType DEF Errors
    <2> QED
        BY <1>4, <2>1 DEF TypeOK, RejectBlank
<1>5. ASSUME NEW c \in Calls, Lookup(c)
      PROVE  TypeOK'
    <2>1. key[c] \in Keys /\ cache[key[c]] \in Entries
        BY <1>5 DEF TypeOK, Lookup
    <2>2. cache' \in [Keys -> Entries] /\ held' \in [Calls -> Entries]
        BY <1>5, <2>1, NoEntryType DEF TypeOK, Lookup
    <2>3. /\ \A x \in Calls : x # c => pc'[x] = pc[x] /\ held'[x] = held[x]
          /\ pc'[c] = "send"
          /\ pc' \in [Calls -> {"idle", "start", "send", "reply", "done"}]
        BY <1>5 DEF TypeOK, Lookup
    <2> QED
        BY <1>5, <2>1, <2>2, <2>3 DEF TypeOK, Lookup
<1>6. ASSUME NEW c \in Calls, Respond(c)
      PROVE  TypeOK'
    <2>1. Serve(key[c], authority[key[c]], held[c].etag) \in Replies
        BY <1>6, ServeType DEF TypeOK, Respond, Receives
    <2> QED
        BY <1>6, <2>1, ReceivesType DEF Respond
<1>7. ASSUME NEW c \in Calls, Fail(c)
      PROVE  TypeOK'
    BY <1>7, EmptyType, ReceivesType DEF Fail
<1>8. ASSUME NEW c \in Calls, RespondSpuriously(c)
      PROVE  TypeOK'
    <2>1. PICK tag \in ETags \cup {NoETag} : Receives(c, Reply("not_modified", ZeroSource, tag))
        BY <1>8 DEF RespondSpuriously
    <2>2. Reply("not_modified", ZeroSource, tag) \in Replies
        BY DEF Reply, Replies
    <2> QED
        BY <2>1, <2>2, ReceivesType
<1>9. ASSUME NEW c \in Calls, FailClosed(c)
      PROVE  TypeOK'
    <2> DEFINE f == Fetched(key[c], reply[c])
    <2>1. f.err \in Errors
        BY FetchedType DEF TypeOK
    <2>2. Refuse(f.err) \in Answers
        BY <2>1, RefuseType
    <2> QED
        BY <1>9, <2>2, FinishesType DEF FailClosed, TypeOK
<1>10. ASSUME NEW c \in Calls, StoreRevalidated(c)
       PROVE  TypeOK'
    <2>1. /\ key[c] \in Keys
          /\ held[c].source \in Docs \cup {ZeroSource}
          /\ held[c].etag \in ETags \cup {NoETag}
        BY <1>10 DEF TypeOK, StoreRevalidated, Entries
    <2>2. cache' \in [Keys -> Entries]
        BY <1>10, <2>1, StoredType DEF StoreRevalidated, TypeOK
    <2>3. Answer(held[c].source, "nil") \in Answers
        BY <2>1 DEF Answer, Answers, Errors
    <2> QED
        BY <1>10, <2>2, <2>3, FinishesType DEF StoreRevalidated
<1>11. ASSUME NEW c \in Calls, StoreFetched(c)
       PROVE  TypeOK'
    <2> DEFINE f == Fetched(key[c], reply[c])
    <2>1. /\ key[c] \in Keys
          /\ f.source \in Docs \cup {ZeroSource}
          /\ f.etag \in ETags \cup {NoETag}
        <3>1. reply[c] \in Replies /\ key[c] \in Keys
            BY <1>11 DEF TypeOK, StoreFetched
        <3> QED
            BY <3>1, FetchedType DEF Replies
    <2>2. cache' = Stored(key[c], f.source, f.etag)
        BY <1>11 DEF StoreFetched
    <2>3. cache' \in [Keys -> Entries]
        <3>1. cache \in [Keys -> Entries] /\ now \in Nat
            BY TimeAssumption DEF TypeOK
        <3>2. Stored(key[c], f.source, f.etag) \in [Keys -> Entries]
            BY <2>1, <3>1, StoredType
        <3> QED
            BY <2>2, <3>2
    <2>4. Answer(f.source, "nil") \in Answers
        BY <2>1 DEF Answer, Answers, Errors
    <2> QED
        BY <1>11, <2>3, <2>4, FinishesType DEF StoreFetched
<1>12. ASSUME NEW c \in Calls, Return(c)
       PROVE  TypeOK'
    BY <1>12, NoAnswerType DEF TypeOK, Return
<1>13. ASSUME NEW k \in Keys, NEW other \in Keys, ReuseBuffer(k, other)
       PROVE  TypeOK'
    <2>1. cache' \in [Keys -> Entries]
        BY <1>13, NoEntryType DEF TypeOK, ReuseBuffer
    <2> QED
        BY <1>13, <2>1 DEF TypeOK, ReuseBuffer
<1>14. CASE UNCHANGED vars
    BY <1>14 DEF TypeOK, vars
<1> QED
    BY <1>1, <1>2, <1>3, <1>4, <1>5, <1>6, <1>7, <1>8, <1>9, <1>10, <1>11, <1>12, <1>13, <1>14
    DEF Next, CallNext

\* TypeOK holds in every reachable state.
THEOREM TypeCorrect == Spec => []TypeOK
<1>1. Init => TypeOK
    BY NoEntryType, EmptyType, NoAnswerType, TimeAssumption DEF Init, TypeOK
<1>2. TypeOK /\ [Next]_vars => TypeOK'
    BY TypeStep
<1> QED
    BY <1>1, <1>2, PTL DEF Spec

----------------------------------------------------------------------------
(* Soundness of the cache.  ReplySound strengthens it: what is stored      *)
(* comes from the reply in flight.  A reused buffer moves an entry under   *)
(* another key, but what the entry pairs still belongs together: it is     *)
(* Sound for SOME key, and for its own where keys keep their bytes.        *)

Vouched(k, e) ==
    e # NoEntry =>
       \E x \in Keys : /\ x = k \/ KeysAlias
                       /\ Usable(x, e.source) /\ e.etag = ETagOf[x][e.source]
CacheVouched ==
    /\ \A k \in Keys : Vouched(k, cache[k])
    /\ \A c \in Calls : pc[c] \in {"send", "reply"} => Vouched(key[c], held[c])

IInv == TypeOK /\ CacheVouched /\ ReplySound

\* Storing what is vouched for, or a usable document under its own tag, keeps every
\* entry vouched for.
LEMMA VouchedStored ==
    ASSUME TypeOK, CacheVouched, NEW k \in Keys, NEW e, e # NoEntry, Vouched(k, e)
    PROVE  \A x \in Keys : Vouched(x, Stored(k, e.source, e.etag)[x])
BY DEF TypeOK, CacheVouched, Vouched, Stored, Entry

LEMMA UsableStored ==
    ASSUME TypeOK, CacheVouched, NEW k \in Keys, NEW s, Usable(k, s)
    PROVE  \A x \in Keys : Vouched(x, Stored(k, s, ETagOf[k][s])[x])
BY DEF TypeOK, CacheVouched, Vouched, Stored, Entry

\* What a call stores when it got a document is usable, under its own tag.
LEMMA FetchedUsable ==
    ASSUME IInv, NEW c \in Calls, StoreFetched(c)
    PROVE  /\ Usable(key[c], Fetched(key[c], reply[c]).source)
           /\ Fetched(key[c], reply[c]).etag = ETagOf[key[c]][Fetched(key[c], reply[c]).source]
<1> DEFINE r == reply[c]
           f == Fetched(key[c], r)
<1>1. f.err = "nil" /\ pc[c] = "reply"
    BY DEF StoreFetched
<1>2. r \in Replies
    BY DEF IInv, TypeOK
<1>3. r.status = "ok"
    <2>1. r.status # "not_modified"
        BY <1>1, <1>2, FetchedType DEF StoreFetched, IInv, ReplySound
    <2> QED
        BY <1>1, <1>2, <2>1 DEF Fetched, Replies, Refuse, Answer
<1>4. r.source \in Docs /\ r.etag = ETagOf[key[c]][r.source]
    BY <1>1, <1>3 DEF IInv, ReplySound
<1>5. Decode(key[c], r.source).err = "nil"
    BY <1>1, <1>3 DEF Fetched
<1>6. Decode(key[c], r.source).source = r.source
    BY <1>5 DEF Decode, Refuse, Answer
<1>7. f.source = r.source /\ f.etag = r.etag
    BY <1>3, <1>6 DEF Fetched
<1> QED
    BY <1>4, <1>5, <1>7 DEF Usable

\* A reply moves no entry.
LEMMA ReceivesSound ==
    ASSUME IInv, NEW c \in Calls, NEW r, Receives(c, r)
    PROVE  CacheVouched'
BY DEF IInv, TypeOK, CacheVouched, Vouched, Receives

\* A reply that is right for its request keeps ReplySound.
LEMMA ReceivesReplySound ==
    ASSUME IInv, NEW c \in Calls, NEW r, Receives(c, r),
           r.status = "ok" => r.source \in Docs /\ r.etag = ETagOf[key[c]][r.source],
           r.status = "not_modified" => held[c] # NoEntry
    PROVE  ReplySound'
BY DEF IInv, TypeOK, ReplySound, Receives

\* A call that finishes leaves the others' captured entries and replies alone.
LEMMA FinishesSound ==
    ASSUME IInv, NEW c \in Calls, NEW x, Finishes(c, x),
           \A k \in Keys : Vouched(k, cache'[k])
    PROVE  CacheVouched' /\ ReplySound'
BY DEF IInv, TypeOK, CacheVouched, ReplySound, Vouched, Finishes

\* The control plane's answer is right for the request it answers.
LEMMA ServeSound ==
    ASSUME NEW k, NEW h \in Holdings, NEW tag
    PROVE  /\ Serve(k, h, tag).status = "ok" =>
                 /\ Serve(k, h, tag).source \in Docs
                 /\ Serve(k, h, tag).etag = ETagOf[k][Serve(k, h, tag).source]
           /\ Serve(k, h, tag).status = "not_modified" => tag # NoETag
BY DEF Serve, Reply, Empty, Holdings

LEMMA SoundStep ==
    ASSUME ~SpuriousNotModified, IInv, [Next]_vars
    PROVE  IInv'
<1> TypeOK'
    BY TypeStep DEF IInv
<1> SUFFICES CacheVouched' /\ ReplySound'
    BY DEF IInv
<1>1. ASSUME NEW k \in Keys, NEW h \in Holdings, Publish(k, h)
      PROVE  CacheVouched' /\ ReplySound'
    BY <1>1 DEF IInv, CacheVouched, ReplySound, Vouched, Publish
<1>2. CASE Tick
    BY <1>2 DEF IInv, CacheVouched, ReplySound, Vouched, Tick
<1>3. ASSUME NEW c \in Calls, NEW k \in Keys \cup {BlankKey}, Invoke(c, k)
      PROVE  CacheVouched' /\ ReplySound'
    BY <1>3 DEF IInv, TypeOK, CacheVouched, ReplySound, Vouched, Invoke
<1>4. ASSUME NEW c \in Calls, RejectBlank(c)
      PROVE  CacheVouched' /\ ReplySound'
    BY <1>4 DEF IInv, TypeOK, CacheVouched, ReplySound, Vouched, RejectBlank
<1>5. ASSUME NEW c \in Calls, Lookup(c)
      PROVE  CacheVouched' /\ ReplySound'
    <2>1. key[c] \in Keys /\ held[c] = NoEntry /\ key' = key /\ reply' = reply
        BY <1>5 DEF IInv, TypeOK, Lookup
    <2>2. /\ pc'[c] = "send"
          /\ \A x \in Calls \ {c} : pc'[x] = pc[x] /\ held'[x] = held[x]
        BY <1>5 DEF IInv, TypeOK, Lookup
    <2>3. Vouched(key[c], held'[c])
        BY <1>5, <2>1 DEF IInv, TypeOK, CacheVouched, Vouched, Lookup
    <2>4. \A k \in Keys : cache'[k] \in {cache[k], NoEntry}
        BY <1>5, <2>1 DEF IInv, TypeOK, Lookup
    <2>5. CacheVouched'
        BY <2>1, <2>2, <2>3, <2>4 DEF IInv, CacheVouched, Vouched
    <2>6. ReplySound'
        BY <2>1, <2>2 DEF IInv, ReplySound
    <2> QED
        BY <2>5, <2>6
<1>6. ASSUME NEW c \in Calls, Respond(c)
      PROVE  CacheVouched' /\ ReplySound'
    <2> DEFINE h == authority[key[c]]
               r == Serve(key[c], h, held[c].etag)
    <2>1. h \in Holdings /\ Receives(c, r)
        BY <1>6 DEF IInv, TypeOK, Respond
    <2>2. r.status = "not_modified" => held[c] # NoEntry
        BY <2>1, ServeSound DEF NoEntry, Entry
    <2>3. r.status = "ok" => r.source \in Docs /\ r.etag = ETagOf[key[c]][r.source]
        BY <2>1, ServeSound
    <2>4. CacheVouched'
        BY <2>1, ReceivesSound
    <2>5. ReplySound'
        BY <2>1, <2>2, <2>3, ReceivesReplySound
    <2> QED
        BY <2>4, <2>5
<1>7. ASSUME NEW c \in Calls, Fail(c)
      PROVE  CacheVouched' /\ ReplySound'
    <2>1. Empty("failed").status = "failed"
        BY DEF Empty, Reply
    <2> QED
        BY <1>7, <2>1, ReceivesSound, ReceivesReplySound DEF Fail
<1>8. ASSUME NEW c \in Calls, RespondSpuriously(c)
      PROVE  CacheVouched' /\ ReplySound'
    BY <1>8 DEF RespondSpuriously
<1>9. ASSUME NEW c \in Calls, FailClosed(c)
      PROVE  CacheVouched' /\ ReplySound'
    <2>1. PICK x : Finishes(c, x)
        BY <1>9 DEF FailClosed
    <2>2. \A k \in Keys : Vouched(k, cache'[k])
        BY <1>9 DEF FailClosed, IInv, CacheVouched
    <2> QED
        BY <2>1, <2>2, FinishesSound
<1>10. ASSUME NEW c \in Calls, StoreRevalidated(c)
       PROVE  CacheVouched' /\ ReplySound'
    <2>1. key[c] \in Keys /\ Vouched(key[c], held[c]) /\ held[c] # NoEntry
        BY <1>10 DEF StoreRevalidated, IInv, TypeOK, CacheVouched
    <2>2. cache' = Stored(key[c], held[c].source, held[c].etag)
        BY <1>10 DEF StoreRevalidated
    <2>3. \A k \in Keys : Vouched(k, cache'[k])
        BY <2>1, <2>2, VouchedStored DEF IInv
    <2> QED
        BY <1>10, <2>3, FinishesSound DEF StoreRevalidated
<1>11. ASSUME NEW c \in Calls, StoreFetched(c)
       PROVE  CacheVouched' /\ ReplySound'
    <2> DEFINE s == Fetched(key[c], reply[c]).source
    <2>1. key[c] \in Keys /\ Usable(key[c], s)
        BY <1>11, FetchedUsable DEF StoreFetched, IInv, TypeOK
    <2>2. cache' = Stored(key[c], s, ETagOf[key[c]][s]) /\ Finishes(c, Answer(s, "nil"))
        BY <1>11, FetchedUsable DEF StoreFetched
    <2>3. \A k \in Keys : Vouched(k, Stored(key[c], s, ETagOf[key[c]][s])[k])
        BY <2>1, UsableStored DEF IInv
    <2> QED
        BY <2>2, <2>3, FinishesSound
<1>12. ASSUME NEW c \in Calls, Return(c)
       PROVE  CacheVouched' /\ ReplySound'
    BY <1>12 DEF IInv, TypeOK, CacheVouched, ReplySound, Vouched, Return
<1>13. ASSUME NEW k \in Keys, NEW other \in Keys, ReuseBuffer(k, other)
       PROVE  CacheVouched' /\ ReplySound'
    <2>1. KeysAlias /\ UNCHANGED <<pc, key, held, reply>>
        BY <1>13 DEF ReuseBuffer
    <2>2. \A x \in Keys : cache'[x] \in {cache[x], NoEntry} \/ cache'[x] = cache[k]
        BY <1>13 DEF ReuseBuffer, IInv, TypeOK
    <2>3. \A x \in Keys : Vouched(x, cache'[x])
        BY <2>1, <2>2 DEF IInv, CacheVouched, Vouched
    <2> QED
        BY <2>1, <2>3 DEF IInv, CacheVouched, ReplySound, Vouched
<1>14. CASE UNCHANGED vars
    BY <1>14 DEF IInv, CacheVouched, ReplySound, Vouched, vars
<1> QED
    BY <1>1, <1>2, <1>3, <1>4, <1>5, <1>6, <1>7, <1>8, <1>9, <1>10, <1>11, <1>12, <1>13, <1>14
    DEF Next, CallNext

LEMMA InitInv == Init => IInv
<1> SUFFICES ASSUME Init
             PROVE  IInv
    OBVIOUS
<1>1. TypeOK
    BY NoEntryType, EmptyType, NoAnswerType, TimeAssumption DEF Init, TypeOK
<1> QED
    BY <1>1 DEF Init, IInv, CacheVouched, ReplySound, Vouched

LEMMA IInvInvariant ==
    ASSUME ~SpuriousNotModified
    PROVE  Spec => []IInv
<1>1. IInv /\ [Next]_vars => IInv'
    BY SoundStep
<1> QED
    BY <1>1, InitInv, PTL DEF Spec

\* The cache and every captured copy of it hold validated, enabled documents
\* under their own tags, however concurrent requests interleave.
THEOREM CacheSoundness ==
    ASSUME ~SpuriousNotModified, ~KeysAlias
    PROVE  Spec => []CacheSound
<1>1. IInv => CacheSound
    BY DEF IInv, CacheVouched, Vouched, CacheSound, Sound
<1> QED
    BY <1>1, IInvInvariant, PTL

----------------------------------------------------------------------------
(* The refinement: Respond and Fail are the instants calls take effect.    *)

\* A step that touches one call maps to a step on that call alone.
LEMMA BarOne ==
    ASSUME NEW c \in Calls,
           \A d \in Calls \ {c} :
              /\ pc'[d] = pc[d] /\ key'[d] = key[d] /\ held'[d] = held[d]
              /\ reply'[d] = reply[d] /\ result'[d] = result[d]
    PROVE  callBar' = [callBar EXCEPT ![c] = Bar(c)']
<1>1. ASSUME NEW d \in Calls \ {c} PROVE Bar(d)' = Bar(d)
    <2>1. /\ pc'[d] = pc[d] /\ key'[d] = key[d] /\ held'[d] = held[d]
          /\ reply'[d] = reply[d] /\ result'[d] = result[d]
        OBVIOUS
    <2>2. Status(d)' = Status(d)
        BY <2>1 DEF Status
    <2>3. Outcome(d)' = Outcome(d)
        BY <2>1 DEF Outcome
    <2> QED
        BY <2>1, <2>2, <2>3 DEF Bar
<1>2. /\ callBar = [d \in Calls |-> Bar(d)]
      /\ callBar' = [d \in Calls |-> Bar(d)']
    BY DEF callBar
<1> QED
    BY <1>1, <1>2

\* A received reply answers the pending call with its outcome.
LEMMA ReceivesBar ==
    ASSUME IInv, NEW c \in Calls, NEW r, Receives(c, r)
    PROVE  /\ callBar[c] = [status |-> "pending", key |-> key[c], answer |-> NoAnswer]
           /\ callBar' = [callBar EXCEPT ![c] =
                 [status |-> "answered", key |-> key[c], answer |-> Outcome(c)']]
           /\ key[c] \in Keys
           /\ reply'[c] = r /\ held' = held /\ key' = key
<1>1. /\ pc[c] = "send" /\ pc'[c] = "reply" /\ key' = key /\ held' = held
      /\ result' = result /\ reply'[c] = r /\ key[c] \in Keys /\ result[c] = NoAnswer
    BY DEF Receives, IInv, TypeOK
<1>2. \A d \in Calls \ {c} : pc'[d] = pc[d] /\ reply'[d] = reply[d]
    BY DEF Receives, IInv, TypeOK
<1>3. callBar' = [callBar EXCEPT ![c] = Bar(c)']
    BY <1>1, <1>2, BarOne
<1>4. Bar(c)' = [status |-> "answered", key |-> key[c], answer |-> Outcome(c)']
    BY <1>1 DEF Bar, Status
<1>5. callBar[c] = [status |-> "pending", key |-> key[c], answer |-> NoAnswer]
    BY <1>1 DEF callBar, Bar, Status
<1> QED
    BY <1>1, <1>3, <1>4, <1>5

\* If the abstract call may take that outcome, the step is its TakeEffect.
LEMMA ReceivesTakesEffect ==
    ASSUME IInv, NEW c \in Calls, NEW r, NEW x, Receives(c, r), authority' = authority,
           Outcome(c)' = x, x \in Authority!Verdicts(key[c])
    PROVE  Authority!TakeEffect(c)
<1>1. callBar[c] = [status |-> "pending", key |-> key[c], answer |-> NoAnswer]
    BY ReceivesBar
<1>2. callBar[c].status = "pending" /\ callBar[c].key = key[c]
    BY <1>1
<1>3. callBar' = [callBar EXCEPT ![c] = [status |-> "answered", key |-> key[c], answer |-> Outcome(c)']]
    BY ReceivesBar
<1>4. callBar' = [callBar EXCEPT ![c] = [status |-> "answered", key |-> key[c], answer |-> x]]
    BY <1>3
<1> QED
    BY <1>2, <1>4 DEF Authority!TakeEffect

\* Finishing with the outcome of the reply changes nothing a caller sees.
LEMMA FinishesBar ==
    ASSUME IInv, NEW c \in Calls, pc[c] = "reply", Finishes(c, Outcome(c))
    PROVE  callBar' = callBar
<1>1. /\ key' = key /\ pc'[c] = "done" /\ result'[c] = Outcome(c)
      /\ \A d \in Calls \ {c} :
            /\ pc'[d] = pc[d] /\ key'[d] = key[d] /\ held'[d] = held[d]
            /\ reply'[d] = reply[d] /\ result'[d] = result[d]
    BY DEF Finishes, IInv, TypeOK
<1>2. Bar(c)' = Bar(c)
    BY <1>1 DEF Bar, Status
<1> QED
    BY <1>1, <1>2, BarOne DEF callBar

\* Tags of different write keys never coincide, as those of content hashes.
TagsNameKeys ==
    \A k1, k2 \in Keys : \A d1, d2 \in Docs :
       ETagOf[k1][d1] = ETagOf[k2][d2] /\ ETagOf[k1][d1] # NoETag => k1 = k2 /\ d1 = d2

\* The outcome of the control plane's answer is the verdict on its holding:
\* a 304 confirms the captured document because its tag names no other.
LEMMA ServeVerdict ==
    ASSUME KeysAlias => TagsNameKeys,
           NEW k \in Keys, NEW h \in Holdings, NEW e, Vouched(k, e)
    PROVE  LET f == Fetched(k, Serve(k, h, e.etag)) IN
           (IF f.notModified /\ e # NoEntry THEN Answer(e.source, "nil")
            ELSE Answer(f.source, f.err)) = Verdict(k, h)
<1> DEFINE r == Serve(k, h, e.etag)
<1>0. k # BlankKey
    BY BlankKeyAssumption
<1>1. CASE h = Missing
    <2>0. r = Empty("not_found")
        BY <1>1, DocsAssumption DEF Serve
    <2>1. r \in Replies /\ r.status = "not_found"
        BY <2>0, EmptyType DEF Empty, Reply
    <2>2. ~Fetched(k, r).notModified
        BY <2>1, FetchedType
    <2>3. Verdict(k, h) = Refuse("not_found")
        BY <1>1, DocsAssumption DEF Verdict
    <2> QED
        BY <2>1, <2>2, <2>3, FetchedCases
<1>2. CASE h = Gone
    <2>0. r = Empty("gone")
        BY <1>2, DocsAssumption DEF Serve
    <2>1. r \in Replies /\ r.status = "gone"
        BY <2>0, EmptyType DEF Empty, Reply
    <2>2. ~Fetched(k, r).notModified
        BY <2>1, FetchedType
    <2>3. Verdict(k, h) = Refuse("disabled")
        BY <1>0, <1>2, DocsAssumption DEF Verdict
    <2> QED
        BY <2>1, <2>2, <2>3, FetchedCases
<1>3. CASE h \in Docs /\ e.etag # NoETag /\ e.etag = ETagOf[k][h]
    <2>1. e # NoEntry
        BY <1>3 DEF NoEntry, Entry
    <2>2. e.source = h /\ Decode(k, h).err = "nil"
        BY <1>3, <2>1, ETagAssumption DEF Vouched, Usable, TagsNameKeys
    <2>3. r.status = "not_modified"
        BY <1>3, DocsAssumption DEF Serve, Reply
    <2>4. Fetched(k, r).notModified
        BY <2>3 DEF Fetched
    <2>5. Verdict(k, h) = Decode(k, h)
        BY <1>0, <1>3, DocsAssumption DEF Verdict
    <2>6. Decode(k, h) = Answer(h, "nil")
        BY <2>2 DEF Decode, Refuse, Answer
    <2> QED
        BY <2>1, <2>2, <2>4, <2>5, <2>6
<1>4. CASE h \in Docs /\ ~(e.etag # NoETag /\ e.etag = ETagOf[k][h])
    <2>0. r = Reply("ok", h, ETagOf[k][h])
        BY <1>4, DocsAssumption DEF Serve
    <2>1. r.status = "ok" /\ r.source = h /\ r \in Replies
        BY <2>0, ServeType DEF Reply
    <2>2. /\ ~Fetched(k, r).notModified
          /\ Fetched(k, r).source = Decode(k, h).source
          /\ Fetched(k, r).err = Decode(k, h).err
        BY <2>1, FetchedType, FetchedCases
    <2>3. Verdict(k, h) = Decode(k, h)
        BY <1>0, <1>4, DocsAssumption DEF Verdict
    <2>4. Decode(k, h) = Answer(Decode(k, h).source, Decode(k, h).err)
        BY DEF Decode, Refuse, Answer
    <2> QED
        BY <2>2, <2>3, <2>4
<1> QED
    BY <1>1, <1>2, <1>3, <1>4 DEF Holdings

\* What each step is for the callers.  An edit of the control plane is one.
LEMMA PublishMaps ==
    ASSUME NEW k \in Keys, NEW h \in Holdings, Publish(k, h)
    PROVE  Authority!Publish(k, h)
<1>1. callBar' = callBar
    BY DEF Publish, callBar, Bar, Status, Outcome
<1> QED
    BY <1>1 DEF Publish, Authority!Publish

LEMMA InvokeMaps ==
    ASSUME IInv, NEW c \in Calls, NEW k \in Keys \cup {BlankKey}, Invoke(c, k)
    PROVE  Authority!Invoke(c, k)
<1>1. /\ pc[c] = "idle" /\ pc'[c] = "start" /\ key'[c] = k /\ result' = result
      /\ result[c] = NoAnswer
      /\ \A d \in Calls \ {c} :
            /\ pc'[d] = pc[d] /\ key'[d] = key[d] /\ held'[d] = held[d]
            /\ reply'[d] = reply[d] /\ result'[d] = result[d]
    BY DEF Invoke, IInv, TypeOK
<1>2. callBar' = [callBar EXCEPT ![c] = Bar(c)']
    BY <1>1, BarOne
<1>3. /\ Bar(c)' = [status |-> "pending", key |-> k, answer |-> NoAnswer]
      /\ callBar[c].status = "idle"
    BY <1>1 DEF callBar, Bar, Status
<1> QED
    BY <1>2, <1>3 DEF Invoke, Authority!Invoke, Authority!NoAnswer, Authority!Refuse,
       Authority!Answer, NoAnswer, Refuse, Answer

\* A call takes effect when it gets a blank key or an HTTP outcome, and in no other step.
LEMMA CallMaps ==
    ASSUME ~SpuriousNotModified, KeysAlias => TagsNameKeys,
           IInv, NEW c \in Calls, CallNext(c)
    PROVE  Authority!TakeEffect(c) \/ UNCHANGED Authority!vars
<1>1. CASE RejectBlank(c)
    <2>1. /\ pc[c] = "start" /\ pc'[c] = "done" /\ key[c] = BlankKey /\ key' = key
          /\ result'[c] = Refuse("not_found")
          /\ \A d \in Calls \ {c} :
                /\ pc'[d] = pc[d] /\ key'[d] = key[d] /\ held'[d] = held[d]
                /\ reply'[d] = reply[d] /\ result'[d] = result[d]
        BY <1>1 DEF RejectBlank, IInv, TypeOK
    <2>2. callBar' = [callBar EXCEPT ![c] = Bar(c)']
        BY <2>1, BarOne
    <2>3. Bar(c)' = [status |-> "answered", key |-> BlankKey, answer |-> Refuse("not_found")]
        BY <2>1 DEF Bar, Status
    <2>4. callBar[c].status = "pending" /\ callBar[c].key = BlankKey
        BY <2>1 DEF callBar, Bar, Status
    <2>5. Refuse("not_found") \in Authority!Verdicts(BlankKey)
        BY DEF Authority!Verdicts, Authority!Refuse, Authority!Answer, Refuse, Answer
    <2> QED
        BY <1>1, <2>2, <2>3, <2>4, <2>5 DEF Authority!TakeEffect, RejectBlank
<1>2. CASE Lookup(c)
    <2>1. /\ pc[c] = "start" /\ pc'[c] = "send" /\ key' = key /\ reply' = reply
          /\ result' = result /\ authority' = authority
          /\ \A d \in Calls \ {c} : pc'[d] = pc[d] /\ held'[d] = held[d]
        BY <1>2 DEF Lookup, IInv, TypeOK
    <2>2. callBar' = [callBar EXCEPT ![c] = Bar(c)']
        BY <2>1, BarOne
    <2>3. Bar(c)' = Bar(c)
        BY <2>1 DEF Bar, Status
    <2> QED
        BY <2>1, <2>2, <2>3 DEF callBar, Authority!vars
<1>3. CASE Respond(c)
    <2> DEFINE h == authority[key[c]]
               r == Serve(key[c], h, held[c].etag)
    <2>1. Receives(c, r) /\ authority' = authority /\ pc[c] = "send"
        BY <1>3 DEF Respond, Receives
    <2>2. key[c] \in Keys /\ h \in Holdings /\ Vouched(key[c], held[c])
        BY <2>1 DEF IInv, TypeOK, CacheVouched
    <2>3. reply'[c] = r /\ held' = held /\ key' = key
        BY <2>1, ReceivesBar
    <2>4. Outcome(c)' = Verdict(key[c], h)
        <3>1. Outcome(c)' = LET f == Fetched(key[c], r) IN
                            IF f.notModified /\ held[c] # NoEntry THEN Answer(held[c].source, "nil")
                            ELSE Answer(f.source, f.err)
            BY <2>3 DEF Outcome
        <3> QED
            BY <2>2, <3>1, ServeVerdict
    <2>5. Verdict(key[c], h) \in Authority!Verdicts(key[c])
        <3>1. Authority!Verdict(key[c], h) = Verdict(key[c], h)
            BY DEF Authority!Verdict, Authority!Decode, Authority!Refuse, Authority!Answer,
               Verdict, Decode, Refuse, Answer
        <3> QED
            BY <2>2, <3>1, BlankKeyAssumption DEF Authority!Verdicts
    <2> QED
        BY <2>1, <2>4, <2>5, ReceivesTakesEffect
<1>4. CASE Fail(c)
    <2>1. Receives(c, Empty("failed")) /\ authority' = authority
        BY <1>4 DEF Fail, Receives
    <2>2. reply'[c] = Empty("failed") /\ key[c] \in Keys
        BY <2>1, ReceivesBar
    <2>3. Outcome(c)' = Refuse("failed")
        <3> DEFINE r == Empty("failed")
        <3>1. r \in Replies /\ r.status = "failed"
            BY EmptyType DEF Empty, Reply
        <3>2. ~Fetched(key[c]', r).notModified
            BY <3>1, FetchedType
        <3>3. Outcome(c)' = Answer(Fetched(key[c]', r).source, Fetched(key[c]', r).err)
            BY <2>2, <3>2 DEF Outcome
        <3> QED
            BY <3>1, <3>3, FetchedCases
    <2>4. Refuse("failed") \in Authority!Verdicts(key[c])
        BY <2>2, BlankKeyAssumption DEF Authority!Verdicts, Authority!Refuse, Authority!Answer,
           Refuse, Answer
    <2> QED
        BY <2>1, <2>3, <2>4, ReceivesTakesEffect
<1>5. CASE RespondSpuriously(c)
    BY <1>5 DEF RespondSpuriously
<1>6. CASE FailClosed(c)
    <2> DEFINE f == Fetched(key[c], reply[c])
    <2>1. f.err # "nil" /\ Finishes(c, Refuse(f.err)) /\ pc[c] = "reply"
        BY <1>6 DEF FailClosed
    <2>2. ~f.notModified /\ f.source = ZeroSource
        BY <2>1 DEF Fetched, NoAnswer, Decode, Refuse, Answer
    <2>3. Outcome(c) = Refuse(f.err)
        BY <2>2 DEF Outcome, Refuse
    <2> QED
        BY <2>1, <2>3, FinishesBar DEF Authority!vars, Finishes
<1>7. CASE StoreRevalidated(c)
    <2>1. Outcome(c) = Answer(held[c].source, "nil")
        BY <1>7 DEF StoreRevalidated, Outcome
    <2> QED
        BY <1>7, <2>1, FinishesBar DEF StoreRevalidated, Authority!vars, Finishes
<1>8. CASE StoreFetched(c)
    <2> DEFINE f == Fetched(key[c], reply[c])
    <2>1. f.err = "nil" /\ pc[c] = "reply" /\ Finishes(c, Answer(f.source, "nil"))
        BY <1>8 DEF StoreFetched
    <2>2. Outcome(c) = Answer(f.source, "nil")
        BY <1>8, <2>1 DEF StoreFetched, Outcome
    <2> QED
        BY <2>1, <2>2, FinishesBar DEF Authority!vars, Finishes
<1> QED
    BY <1>1, <1>2, <1>3, <1>4, <1>5, <1>6, <1>7, <1>8 DEF CallNext

\* What a call returns is the answer it took effect with.
LEMMA ReturnMaps ==
    ASSUME IInv, NEW c \in Calls, Return(c)
    PROVE  Authority!Return(c) /\ callBar[c].answer = result[c]
<1>1. /\ pc[c] = "done" /\ pc'[c] = "idle" /\ key'[c] = BlankKey /\ result'[c] = NoAnswer
      /\ \A d \in Calls \ {c} :
            /\ pc'[d] = pc[d] /\ key'[d] = key[d] /\ held'[d] = held[d]
            /\ reply'[d] = reply[d] /\ result'[d] = result[d]
    BY DEF Return, IInv, TypeOK
<1>2. callBar' = [callBar EXCEPT ![c] = Bar(c)']
    BY <1>1, BarOne
<1>3. /\ Bar(c)' = [status |-> "idle", key |-> BlankKey, answer |-> NoAnswer]
      /\ callBar[c].status = "answered" /\ callBar[c].answer = result[c]
    BY <1>1 DEF callBar, Bar, Status
<1> QED
    BY <1>2, <1>3 DEF Return, Authority!Return, Authority!Idle, Authority!NoAnswer,
       Authority!Refuse, Authority!Answer, NoAnswer, Refuse, Answer

\* Callers see neither the clock nor what becomes of the cache between calls.
LEMMA HiddenMaps ==
    ASSUME Tick \/ (\E k, other \in Keys : ReuseBuffer(k, other)) \/ UNCHANGED vars
    PROVE  UNCHANGED Authority!vars
BY DEF Tick, ReuseBuffer, vars, Authority!vars, callBar, Bar, Status, Outcome

LEMMA RefinementStep ==
    ASSUME ~SpuriousNotModified, KeysAlias => TagsNameKeys, IInv, [Next]_vars
    PROVE  [Authority!Next]_(Authority!vars)
<1>1. ASSUME NEW k \in Keys, NEW h \in Holdings, Publish(k, h)
      PROVE  Authority!Next
    BY <1>1, PublishMaps DEF Authority!Next, Authority!Holdings, Holdings
<1>2. ASSUME NEW c \in Calls, NEW k \in Keys \cup {BlankKey}, Invoke(c, k)
      PROVE  Authority!Next
    BY <1>2, InvokeMaps DEF Authority!Next
<1>3. ASSUME NEW c \in Calls, CallNext(c)
      PROVE  [Authority!Next]_(Authority!vars)
    BY <1>3, CallMaps DEF Authority!Next
<1>4. ASSUME NEW c \in Calls, Return(c)
      PROVE  Authority!Next
    BY <1>4, ReturnMaps DEF Authority!Next
<1> QED
    BY <1>1, <1>2, <1>3, <1>4, HiddenMaps DEF Next

LEMMA InitMaps == Init => Authority!Init
<1> SUFFICES ASSUME Init
             PROVE  Authority!Init
    OBVIOUS
<1>1. callBar = [c \in Calls |-> Authority!Idle]
    BY DEF Init, callBar, Bar, Status, Authority!Idle, Authority!NoAnswer,
       Authority!Refuse, Authority!Answer, NoAnswer, Refuse, Answer
<1> QED
    BY <1>1 DEF Init, Authority!Init, Holdings, Authority!Holdings

\* HTTPResolver implements SourceAuthority: a success is the control plane's
\* word at one instant of the call, however many requests race on the cache, and
\* even where keys alias, provided that tags tell the keys apart: an entry found
\* under a wrong key is never served, and no 304 confirms it.
THEOREM Refinement ==
    ASSUME ~SpuriousNotModified, KeysAlias => TagsNameKeys
    PROVE  Spec => ImplementsAuthority
<1>1. IInv /\ [Next]_vars => [Authority!Next]_(Authority!vars)
    BY RefinementStep
<1> QED
    BY <1>1, InitMaps, IInvInvariant, PTL DEF Spec, ImplementsAuthority, Authority!Spec
=============================================================================
