----------------------------- MODULE HTTPResolver -----------------------------
(***************************************************************************)
(* internal/controlplane/http_resolver.go: the resolver that answers for a *)
(* SaaS control plane.  ResolveSource runs in one goroutine per collect or *)
(* query request.  Each looks the write key up in a cache shared under a   *)
(* mutex, asks the control plane over HTTP (conditionally, when it holds a *)
(* cached entry), and stores what comes back.  The mutex is NOT held       *)
(* across the HTTP call, so the cache, the clock and the control plane all *)
(* move between a lookup and the store that follows it.                    *)
(***************************************************************************)
EXTENDS RuntimeSource, Naturals

CONSTANTS
    Calls,              \* concurrent ResolveSource calls
    ETags,              \* entity tags the control plane may send
    NoETag,             \* the ETag header is absent or blank
    ETagOf,             \* ETagOf[k][d]: the tag sent with d when it answers for k
    TTL,                \* CacheTTL in clock ticks; 0 turns the cache off
    MaxTime,            \* bound on the clock
    SpuriousNotModified,\* a 304 may answer a request without If-None-Match
    KeysAlias           \* the strings that key r.cache share Fiber's request buffers

ASSUME TimeAssumption == TTL \in Nat /\ MaxTime \in Nat

\* An entity tag names one version of one resource (RFC 9110, 8.8.3): tags of
\* different write keys may coincide.
ASSUME ETagAssumption ==
    /\ NoETag \notin ETags
    /\ ETagOf \in [Keys -> [Docs -> ETags \cup {NoETag}]]
    /\ \A k \in Keys : \A d1, d2 \in Docs :
          ETagOf[k][d1] = ETagOf[k][d2] /\ ETagOf[k][d1] # NoETag => d1 = d2

VARIABLES
    authority,  \* what the control plane holds for each write key
    cache,      \* r.cache; NoEntry stands for an absent key
    now,        \* r.now()
    pc,         \* where each ResolveSource call is
    key,        \* its trimmed write key
    held,       \* the cached entry it captured; NoEntry after a miss
    reply,      \* the HTTP outcome it received
    result      \* the (SourceConfig, error) it returns

vars == <<authority, cache, now, pc, key, held, reply, result>>

----------------------------------------------------------------------------
\* cachedSourceConfig.  The zero value is never live, so it reads as absent.
Entry(s, tag, deadline) == [source |-> s, etag |-> tag, expiresAt |-> deadline]
Entries == [source : Docs \cup {ZeroSource}, etag : ETags \cup {NoETag}, expiresAt : Nat]
NoEntry == Entry(ZeroSource, NoETag, 0)

\* One HTTP outcome: a status class, the document in the body, the ETag header.
Reply(st, s, tag) == [status |-> st, source |-> s, etag |-> tag]
Replies == [status : {"none", "ok", "not_modified", "not_found", "gone", "failed"},
            source : Docs \cup {ZeroSource}, etag : ETags \cup {NoETag}]
Empty(st) == Reply(st, ZeroSource, NoETag)

\* The control plane's answer for write key k to a request with If-None-Match: tag.
Serve(k, h, tag) ==
    CASE h = Missing -> Empty("not_found")
      [] h = Gone    -> Empty("gone")
      [] h \in Docs /\ tag # NoETag /\ tag = ETagOf[k][h] -> Reply("not_modified", ZeroSource, tag)
      [] OTHER       -> Reply("ok", h, ETagOf[k][h])

\* The values fetchSource returns for reply r to a request for write key k.
Fetched(k, r) ==
    LET a == CASE r.status = "ok"           -> Decode(k, r.source)
               [] r.status = "not_modified" -> NoAnswer
               [] r.status = "not_found"    -> Refuse("not_found")
               [] r.status = "gone"         -> Refuse("disabled")
               [] OTHER                     -> Refuse("failed")
    IN [source |-> a.source, etag |-> r.etag,
        notModified |-> r.status = "not_modified", err |-> a.err]

\* cached: a live entry; the deadline is exclusive.
Live(k) == TTL > 0 /\ now < cache[k].expiresAt

\* store
Stored(k, s, tag) ==
    IF TTL = 0 THEN cache ELSE [cache EXCEPT ![k] = Entry(s, tag, now + TTL)]

----------------------------------------------------------------------------
Init ==
    /\ authority \in [Keys -> Holdings]
    /\ cache = [k \in Keys |-> NoEntry]
    /\ now = 0
    /\ pc = [c \in Calls |-> "idle"]
    /\ key = [c \in Calls |-> BlankKey]
    /\ held = [c \in Calls |-> NoEntry]
    /\ reply = [c \in Calls |-> Empty("none")]
    /\ result = [c \in Calls |-> NoAnswer]

\* The environment: the control plane changes a source, time passes.
Publish(k, h) ==
    /\ authority' = [authority EXCEPT ![k] = h]
    /\ UNCHANGED <<cache, now, pc, key, held, reply, result>>

Tick ==
    /\ now < MaxTime
    /\ now' = now + 1
    /\ UNCHANGED <<authority, cache, pc, key, held, reply, result>>

\* The write key of a request is a slice of a buffer that Fiber gives to a later
\* request (handler.go:403-409; fiber.New without Immutable, handler.go:76).
\* store keeps it as a map key: when the request is over its bytes change, and the
\* entry is found under another key, or no more.
ReuseBuffer(k, other) ==
    /\ KeysAlias
    /\ k # other /\ cache[k] # NoEntry
    /\ \A c \in Calls : key[c] # k
    /\ \/ cache' = [cache EXCEPT ![k] = NoEntry, ![other] = cache[k]]
       \/ cache' = [cache EXCEPT ![k] = NoEntry]
    /\ UNCHANGED <<authority, now, pc, key, held, reply, result>>

Invoke(c, k) ==
    /\ pc[c] = "idle"
    /\ pc' = [pc EXCEPT ![c] = "start"]
    /\ key' = [key EXCEPT ![c] = k]
    /\ UNCHANGED <<authority, cache, now, held, reply, result>>

RejectBlank(c) ==
    /\ pc[c] = "start" /\ key[c] = BlankKey
    /\ pc' = [pc EXCEPT ![c] = "done"]
    /\ result' = [result EXCEPT ![c] = Refuse("not_found")]
    /\ UNCHANGED <<authority, cache, now, key, held, reply>>

\* Mutant: a live entry is served for its TTL without asking the control plane.
LookupServesHit(c) ==
    /\ pc[c] = "start" /\ key[c] # BlankKey
    /\ \/ /\ Live(key[c])
          /\ pc' = [pc EXCEPT ![c] = "done"]
          /\ result' = [result EXCEPT ![c] = Answer(cache[key[c]].source, "nil")]
       \/ /\ ~Live(key[c])
          /\ pc' = [pc EXCEPT ![c] = "send"]
          /\ UNCHANGED result
    /\ UNCHANGED <<authority, cache, now, key, held, reply>>

\* cached() in one critical section: capture the live entry, or drop a dead one.
Lookup(c) ==
    /\ pc[c] = "start" /\ key[c] # BlankKey
    /\ pc' = [pc EXCEPT ![c] = "send"]
    /\ \/ /\ Live(key[c])
          /\ held' = [held EXCEPT ![c] = cache[key[c]]]
          /\ UNCHANGED cache
       \/ /\ ~Live(key[c])
          /\ cache' = IF TTL = 0 THEN cache ELSE [cache EXCEPT ![key[c]] = NoEntry]
          /\ UNCHANGED held
    /\ UNCHANGED <<authority, now, key, reply, result>>

Receives(c, r) ==
    /\ pc[c] = "send"
    /\ pc' = [pc EXCEPT ![c] = "reply"]
    /\ reply' = [reply EXCEPT ![c] = r]
    /\ UNCHANGED <<authority, cache, now, key, held, result>>

\* The control plane reads its holding and answers.
Respond(c) == pc[c] = "send" /\ Receives(c, Serve(key[c], authority[key[c]], held[c].etag))

\* Transport error, client timeout, cancelled request, redirect, 5xx, or a
\* body that cannot be read or parsed.
Fail(c) == Receives(c, Empty("failed"))

\* A 304 that nothing conditional was asked for.
RespondSpuriously(c) ==
    /\ SpuriousNotModified
    /\ held[c].etag = NoETag
    /\ \E tag \in ETags \cup {NoETag} : Receives(c, Reply("not_modified", ZeroSource, tag))

Finishes(c, a) ==
    /\ pc' = [pc EXCEPT ![c] = "done"]
    /\ result' = [result EXCEPT ![c] = a]
    /\ held' = [held EXCEPT ![c] = NoEntry]
    /\ reply' = [reply EXCEPT ![c] = Empty("none")]
    /\ UNCHANGED <<authority, now, key>>

\* Any error: nothing is stored and nothing is evicted.
FailClosed(c) ==
    /\ pc[c] = "reply"
    /\ LET f == Fetched(key[c], reply[c]) IN
          /\ f.err # "nil"
          /\ Finishes(c, Refuse(f.err))
    /\ UNCHANGED cache

\* A cache hit the control plane confirmed: the captured entry is stored again.
StoreRevalidated(c) ==
    /\ pc[c] = "reply"
    /\ held[c] # NoEntry
    /\ LET f == Fetched(key[c], reply[c]) IN f.err = "nil" /\ f.notModified
    /\ cache' = Stored(key[c], held[c].source, held[c].etag)
    /\ Finishes(c, Answer(held[c].source, "nil"))

\* Mutants: a fetched document is stored under the tag of the request; a 304
\* after a miss is not handled.
StoreFetchedOldTag(c) ==
    /\ pc[c] = "reply"
    /\ LET f == Fetched(key[c], reply[c]) IN
          /\ f.err = "nil" /\ ~f.notModified
          /\ cache' = Stored(key[c], f.source, held[c].etag)
          /\ Finishes(c, Answer(f.source, "nil"))
StoreFetchedOnly200(c) ==
    /\ pc[c] = "reply"
    /\ LET f == Fetched(key[c], reply[c]) IN
          /\ f.err = "nil" /\ ~f.notModified
          /\ cache' = Stored(key[c], f.source, f.etag)
          /\ Finishes(c, Answer(f.source, "nil"))

\* Everything else without an error.  After a miss notModified is discarded.
StoreFetched(c) ==
    /\ pc[c] = "reply"
    /\ LET f == Fetched(key[c], reply[c]) IN
          /\ f.err = "nil"
          /\ held[c] # NoEntry => ~f.notModified
          /\ cache' = Stored(key[c], f.source, f.etag)
          /\ Finishes(c, Answer(f.source, "nil"))

\* Mutant: the previous result is not cleared.
ReturnKeepsResult(c) ==
    /\ pc[c] = "done"
    /\ pc' = [pc EXCEPT ![c] = "idle"]
    /\ key' = [key EXCEPT ![c] = BlankKey]
    /\ UNCHANGED <<authority, cache, now, held, reply, result>>

Return(c) ==
    /\ pc[c] = "done"
    /\ pc' = [pc EXCEPT ![c] = "idle"]
    /\ key' = [key EXCEPT ![c] = BlankKey]
    /\ result' = [result EXCEPT ![c] = NoAnswer]
    /\ UNCHANGED <<authority, cache, now, held, reply>>

CallNext(c) ==
    \/ RejectBlank(c) \/ Lookup(c)
    \/ Respond(c) \/ Fail(c) \/ RespondSpuriously(c)
    \/ FailClosed(c) \/ StoreRevalidated(c) \/ StoreFetched(c)

Next ==
    \/ \E k \in Keys, h \in Holdings : Publish(k, h)
    \/ Tick
    \/ \E k, other \in Keys : ReuseBuffer(k, other)
    \/ \E c \in Calls :
          \/ \E k \in Keys \cup {BlankKey} : Invoke(c, k)
          \/ CallNext(c)
          \/ Return(c)

Spec == Init /\ [][Next]_vars

\* A goroutine that can run does, and http.Client.Timeout ends every exchange.
FairSpec == Spec /\ \A c \in Calls : WF_vars(CallNext(c))

----------------------------------------------------------------------------
\* Types.  A captured entry, a reply and a result exist only while in use.
TypeOK ==
    /\ authority \in [Keys -> Holdings]
    /\ cache \in [Keys -> Entries]
    /\ now \in 0..MaxTime
    /\ pc \in [Calls -> {"idle", "start", "send", "reply", "done"}]
    /\ key \in [Calls -> Keys \cup {BlankKey}]
    /\ held \in [Calls -> Entries]
    /\ reply \in [Calls -> Replies]
    /\ result \in [Calls -> Answers]
    /\ \A c \in Calls :
          /\ pc[c] \in {"send", "reply"} => key[c] \in Keys
          /\ pc[c] \notin {"send", "reply"} => held[c] = NoEntry
          /\ pc[c] # "done" => result[c] = NoAnswer
          /\ pc[c] = "idle" => key[c] = BlankKey

\* An entry is a document usable for its key under that document's own tag.
Sound(k, e) == e # NoEntry => Usable(k, e.source) /\ e.etag = ETagOf[k][e.source]

\* Whatever order lookups, answers and stores of concurrent requests happen in,
\* the cache pairs each key with a validated, enabled document of that key and
\* the tag of that very document, and so does every copy a request has captured
\* (http_resolver.go:180 "Store only normalized, validated source configs").
CacheSound ==
    /\ \A k \in Keys : Sound(k, cache[k])
    /\ \A c \in Calls : pc[c] \in {"send", "reply"} => Sound(key[c], held[c])

\* A reply in flight says what the control plane could have said: a document
\* with its tag, or "not modified" to a request that held the matching tag.
ReplySound ==
    \A c \in Calls : pc[c] = "reply" =>
        /\ reply[c].status = "ok" =>
              reply[c].source \in Docs /\ reply[c].etag = ETagOf[key[c]][reply[c].source]
        /\ reply[c].status = "not_modified" => held[c] # NoEntry

\* The answer fixed once the reply is in.
Outcome(c) ==
    LET f == Fetched(key[c], reply[c]) IN
    IF f.notModified /\ held[c] # NoEntry THEN Answer(held[c].source, "nil")
    ELSE Answer(f.source, f.err)

Status(c) ==
    CASE pc[c] = "idle"              -> "idle"
      [] pc[c] \in {"start", "send"} -> "pending"
      [] OTHER                       -> "answered"

\* The refinement: a call takes effect when the control plane answers it.
Bar(c) == [status |-> Status(c), key |-> key[c],
           answer |-> IF pc[c] = "reply" THEN Outcome(c) ELSE result[c]]
callBar == [c \in Calls |-> Bar(c)]

Authority == INSTANCE SourceAuthority WITH call <- callBar

\* Every successful call returns what the control plane held for the key at one
\* instant during the call, cache, tags and races notwithstanding: disabled
\* sources, rotated salts and origin changes take effect at once
\* (http_resolver.go:135-136, README.md:82-85).
ImplementsAuthority == Authority!Spec

\* Every call returns, whatever the control plane does.
CallsReturn == \A c \in Calls : pc[c] = "start" ~> pc[c] = "done"
=============================================================================
