------------------------------ MODULE QueryAuth ------------------------------
(***************************************************************************)
(* The bearer tokens of the internal read routes: how internal/config      *)
(* reads them from the environment, how newHandler merges the three lists  *)
(* it is given, and what one token may do at one instant                   *)
(* (internal/collectapi/query_auth.go).  Everything here is a function of  *)
(* its arguments; Readback puts it next to a clock and to requests.        *)
(*                                                                         *)
(* Accepted credentials are a set: their tokens are distinct, so the order *)
(* decides nothing but the wording of an audit log.                        *)
(***************************************************************************)
EXTENDS RuntimeSource, Integers, Sequences

CONSTANTS
    Tokens, BlankToken, \* bearer tokens; the empty one
    Unset,              \* the zero time.Time: no bound
    CredentialKeys      \* the write keys credentials are limited to

\* Readback route families.  The Kafka routes are process scoped: no write key.
SourceRoutes  == {"realtime", "events", "properties", "goals"}
ProcessRoutes == {"kafka_diagnostics", "kafka_metrics"}
Routes        == SourceRoutes \cup ProcessRoutes
BlankScope    == ""

Credential(t, from, until, scopes, keys) ==
    [token |-> t, notBefore |-> from, expiresAt |-> until, scopes |-> scopes, writeKeys |-> keys]
Bare(t) == Credential(t, Unset, Unset, {}, {})

----------------------------------------------------------------------------
(***************************************************************************)
(* An entry of the environment is a credential with two more fields: form  *)
(* is "object" for a rotation entry with fields, "text" for one that is    *)
(* only a token and for the primary credential; readable is FALSE if a     *)
(* time or a scope of it does not parse.                                   *)
(***************************************************************************)
EntryTypes ==
    [form : {"object", "text"}, readable : BOOLEAN, token : Tokens \cup {BlankToken},
     notBefore : Int \cup {Unset}, expiresAt : Int \cup {Unset},
     scopes : SUBSET (Routes \cup {BlankScope}), writeKeys : SUBSET (CredentialKeys \cup {BlankKey})]
Environments ==
    [primary : EntryTypes, rotation : Seq(EntryTypes),
     query : BOOLEAN, mysql : BOOLEAN, diagnostics : BOOLEAN, metrics : BOOLEAN]

Entries(environment) == <<environment.primary>> \o environment.rotation

EmptyWindow(e) ==
    e.token # BlankToken /\ Unset \notin {e.notBefore, e.expiresAt} /\ e.notBefore >= e.expiresAt

\* The entries at which queryCredentialsFromEnv returns an error.
Unacceptable(e) == ~e.readable \/ (e.form = "object" /\ e.token = BlankToken) \/ EmptyWindow(e)

\* decodeQueryRotationCredential, primaryQueryCredentialFromEnv: blank list items go.
Decoded(e) ==
    Credential(e.token, e.notBefore, e.expiresAt, e.scopes \ {BlankScope}, e.writeKeys \ {BlankKey})

\* The positions appendCredential keeps: a token, and the first with that token.
Kept(entries) ==
    {i \in DOMAIN entries : /\ entries[i].token # BlankToken
                            /\ \A j \in 1..(i - 1) : entries[j].token # entries[i].token}

QueryCredentialsFromEnv(environment) ==
    {Decoded(Entries(environment)[i]) : i \in Kept(Entries(environment))}

\* queryTokenValues
QueryTokenValues(creds) == {cred.token : cred \in creds}

\* Mutant: the bare tokens come before the credentials that restrict them.
NormalizeLegacyFirst(primary, legacy, explicit) ==
    LET bare == ({primary} \cup legacy) \ {BlankToken} IN
    {Bare(t) : t \in bare} \cup {cred \in explicit : cred.token \notin bare}

\* normalizeQueryCredentials: a bare token counts only if no credential has it.
NormalizeQueryCredentials(primary, legacy, explicit) ==
    explicit \cup {Bare(t) : t \in ({primary} \cup legacy)
                                        \ ({BlankToken} \cup QueryTokenValues(explicit))}

\* runtime.New passes newHandler the credentials, the primary token and all token
\* values, which overlap.
AcceptedCredentials(environment) ==
    LET creds == QueryCredentialsFromEnv(environment) IN
    NormalizeQueryCredentials(environment.primary.token, QueryTokenValues(creds), creds)

\* LoadFromEnv and newHandler refuse read routes without a credential.
Starts(environment) ==
    /\ \A i \in DOMAIN Entries(environment) : ~Unacceptable(Entries(environment)[i])
    /\ environment.query \/ environment.diagnostics \/ environment.metrics =>
          AcceptedCredentials(environment) # {}

\* The reader, the catalog or the Kafka source behind a route is not nil.
Assembled(environment, route) ==
    CASE route \in {"realtime", "events", "goals"} -> environment.query
      [] route = "properties"        -> environment.query /\ environment.mysql
      [] route = "kafka_diagnostics" -> environment.diagnostics
      [] route = "kafka_metrics"     -> environment.metrics

----------------------------------------------------------------------------
\* A credential is good from notBefore on, and before expiresAt.
InWindow(cred, t) ==
    /\ cred.notBefore # Unset => t >= cred.notBefore
    /\ cred.expiresAt # Unset => t < cred.expiresAt

\* Mutant: a credential is not yet good at the instant it becomes valid.
AuthorizedLate(token, accepted, t) ==
    {cred \in accepted : cred.token = token /\ InWindow(cred, t) /\ cred.notBefore # t}

\* authorizeQueryToken: the credential a token selects, if it is good at t.
Authorized(token, accepted, t) == {cred \in accepted : cred.token = token /\ InWindow(cred, t)}

AllowsReadbackRoute(cred, route) == cred.scopes = {} \/ route \in cred.scopes

AllowsWriteKey(cred, key) == key = BlankKey \/ cred.writeKeys = {} \/ key \in cred.writeKeys
=============================================================================
