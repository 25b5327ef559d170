------------------------------ MODULE MCCollect ------------------------------
(* A small instance of CollectService: one write key whose source is good    *)
(* (docA), moves to another scope of the startup surface with a traffic      *)
(* filter no collect stage accepts (docB), moves to a scope that only a      *)
(* disabled startup source has (docC), or is disabled there (off), and       *)
(* requests that exercise each check.  docA and docB are tagged, so that a   *)
(* cached entry of one can be revalidated while the other is in force.       *)
EXTENDS CollectService

CONSTANTS k1, docA, docB, docC, off, c1, sa, sb, sc, good, evil, human, bot, ea, eb

MCETagOf  == [k \in Keys |-> [d \in Docs |->
                CASE d = docA -> ea [] d = docB -> eb [] OTHER -> NoETag]]
MCKeyOf   == [d \in Docs |-> k1]
MCEnabled == Docs \ {off}
MCScopeOf == [d \in Docs |-> CASE d = docB -> sb [] d \in {docC, off} -> sc [] OTHER -> sa]
MCAllowedOrigins == [d \in Docs |-> IF d = docB THEN {good, evil} ELSE {good}]
MCFilteredBy     == [d \in Docs |-> {bot}]

Plain == [parses |-> TRUE, valid |-> TRUE, header |-> k1, bearer |-> BlankKey,
          query |-> BlankKey, body |-> BlankKey, origin |-> good, visitor |-> human,
          claims |-> sb]

\* One request for each check, with the write key carried in different places.
MCRequests ==
    {Plain,
     [Plain EXCEPT !.origin = evil, !.header = BlankKey, !.bearer = k1],
     [Plain EXCEPT !.origin = NoOrigin, !.visitor = bot, !.valid = FALSE,
                   !.header = BlankKey, !.query = k1],
     [Plain EXCEPT !.parses = FALSE],
     [Plain EXCEPT !.header = BlankKey]}
=============================================================================
