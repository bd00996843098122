------------------------------ MODULE LawSpine ------------------------------
(***************************************************************************)
(* Boot, attestation and admission (packages/trust-root, ucr-attestation,  *)
(* runtime-law-spine): a process seals its trust root, a runtime registers *)
(* with a token that names that root, and a law spine admits requests to   *)
(* its corridors.                                                          *)
(*                                                                         *)
(* Every function runs to its end: an action is a call.  The root and the  *)
(* registration are variables of their modules and the quarantine belongs  *)
(* to a spine, so a restart loses all three; a token is held by whoever    *)
(* asked for it, and outlives the process that issued it.                  *)
(***************************************************************************)
EXTENDS TrustRoot, Naturals, FiniteSets

CONSTANTS
    BootInput,            \* the inputs boot is called with
    Sealable,             \* the objects sealTrustRoot is called with
    Instance, Blank,      \* what a runtime calls itself; Blank fails trim()
    NoHandle,
    Ttl, Unparsed,        \* the five minutes; an expiresAt that is no date
    Corridor,             \* ids a request can name
    Capability,
    Granted,              \* the corridors of the spine: their capabilities
    LawEvolution,         \* the corridor of law mutations
    MaxTime, MaxTokens, MaxRestarts   \* bounds

ASSUME LawSpineAssumption ==
    /\ BootInput \subseteq TrustRootInput
    /\ Sealable \subseteq Root
    /\ Blank \in Instance
    /\ Ttl \in Nat \ {0} /\ MaxTime \in Nat /\ Unparsed \notin Nat
    /\ DOMAIN Granted \subseteq Corridor
    /\ \A c \in DOMAIN Granted : Granted[c] \subseteq Capability
    /\ MaxRestarts \in Nat

VARIABLES
    clock,
    tokens,        \* tokens issued and kept by a caller
    handle,        \* registeredUcrHandle, with its token and when it was given
    level,         \* conformanceLevel of the spine
    quarantined,
    anomalous,     \* history: corridors denied as unknown or for a capability
    admitted,      \* history: requests admitted once their corridor was in anomalous
    restarts

attestVars == <<sealed, edited, clock, tokens, handle>>
spineVars == <<level, quarantined, anomalous, admitted>>
vars == <<attestVars, spineVars, restarts>>

Times == 0..(MaxTime + Ttl)
Expiry == Times \cup {Unparsed}
Token == [instance : Instance, lawKey : BOOLEAN, trustRoot : Hash \cup {Malformed},
          corridors : Measurement \cup {Malformed}, spine : Measurement \cup {Malformed},
          expiresAt : Expiry, signed : BOOLEAN]
Handle == [token : Token, at : 0..MaxTime]
Request == [corridor : Corridor, wants : SUBSET Capability, law : BOOLEAN]

Init ==
    /\ sealed = NoRoot /\ edited = FALSE
    /\ clock = 0
    /\ tokens = {}
    /\ handle = NoHandle
    /\ level \in 1..3
    /\ quarantined = {} /\ anomalous = {} /\ admitted = {}
    /\ restarts = 0

-----------------------------------------------------------------------------
(* ucr-attestation *)

\* A token that names these three and is signed.
Signed(trustRoot, corridors, spine, instance, lawKey, expiresAt) ==
    [instance |-> instance, lawKey |-> lawKey, trustRoot |-> trustRoot,
     corridors |-> corridors, spine |-> spine,
     expiresAt |-> expiresAt, signed |-> TRUE]

Keep(tk) ==
    /\ Cardinality(tokens) < MaxTokens
    /\ tokens' = tokens \cup {tk}
    /\ UNCHANGED <<sealed, edited, clock, handle, spineVars, restarts>>

\* issueAttestationToken signs whatever measurements the caller names, whether or
\* not they belong together.
IssueAttestationToken(trustRoot, corridors, spine, lawKey, expiresAt) ==
    /\ Malformed \notin {trustRoot, corridors, spine}
    /\ \E instance \in Instance \ {Blank} :
           Keep(Signed(trustRoot, corridors, spine, instance, lawKey, expiresAt))

\* The expiry is the caller's, or five minutes from now.
IssueAttestationFromSealedTrust(lawKey, expiresAt) ==
    /\ sealed # NoRoot
    /\ IssueAttestationToken(sealed.hash, sealed.parts["corridors"], sealed.parts["spine"],
                             lawKey, expiresAt)

\* A token is changed after it was signed, and may be signed again:
\* placeholderSignature is exported and looks at nothing.
Alter(tk) ==
    \E e \in Expiry, c \in Measurement \cup {Malformed}, signed \in BOOLEAN :
        /\ tokens' = (tokens \ {tk}) \cup
              {[tk EXCEPT !.expiresAt = e, !.corridors = c, !.signed = signed]}
        /\ UNCHANGED <<sealed, edited, clock, handle, spineVars, restarts>>

\* Date.parse of what is no date is NaN, and NaN <= now is false.
Expired(tk) == tk.expiresAt # Unparsed /\ tk.expiresAt <= clock

\* Mutant: the trust root stands for the other two.
MatchesTrustRoot(tk, root) == tk.trustRoot = root.hash

Matches(tk, root) == /\ tk.trustRoot = root.hash
                     /\ tk.corridors = root.parts["corridors"]
                     /\ tk.spine = root.parts["spine"]

Accepts(tk, root) == /\ ~Expired(tk)
                     /\ tk.lawKey
                     /\ tk.signed
                     /\ Matches(tk, root)

\* A refusal changes nothing; another token replaces the registration.
UcrRegister(tk) ==
    /\ sealed # NoRoot
    /\ Accepts(tk, sealed)
    /\ handle' = [token |-> tk, at |-> clock]
    /\ UNCHANGED <<sealed, edited, clock, tokens, spineVars, restarts>>

-----------------------------------------------------------------------------
(* runtime-law-spine *)

\* The registration is dropped first; then the boot may throw.
FailToBoot(input) ==
    /\ ~CanBoot(input)
    /\ handle' = NoHandle
    /\ UNCHANGED <<sealed, edited>>

\* The root is sealed; a blank name throws after that.
BootAndRegister(input, instance) ==
    /\ RunEarlyBoot(input)
    /\ LET root == BuildTrustRoot(input)
           tk == Signed(root.hash, root.parts["corridors"], root.parts["spine"],
                        instance, TRUE, clock + Ttl)
       IN handle' = IF instance # Blank /\ Accepts(tk, root)
                    THEN [token |-> tk, at |-> clock] ELSE NoHandle

InitializeRuntime(input, instance) ==
    /\ FailToBoot(input) \/ BootAndRegister(input, instance)
    /\ UNCHANGED <<clock, tokens, spineVars, restarts>>

\* The answer of admit to a request, in the order of its checks.
Reason(r) ==
    CASE r.corridor \in quarantined -> "CORRIDOR_QUARANTINED"
      [] r.corridor \notin quarantined \cup DOMAIN Granted -> "CORRIDOR_UNKNOWN"
      [] r.corridor \in DOMAIN Granted \ quarantined
             /\ ~(r.wants \subseteq Granted[r.corridor]) -> "CAPABILITY_DENIED"
      [] OTHER -> IF r.law /\ level = 3 /\ r.corridor # LawEvolution
                  THEN "LAW_EVOLUTION_CORRIDOR_REQUIRED" ELSE "none"

Anomalies == {"CORRIDOR_UNKNOWN", "CAPABILITY_DENIED"}

\* Mutant: a capability denied does not quarantine.
AdmitLenient(r) ==
    /\ quarantined' = IF Reason(r) = "CORRIDOR_UNKNOWN" /\ level = 3
                      THEN quarantined \cup {r.corridor} ELSE quarantined
    /\ anomalous' = IF Reason(r) \in Anomalies
                    THEN anomalous \cup {r.corridor} ELSE anomalous
    /\ admitted' = IF Reason(r) = "none" /\ r.corridor \in anomalous
                   THEN admitted \cup {r.corridor} ELSE admitted
    /\ UNCHANGED <<attestVars, level, restarts>>

Admit(r) ==
    /\ quarantined' = IF Reason(r) \in Anomalies /\ level = 3
                      THEN quarantined \cup {r.corridor} ELSE quarantined
    /\ anomalous' = IF Reason(r) \in Anomalies
                    THEN anomalous \cup {r.corridor} ELSE anomalous
    /\ admitted' = IF Reason(r) = "none" /\ r.corridor \in anomalous
                   THEN admitted \cup {r.corridor} ELSE admitted
    /\ UNCHANGED <<attestVars, level, restarts>>

Quarantine(c) ==
    /\ quarantined' = quarantined \cup {c}
    /\ UNCHANGED <<attestVars, level, anomalous, admitted, restarts>>

-----------------------------------------------------------------------------
OnlyTheRoot == UNCHANGED <<clock, tokens, handle, spineVars, restarts>>

Boot(input) == RunEarlyBoot(input) /\ OnlyTheRoot
Seal(root) == SealTrustRoot(root) /\ OnlyTheRoot
Edit == EditTrustRoot /\ OnlyTheRoot

Tick == /\ clock < MaxTime
        /\ clock' = clock + 1
        /\ UNCHANGED <<sealed, edited, tokens, handle, spineVars, restarts>>

Restart ==
    /\ restarts < MaxRestarts
    /\ restarts' = restarts + 1
    /\ sealed' = NoRoot /\ edited' = FALSE /\ handle' = NoHandle
    /\ level' \in 1..3
    /\ quarantined' = {} /\ anomalous' = {} /\ admitted' = {}
    /\ UNCHANGED <<clock, tokens>>

Next ==
    \/ \E input \in BootInput : Boot(input)
    \/ \E input \in BootInput, instance \in Instance : InitializeRuntime(input, instance)
    \/ \E root \in Sealable : Seal(root)
    \/ Edit
    \/ \E lawKey \in BOOLEAN, e \in Expiry :
          \/ \E hash \in NamedHash, corridors \in Measurement, spine \in Measurement :
                IssueAttestationToken(hash, corridors, spine, lawKey, e)
          \/ IssueAttestationFromSealedTrust(lawKey, e)
    \/ \E tk \in tokens : Alter(tk) \/ UcrRegister(tk)
    \/ \E r \in Request : Admit(r)
    \/ \E c \in Corridor : Quarantine(c)
    \/ Tick
    \/ Restart

Spec == Init /\ [][Next]_vars
-----------------------------------------------------------------------------
TypeOK ==
    /\ sealed \in Root \cup {NoRoot} /\ edited \in BOOLEAN
    /\ clock \in 0..MaxTime
    /\ tokens \subseteq Token
    /\ handle \in Handle \cup {NoHandle}
    /\ level \in 1..3
    /\ quarantined \subseteq Corridor /\ anomalous \subseteq Corridor
    /\ admitted \subseteq Corridor
    /\ restarts \in 0..MaxRestarts

\* A runtime that is registered was attested: by a signed token with a good law key
\* that had not expired when it was used, and whose trust root, corridors and spine,
\* which a caller names one by one, are each those this process still has sealed,
\* unless a caller has changed the sealed object - whatever other tokens, of an
\* earlier process or put together from two roots, were presented, whatever object
\* was sealed, and whatever initialisations failed (ucrRegister, sealTrustRoot,
\* initializeRuntime).
RegisteredIsAttested ==
    handle # NoHandle =>
        /\ sealed # NoRoot
        /\ ~edited => /\ handle.token.trustRoot = sealed.hash
                      /\ handle.token.corridors = sealed.parts["corridors"]
                      /\ handle.token.spine = sealed.parts["spine"]
        /\ handle.token.signed /\ handle.token.lawKey
        /\ handle.token.expiresAt # Unparsed => handle.at < handle.token.expiresAt

\* At level 3 a corridor of which one request was anomalous admits no request any
\* more, whatever it is asked afterwards (admit and quarantine).
AnomaliesStayOut == level = 3 => admitted = {}
=============================================================================
