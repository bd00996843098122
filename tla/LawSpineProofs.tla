--------------------------- MODULE LawSpineProofs ---------------------------
(***************************************************************************)
(* For every set of measurements, instances, corridors and every bound:    *)
(* types, what a registration stands for, and what quarantine keeps out.   *)
(***************************************************************************)
EXTENDS LawSpine, TLAPS

USE LawSpineAssumption, TrustRootAssumption DEF LawSpineAssumption, TrustRootAssumption

\* What is built is a root, of well-formed parts, and it is sealed unchanged.
LEMMA RootsBoot ==
    ASSUME NEW input \in BootInput, RunEarlyBoot(input)
    PROVE  /\ sealed = NoRoot
           /\ sealed' = BuildTrustRoot(input) /\ edited' = FALSE
           /\ BuildTrustRoot(input) \in Root
           /\ BuildTrustRoot(input) # NoRoot
           /\ BuildTrustRoot(input).hash \in Hash
           /\ BuildTrustRoot(input).parts["corridors"] \in Measurement
           /\ BuildTrustRoot(input).parts["spine"] \in Measurement
<1>1. input \in TrustRootInput /\ \A part \in Part : input[part] \in Measurement
  BY DEF RunEarlyBoot, Builds, TrustRootInput
<1>2. input \in [Part -> Measurement]
  BY <1>1 DEF TrustRootInput
<1>3. BuildTrustRoot(input) \in Root
  BY <1>1, <1>2 DEF BuildTrustRoot, HTrustRoot, Root, Hash
<1>4. "corridors" \in Part /\ "spine" \in Part
  BY DEF Part
<1> QED  BY <1>1, <1>2, <1>3, <1>4 DEF RunEarlyBoot, SealTrustRoot, BuildTrustRoot, HTrustRoot, Hash

\* Signed makes a token of measurements.
LEMMA TokensAreTokens ==
    ASSUME NEW hash \in Hash \cup {Malformed}, NEW corridors \in Measurement \cup {Malformed},
           NEW spine \in Measurement \cup {Malformed}, NEW instance \in Instance,
           NEW lawKey \in BOOLEAN, NEW e \in Expiry
    PROVE  Signed(hash, corridors, spine, instance, lawKey, e) \in Token
    BY DEF Signed, Token

\* Five minutes from now is an expiry.
LEMMA TimesLater ==
    ASSUME NEW t \in 0..MaxTime
    PROVE  t + Ttl \in Expiry
    BY DEF Times, Expiry

\* A changed root is a root.
LEMMA EditedRoot ==
    ASSUME sealed \in Root \cup {NoRoot}, EditTrustRoot
    PROVE  /\ sealed' \in Root
           /\ edited' = TRUE
<1>1. sealed \in Root /\ sealed.parts \in TrustRootInput
  BY DEF EditTrustRoot, Root
<1>2. ASSUME NEW part \in {"corridors", "spine"}, NEW m \in Measurement \cup {Malformed},
             sealed' = [sealed EXCEPT !.parts[part] = m]
      PROVE  sealed' \in Root
  <2>1. [sealed.parts EXCEPT ![part] = m] \in TrustRootInput
    BY <1>1 DEF TrustRootInput
  <2>2. sealed' = [sealed EXCEPT !.parts = [sealed.parts EXCEPT ![part] = m]]
    BY <1>1, <1>2
  <2> QED  BY <1>1, <2>1, <2>2 DEF Root
<1>3. ASSUME NEW hash \in NamedHash \cup {Malformed}, sealed' = [sealed EXCEPT !.hash = hash]
      PROVE  sealed' \in Root
  BY <1>1, <1>3 DEF Root
<1> QED  BY <1>2, <1>3 DEF EditTrustRoot

\* Every call leaves root, tokens, registration and quarantine of their types.
THEOREM TypeCorrect == Spec => []TypeOK
<1>1. Init => TypeOK
  <2>1. Init => edited \in BOOLEAN
    BY DEF Init
  <2> QED  BY <2>1 DEF Init, TypeOK
<1>2. TypeOK /\ [Next]_vars => TypeOK'
  <2> SUFFICES ASSUME TypeOK, [Next]_vars PROVE TypeOK'
    OBVIOUS
  <2> USE DEF TypeOK
  <2>1. CASE \E input \in BootInput : Boot(input)
    BY <2>1, RootsBoot DEF Boot, OnlyTheRoot, spineVars
  <2>12. CASE \E root \in Sealable : Seal(root)
    BY <2>12 DEF Seal, SealTrustRoot, OnlyTheRoot, spineVars
  <2>13. CASE Edit
    BY <2>13, EditedRoot DEF Edit, OnlyTheRoot, spineVars
  <2>2. CASE \E input \in BootInput, instance \in Instance : InitializeRuntime(input, instance)
    <3>1. PICK input \in BootInput, instance \in Instance : InitializeRuntime(input, instance)
      BY <2>2
    <3>2. CASE FailToBoot(input)
      BY <3>1, <3>2 DEF InitializeRuntime, FailToBoot, spineVars
    <3>3. CASE BootAndRegister(input, instance)
      <4> DEFINE root == BuildTrustRoot(input)
                 tk == Signed(root.hash, root.parts["corridors"], root.parts["spine"],
                              instance, TRUE, clock + Ttl)
      <4>1. /\ sealed' = root /\ root \in Root /\ edited' = FALSE
            /\ root.hash \in Hash
            /\ root.parts["corridors"] \in Measurement /\ root.parts["spine"] \in Measurement
        BY <3>3, RootsBoot DEF BootAndRegister
      <4>2. tk \in Token
        <5> HIDE DEF root
        <5> QED BY <4>1, TokensAreTokens, TimesLater
      <4>3. handle' \in {[token |-> tk, at |-> clock], NoHandle}
        BY <3>3 DEF BootAndRegister
      <4>4. handle' \in Handle \cup {NoHandle}
        <5> HIDE DEF tk
        <5> QED BY <4>2, <4>3 DEF Handle
      <4> HIDE DEF tk, root
      <4> QED BY <3>1, <4>1, <4>4 DEF InitializeRuntime, spineVars
    <3> QED BY <3>1, <3>2, <3>3 DEF InitializeRuntime
  <2>20. ASSUME NEW hash \in Hash \cup {Malformed}, NEW corridors \in Measurement \cup {Malformed},
                NEW spine \in Measurement \cup {Malformed},
                NEW lawKey \in BOOLEAN, NEW e \in Expiry,
                IssueAttestationToken(hash, corridors, spine, lawKey, e)
         PROVE  TypeOK'
    <3>1. PICK instance \in Instance :
            Keep(Signed(hash, corridors, spine, instance, lawKey, e))
      BY <2>20 DEF IssueAttestationToken
    <3>2. Signed(hash, corridors, spine, instance, lawKey, e) \in Token
      BY <3>1, TokensAreTokens
    <3> QED BY <3>1, <3>2 DEF Keep, spineVars
  <2>3. CASE \E lawKey \in BOOLEAN, e \in Expiry :
                \E hash \in NamedHash, corridors \in Measurement, spine \in Measurement :
                   IssueAttestationToken(hash, corridors, spine, lawKey, e)
    BY <2>3, <2>20
  <2>4. CASE \E lawKey \in BOOLEAN, e \in Expiry : IssueAttestationFromSealedTrust(lawKey, e)
    <3>1. PICK lawKey \in BOOLEAN, e \in Expiry :
            /\ sealed # NoRoot
            /\ IssueAttestationToken(sealed.hash, sealed.parts["corridors"],
                                     sealed.parts["spine"], lawKey, e)
      BY <2>4 DEF IssueAttestationFromSealedTrust
    <3>2. /\ sealed.hash \in Hash \cup {Malformed}
          /\ sealed.parts["corridors"] \in Measurement \cup {Malformed}
          /\ sealed.parts["spine"] \in Measurement \cup {Malformed}
      BY <3>1 DEF Root, TrustRootInput, Part
    <3> QED BY <3>1, <3>2, <2>20
  <2>5. CASE \E tk \in tokens : Alter(tk)
    <3>1. PICK tk \in tokens, e \in Expiry, c \in Measurement \cup {Malformed}, signed \in BOOLEAN :
            tokens' = (tokens \ {tk}) \cup
              {[tk EXCEPT !.expiresAt = e, !.corridors = c, !.signed = signed]}
      BY <2>5 DEF Alter
    <3>2. [tk EXCEPT !.expiresAt = e, !.corridors = c, !.signed = signed] \in Token
      BY <3>1 DEF Token
    <3> QED BY <2>5, <3>1, <3>2 DEF Alter, spineVars
  <2>6. CASE \E tk \in tokens : UcrRegister(tk)
    BY <2>6 DEF UcrRegister, Handle, spineVars
  <2>7. CASE \E r \in Request : Admit(r)
    BY <2>7 DEF Admit, Request, attestVars
  <2>8. CASE \E c \in Corridor : Quarantine(c)
    BY <2>8 DEF Quarantine, attestVars
  <2>9. CASE Tick
    BY <2>9 DEF Tick, spineVars
  <2>10. CASE Restart
    <3>1. edited' \in BOOLEAN
      BY <2>10 DEF Restart
    <3> QED BY <2>10, <3>1 DEF Restart
  <2>11. CASE UNCHANGED vars
    BY <2>11 DEF vars, attestVars, spineVars
  <2> QED BY <2>1, <2>2, <2>3, <2>4, <2>5, <2>6, <2>7, <2>8, <2>9, <2>10, <2>11, <2>12,
             <2>13 DEF Next
<1> QED BY <1>1, <1>2, PTL DEF Spec

-----------------------------------------------------------------------------
\* Whatever is booted, sealed, named, signed, altered, registered and restarted, a
\* registration is by a token each of whose names is the sealed root's, unless a
\* caller has changed the sealed object (ucrRegister, initializeRuntime).
THEOREM RegistrationsAreAttested == Spec => []RegisteredIsAttested
<1>1. Init => RegisteredIsAttested
  BY DEF Init, RegisteredIsAttested
<1>2. TypeOK /\ RegisteredIsAttested /\ [Next]_vars => RegisteredIsAttested'
  <2> SUFFICES ASSUME TypeOK, RegisteredIsAttested, [Next]_vars
               PROVE  RegisteredIsAttested'
    OBVIOUS
  <2> USE DEF RegisteredIsAttested
  <2>1. ASSUME sealed' = sealed, edited' = edited, handle' = handle
        PROVE  RegisteredIsAttested'
    BY <2>1
  <2>2. CASE (\E input \in BootInput : Boot(input)) \/ (\E root \in Sealable : Seal(root))
    \* There was no root, so there was no registration.
    BY <2>2 DEF Boot, Seal, RunEarlyBoot, SealTrustRoot, OnlyTheRoot
  <2>7. CASE Edit
    BY <2>7, EditedRoot DEF Edit, OnlyTheRoot, TypeOK
  <2>3. CASE \E input \in BootInput, instance \in Instance : InitializeRuntime(input, instance)
    <3>1. PICK input \in BootInput, instance \in Instance :
            FailToBoot(input) \/ BootAndRegister(input, instance)
      BY <2>3 DEF InitializeRuntime
    <3>2. CASE FailToBoot(input)
      BY <3>2 DEF FailToBoot
    <3>3. CASE BootAndRegister(input, instance)
      <4> DEFINE root == BuildTrustRoot(input)
                 tk == Signed(root.hash, root.parts["corridors"], root.parts["spine"],
                              instance, TRUE, clock + Ttl)
      <4>1. sealed' = root /\ root # NoRoot
        BY <3>3, RootsBoot DEF BootAndRegister
      <4>2. handle' \in {[token |-> tk, at |-> clock], NoHandle}
        BY <3>3 DEF BootAndRegister
      <4>3. /\ tk.trustRoot = root.hash /\ tk.corridors = root.parts["corridors"]
            /\ tk.spine = root.parts["spine"] /\ tk.signed /\ tk.lawKey
            /\ tk.expiresAt = clock + Ttl
        BY DEF Signed
      <4>4. clock < clock + Ttl
        BY DEF TypeOK
      <4> HIDE DEF root, tk
      <4> QED BY <4>1, <4>2, <4>3, <4>4
    <3> QED BY <3>1, <3>2, <3>3
  <2>4. CASE \E tk \in tokens : UcrRegister(tk)
    <3>1. PICK tk \in tokens : UcrRegister(tk)
      BY <2>4
    <3>2. /\ sealed # NoRoot /\ sealed' = sealed /\ edited' = edited
          /\ handle' = [token |-> tk, at |-> clock]
          /\ ~Expired(tk) /\ tk.lawKey /\ tk.signed /\ Matches(tk, sealed)
      BY <3>1 DEF UcrRegister, Accepts
    <3>3. tk.expiresAt # Unparsed => clock < tk.expiresAt
      <4>1. tk \in Token /\ clock \in Nat
        BY DEF TypeOK
      <4>2. tk.expiresAt \in Times \cup {Unparsed}
        BY <4>1 DEF Token, Expiry
      <4>3. tk.expiresAt # Unparsed => tk.expiresAt \in Nat
        BY <4>2 DEF Times
      <4> QED BY <3>2, <4>1, <4>3 DEF Expired
    <3> QED BY <3>2, <3>3 DEF Matches
  <2>5. CASE Restart
    BY <2>5 DEF Restart
  <2>6. CASE \/ \E lawKey \in BOOLEAN, e \in Expiry :
                    \/ \E hash \in NamedHash, corridors \in Measurement, spine \in Measurement :
                          IssueAttestationToken(hash, corridors, spine, lawKey, e)
                    \/ IssueAttestationFromSealedTrust(lawKey, e)
             \/ \E tk \in tokens : Alter(tk)
             \/ \E r \in Request : Admit(r)
             \/ \E c \in Corridor : Quarantine(c)
             \/ Tick
             \/ UNCHANGED vars
    <3>1. sealed' = sealed /\ edited' = edited /\ handle' = handle
      BY <2>6 DEF IssueAttestationToken, IssueAttestationFromSealedTrust, Keep, Alter,
                  Admit, Quarantine, Tick, vars, attestVars
    <3> QED BY <2>1, <3>1
  <2> QED BY <2>2, <2>3, <2>4, <2>5, <2>6, <2>7 DEF Next
<1> QED BY <1>1, <1>2, TypeCorrect, PTL DEF Spec

-----------------------------------------------------------------------------
\* What makes AnomaliesStayOut inductive: at level 3 an anomalous corridor is in
\* quarantine, which nothing but a restart takes it out of.
AnomaliesQuarantined == level = 3 => anomalous \subseteq quarantined

THEOREM NoAnomalyAdmitted == Spec => []AnomaliesStayOut
<1> DEFINE Inv == AnomaliesQuarantined /\ AnomaliesStayOut
<1> USE DEF AnomaliesQuarantined, AnomaliesStayOut
<1>1. Init => Inv
  BY DEF Init
<1>2. Inv /\ [Next]_vars => Inv'
  <2> SUFFICES ASSUME Inv, [Next]_vars PROVE Inv'
    OBVIOUS
  <2>1. CASE \E r \in Request : Admit(r)
    <3>1. PICK r \in Request : Admit(r)
      BY <2>1
    <3>2. Reason(r) = "none" => r.corridor \notin quarantined
      BY DEF Reason
    <3> QED BY <3>1, <3>2 DEF Admit
  <2>2. CASE \E c \in Corridor : Quarantine(c)
    BY <2>2 DEF Quarantine
  <2>3. CASE Restart
    BY <2>3 DEF Restart
  <2>4. CASE UNCHANGED spineVars
    BY <2>4 DEF spineVars
  <2>5. \/ \E r \in Request : Admit(r)
        \/ \E c \in Corridor : Quarantine(c)
        \/ Restart
        \/ UNCHANGED spineVars
    BY DEF Next, vars, Boot, Seal, Edit, OnlyTheRoot, InitializeRuntime, IssueAttestationToken,
           IssueAttestationFromSealedTrust, Keep, Alter, UcrRegister, Tick
  <2> QED BY <2>1, <2>2, <2>3, <2>4, <2>5
<1> QED BY <1>1, <1>2, PTL DEF Spec
=============================================================================
