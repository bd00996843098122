------------------------------ MODULE TrustRoot ------------------------------
(***************************************************************************)
(* The trust root of a process (packages/trust-root): four measurements    *)
(* taken at boot and the measurement of the four, sealed once, in a        *)
(* variable of the module.  A measurement is a value; the measurement of   *)
(* four others is modelled by the four themselves, so that two roots have  *)
(* the same one only when they are the same.                               *)
(***************************************************************************)
CONSTANTS
    Measurement,      \* the strings isMeasurement accepts
    Malformed,        \* one it does not
    NoRoot,
    NamedHash         \* bound: the trust roots a caller names

Part == {"kernel", "spine", "corridors", "manifest"}
TrustRootInput == [Part -> Measurement \cup {Malformed}]

\* What hTrustRoot can be: that of four measurements, or any other measurement.
Hash == Measurement \cup [Part -> Measurement]
HTrustRoot(input) == input

\* A TrustRoot: nothing but buildTrustRoot makes its hash that of its parts.
Root == [parts : TrustRootInput, hash : Hash \cup {Malformed}]

ASSUME TrustRootAssumption ==
    /\ Malformed \notin Measurement
    /\ NoRoot \notin Root
    /\ NamedHash \subseteq Hash

VARIABLES
    sealed,
    edited      \* history: a caller has changed the sealed object

\* buildTrustRoot throws unless every part is a measurement.
Builds(input) == \A part \in Part : input[part] # Malformed
BuildTrustRoot(input) == [parts |-> input, hash |-> HTrustRoot(input)]

\* sealTrustRoot: throws when there is a root already; the object it is given is
\* not looked at.
SealTrustRoot(root) ==
    /\ sealed = NoRoot
    /\ sealed' = root
    /\ edited' = FALSE

\* runEarlyBoot returns; otherwise it throws and nothing has changed.
CanBoot(input) == Builds(input) /\ sealed = NoRoot
RunEarlyBoot(input) == Builds(input) /\ SealTrustRoot(BuildTrustRoot(input))

\* The sealed object is the one the caller passed, and the one getTrustRoot and
\* runEarlyBoot return: a caller may change a field of it.  Kernel and manifest
\* are never read again.
EditTrustRoot ==
    /\ sealed # NoRoot
    /\ \/ \E part \in {"corridors", "spine"}, m \in Measurement \cup {Malformed} :
             sealed' = [sealed EXCEPT !.parts[part] = m]
       \/ \E hash \in NamedHash \cup {Malformed} : sealed' = [sealed EXCEPT !.hash = hash]
    /\ edited' = TRUE
=============================================================================
