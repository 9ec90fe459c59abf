---------------------------- MODULE RSASignatures ----------------------------
(***************************************************************************)
(* One RSA signature (rsa.go): how long the salt of a PSS signature is made *)
(* for a modulus of any length in bits, what is refused before the token is *)
(* asked, and the check of what the token returns.                         *)
(***************************************************************************)
EXTENDS Integers

CONSTANTS
  ModulusBits,   \* how long keys are
  SaltLengths    \* what callers put in PSSOptions.SaltLength

ASSUME LengthAssumption == ModulusBits \subseteq Nat /\ SaltLengths \subseteq Int

HashLen == [SHA1 |-> 20, SHA224 |-> 28, SHA256 |-> 32, SHA384 |-> 48, SHA512 |-> 64]

\* crypto.Hash(0), and one that hashToPKCS11 and pkcs1Prefix do not list.
NoHash == "0"
OtherHash == "SHA3_256"

PSSSaltLengthAuto == 0
PSSSaltLengthEqualsHash == -1

\* known: the key has its public half; sized: the digest is as long as the
\* hash makes it.
Requests ==
  [bits : ModulusBits, known : BOOLEAN, pss : BOOLEAN, saltLength : SaltLengths,
   hash : DOMAIN HashLen \cup {NoHash, OtherHash}, sized : BOOLEAN]

VARIABLES
  phase,      \* where the call is
  request,    \* what the caller passed
  salt,       \* the length that C_SignInit is told
  signature   \* whether what C_Sign returned verifies

signatureVars == <<phase, request, salt, signature>>

SignInit ==
  /\ phase = "called"
  /\ request \in Requests
  /\ salt = 0
  /\ signature = FALSE

Refuse == phase' = "refused" /\ UNCHANGED <<request, salt, signature>>

Hashed(r) == r.hash \in DOMAIN HashLen /\ r.sized

\* Defect: the length of the encoded message is that of the modulus.
MaxOfModulus(r) ==
  LET sLen == (r.bits + 7) \div 8 - 2 - HashLen[r.hash] IN
  {s \in {sLen} : r.known /\ s >= 0}

\* The set has one length, or none if it is an error.
MaxPSSSaltLength(r) ==
  LET sLen == (r.bits - 1 + 7) \div 8 - 2 - HashLen[r.hash] IN
  {s \in {sLen} : r.known /\ s >= 0}

\* An explicit length is compared only with a limit that is known.
PSSSaltLength(r) ==
  CASE r.saltLength = PSSSaltLengthAuto -> MaxPSSSaltLength(r)
    [] r.saltLength = PSSSaltLengthEqualsHash -> {HashLen[r.hash]}
    [] OTHER -> {s \in {r.saltLength} : s >= 0 /\ \A limit \in MaxPSSSaltLength(r) : s <= limit}

SignPSS ==
  /\ phase = "called" /\ request.pss
  /\ \/ /\ Hashed(request)
        /\ \E s \in PSSSaltLength(request) : salt' = s
        /\ phase' = "token"
        /\ UNCHANGED <<request, signature>>
     \/ (Hashed(request) => PSSSaltLength(request) = {}) /\ Refuse

\* Without a hash the digest is signed as it is.
SignPKCS1v15 ==
  /\ phase = "called" /\ ~request.pss
  /\ \/ /\ request.hash = NoHash \/ Hashed(request)
        /\ phase' = "token"
        /\ UNCHANGED <<request, salt, signature>>
     \/ request.hash # NoHash /\ ~Hashed(request) /\ Refuse

\* C_SignInit and C_Sign: the token may fail, or make a mistake.
TokenSigns ==
  /\ phase = "token"
  /\ \/ signature' \in BOOLEAN /\ phase' = "signed"
     \/ phase' = "failed" /\ UNCHANGED signature
  /\ UNCHANGED <<request, salt>>

CheckRSASignature ==
  /\ phase = "signed"
  /\ IF request.known /\ request.bits >= 1024 /\ ~signature
     THEN phase' = "failed" /\ signature' = FALSE
     ELSE phase' = "returned" /\ UNCHANGED signature
  /\ UNCHANGED <<request, salt>>

SignNext == SignPSS \/ SignPKCS1v15 \/ TokenSigns \/ CheckRSASignature

SignSpec == SignInit /\ [][SignNext]_signatureVars

----------------------------------------------------------------------------

\* A salt of s bytes fits in the encoding of RFC 8017: with the hash, a byte 01
\* and a byte bc it takes s + HashLen + 2 bytes, of which all but the first are
\* full, for the modulus' bits but one.
Fits(r, s) == 8 * (s + HashLen[r.hash] + 1) < r.bits - 1

\* The salt is the longest that fits, or of the length of the hash, or as long as
\* the caller said. Only the first is checked against the modulus for certain: the
\* length of the hash never is, and an explicit one only if the modulus is known
\* and has room for an empty salt. The others are for the token to judge.
AsAsked(r, s) ==
  CASE r.saltLength = PSSSaltLengthAuto -> r.known /\ Fits(r, s) /\ ~Fits(r, s + 1)
    [] r.saltLength = PSSSaltLengthEqualsHash -> s = HashLen[r.hash]
    [] OTHER -> s = r.saltLength /\ (r.known /\ Fits(r, 0) => Fits(r, s))

\* No mechanism is listed for the hash. It need not be one that crypto/rsa
\* refuses: that accepts SHA3_256.
Unsupported(r) == r.hash \notin DOMAIN HashLen

\* Why a request for PSS may be refused: its hash, the length of its digest, a
\* longest salt that nobody can tell or that there is not, a length that means
\* nothing, and one that does not fit.
Refusable(r) ==
  \/ Unsupported(r)
  \/ ~r.sized
  \/ r.saltLength = PSSSaltLengthAuto /\ ~(r.known /\ Fits(r, 0))
  \/ r.saltLength < PSSSaltLengthEqualsHash
  \/ r.saltLength > 0 /\ r.known /\ ~Fits(r, r.saltLength)

\* For a modulus of any length in bits the salt of PSS is the one asked for, and
\* fits wherever AsAsked says so; PSS is refused for the causes in Refusable only;
\* and a signature that does not verify is not returned, if that can be checked.
SignedAsAsked ==
  /\ request.pss =>
       /\ phase \in {"token", "signed", "returned"} => Hashed(request) /\ AsAsked(request, salt)
       /\ phase = "refused" => Refusable(request)
  /\ phase = "returned" => signature \/ ~request.known \/ request.bits < 1024
=============================================================================
