---------------------------- MODULE Certificates ----------------------------
(***************************************************************************)
(* Certificates as objects on a token (certificates.go): the search for one *)
(* or for all of them, the chain of issuers above one, the chains of all    *)
(* that have a private key, import and deletion.                            *)
(*                                                                         *)
(* As in KeyPairs an object has its attributes for life, its handle is not  *)
(* given to another one, and other sessions create and destroy objects at   *)
(* any time; a step is one search of the token, or one object read.         *)
(***************************************************************************)
EXTENDS Naturals, Sequences

CONSTANTS
  Objects,    \* every certificate, private and public key there may ever be
  Data,       \* their attributes
  Certs,      \* the certificates that are their values
  Fields,     \* what is in these
  Signs,      \* <<a, b>>: the key that a certifies has signed b
  Foreign,    \* the objects other sessions create and destroy
  Callers,    \* goroutines that use this Context
  Asked,      \* what they call: an operation, and an id if it takes one
  Starts,     \* what may be on the token at first
  MaxDepth,   \* maxChainDepth, 16
  None

Class(o) == Data[o].class
X509(o) == Class(o) = "x509"     \* CKA_CERTIFICATE_TYPE is CKC_X_509
IsCertificate(o) == Class(o) \in {"x509", "certificate"}

\* CKA_ID; label and serial number act alike.  A private key with a label only
\* has an id here that no certificate has, one with neither has None.
Id(o) == Data[o].id
Nameless(o) == Class(o) = "private" /\ Id(o) = None

SubjectOf(o) == Data[o].subject  \* CKA_SUBJECT, which need not be true
Value(o) == Data[o].cert         \* CKA_VALUE, None if it does not parse

RawSubject(c) == Fields[c].subject
RawIssuer(c) == Fields[c].issuer
SubjectKeyId(c) == Fields[c].keyId
AuthorityKeyId(c) == Fields[c].authority

Operations == {"find", "chain", "all", "paired", "import", "delete"}

ASSUME CertificateAssumption ==
  /\ Data \in [Objects -> [class : {"x509", "certificate", "private", "public"},
                           id : STRING \cup {None}, subject : STRING, cert : Certs \cup {None}]]
  /\ Fields \in [Certs -> [subject : STRING, issuer : STRING \cup {None},
                           keyId : STRING \cup {None}, authority : STRING \cup {None}]]
  /\ Signs \subseteq Certs \X Certs
  /\ Foreign \subseteq Objects
  /\ Asked \subseteq [op : Operations, id : STRING \cup {None}]
  /\ \A a \in Asked : a.id = None => a.op \in {"all", "paired"}
  /\ Starts \subseteq SUBSET Objects
  /\ MaxDepth \in Nat \ {0}
  /\ None \notin Certs \cup STRING

VARIABLES
  live, gone,     \* the objects on the token, and those destroyed
  pc, call,       \* where a caller is, and in what
  keys,           \* the private keys it has still to look at
  todo, read,     \* what a search returned: handles, and certificates read
  all, scanned,   \* every certificate, if the walk has read them, and whether
  chain,          \* the certificates it has placed
  found,          \* the chains it has finished
  steady,         \* what has been on the token ever since its call
  disturbed,      \* whether an object was destroyed since
  failed          \* whether the token has failed a call of it

tokenVars == <<live, gone>>
searchVars == <<todo, read>>
walkVars == <<all, scanned, chain>>
historyVars == <<steady, disturbed>>
vars == <<tokenVars, pc, call, keys, searchVars, walkVars, found, historyVars, failed>>

NoCall == [op |-> None, id |-> None]

Init ==
  /\ live \in Starts
  /\ gone = {}
  /\ pc = [c \in Callers |-> "idle"]
  /\ call = [c \in Callers |-> NoCall]
  /\ keys = [c \in Callers |-> {}]
  /\ todo = [c \in Callers |-> {}]
  /\ read = [c \in Callers |-> {}]
  /\ all = [c \in Callers |-> {}]
  /\ scanned = [c \in Callers |-> FALSE]
  /\ chain = [c \in Callers |-> <<>>]
  /\ found = [c \in Callers |-> {}]
  /\ steady = [c \in Callers |-> {}]
  /\ disturbed = [c \in Callers |-> FALSE]
  /\ failed = [c \in Callers |-> FALSE]

Goto(c, next) == pc' = [pc EXCEPT ![c] = next]

----------------------------------------------------------------------------
(* The token.                                                              *)

\* C_CreateObject and C_DestroyObject.
Created(o) ==
  /\ o \notin live \cup gone
  /\ live' = live \cup {o}
  /\ UNCHANGED <<gone, historyVars>>

Destroyed(o) ==
  /\ o \in live
  /\ live' = live \ {o}
  /\ gone' = gone \cup {o}
  /\ steady' = [c \in Callers |-> steady[c] \ {o}]
  /\ disturbed' = [c \in Callers |-> TRUE]

Others(o) ==
  /\ Created(o) \/ Destroyed(o)
  /\ UNCHANGED <<pc, call, keys, searchVars, walkVars, found, failed>>

Matching(id) == {o \in live : IsCertificate(o) /\ Id(o) = id}
\* Defect: a search without
\* the certificate type.
AllTypes == {o \in live : IsCertificate(o)}

AllX509 == {o \in live : X509(o)}

----------------------------------------------------------------------------
(* Calls and how they end.                                                 *)

First(op) ==
  CASE op \in {"find", "chain"} -> "leaf"
    [] op = "all" -> "all"
    [] op = "paired" -> "privates"
    [] op = "import" -> "create"
    [] op = "delete" -> "match"

Call(c) ==
  /\ pc[c] = "idle"
  /\ \E a \in Asked :
       /\ call' = [call EXCEPT ![c] = a]
       /\ Goto(c, First(a.op))
  /\ steady' = [steady EXCEPT ![c] = live]
  /\ disturbed' = [disturbed EXCEPT ![c] = FALSE]
  /\ UNCHANGED <<tokenVars, keys, searchVars, walkVars, found, failed>>

Forgets(c) ==
  /\ keys' = [keys EXCEPT ![c] = {}]
  /\ todo' = [todo EXCEPT ![c] = {}]
  /\ all' = [all EXCEPT ![c] = {}]
  /\ scanned' = [scanned EXCEPT ![c] = FALSE]

\* Whatever error there is, nothing else is returned with it.
Errors(c) ==
  /\ Goto(c, "error")
  /\ Forgets(c)
  /\ read' = [read EXCEPT ![c] = {}]
  /\ chain' = [chain EXCEPT ![c] = <<>>]
  /\ found' = [found EXCEPT ![c] = {}]
  /\ UNCHANGED <<tokenVars, call, historyVars>>

Ended == {"idle", "returned", "error"}

\* The token fails a call.
Fails(c) ==
  /\ pc[c] \notin Ended
  /\ failed' = [failed EXCEPT ![c] = TRUE]
  /\ Errors(c)

\* Its result is seen, and the goroutine goes on to something else.
Proceed(c) ==
  /\ pc[c] \in {"returned", "error"}
  /\ Goto(c, "idle")
  /\ call' = [call EXCEPT ![c] = NoCall]
  /\ keys' = [keys EXCEPT ![c] = {}]
  /\ read' = [read EXCEPT ![c] = {}]
  /\ chain' = [chain EXCEPT ![c] = <<>>]
  /\ found' = [found EXCEPT ![c] = {}]
  /\ steady' = [steady EXCEPT ![c] = {}]
  /\ disturbed' = [disturbed EXCEPT ![c] = FALSE]
  /\ failed' = [failed EXCEPT ![c] = FALSE]
  /\ UNCHANGED <<tokenVars, todo, all, scanned>>

----------------------------------------------------------------------------
(* One certificate: findCertificate.                                       *)

\* findRawCertificate asks the token for one handle only, and not for the
\* certificate's type.
FindRawCertificate(c) ==
  /\ pc[c] = "leaf"
  /\ LET matching == Matching(call[c].id) IN
     \/ /\ matching = {}
        /\ Goto(c, "returned")
        /\ UNCHANGED todo
     \/ /\ \E o \in matching : todo' = [todo EXCEPT ![c] = {o}]
        /\ Goto(c, "value")
  /\ UNCHANGED <<tokenVars, call, keys, read, walkVars, found, historyVars, failed>>

\* What C_GetAttributeValue and parseCertificateValue make of a handle.
Legible(o) == o \in live /\ Value(o) # None

ReadLeaf(c) ==
  /\ pc[c] = "value"
  /\ \E o \in todo[c] :
       IF Legible(o) THEN
         /\ chain' = [chain EXCEPT ![c] = <<Value(o)>>]
         /\ Goto(c, IF call[c].op = "find" THEN "returned" ELSE "hop")
         /\ todo' = [todo EXCEPT ![c] = {}]
         /\ UNCHANGED <<tokenVars, call, keys, read, all, scanned, found, historyVars>>
       ELSE Errors(c)
  /\ UNCHANGED failed

----------------------------------------------------------------------------
(* Several: findX509Certificates.  A search, then its handles one by one.   *)

Search(c, objects, next) ==
  /\ todo' = [todo EXCEPT ![c] = objects]
  /\ read' = [read EXCEPT ![c] = {}]
  /\ Goto(c, next)
  /\ UNCHANGED <<tokenVars, call, keys, walkVars, found, historyVars, failed>>

Reading == {"by subject", "by key id", "everything"}

\* One after the other; in which order cannot be told from the outcome.
ReadCertificate(c) ==
  /\ pc[c] \in Reading /\ todo[c] # {}
  /\ LET o == CHOOSE o \in todo[c] : TRUE IN
       IF Legible(o) THEN
         /\ todo' = [todo EXCEPT ![c] = @ \ {o}]
         /\ read' = [read EXCEPT ![c] = @ \cup {Value(o)}]
         /\ UNCHANGED <<tokenVars, pc, call, keys, walkVars, found, historyVars>>
       ELSE Errors(c)
  /\ UNCHANGED failed

\* FindAllCertificates.
FindAllCertificates(c) ==
  \/ pc[c] = "all" /\ Search(c, AllX509, "everything")
  \/ /\ pc[c] = "everything" /\ todo[c] = {}
     /\ Goto(c, "returned")
     /\ UNCHANGED <<tokenVars, call, keys, searchVars, walkVars, found, historyVars, failed>>

----------------------------------------------------------------------------
(* The chain above a certificate: findIssuerChain.                          *)

Placed(c) == {chain[c][i] : i \in 1..Len(chain[c])}
Last(c) == chain[c][Len(chain[c])]

SelfIssued(x) == RawIssuer(x) \in {None, RawSubject(x)}

\* The walk is over: FindCertificateChain returns, FindAllPairedCertificates
\* goes on to the next private key.  Each walk reads the token anew.
EndWalk(c) ==
  /\ IF call[c].op = "paired" THEN
       /\ found' = [found EXCEPT ![c] = @ \cup {chain[c]}]
       /\ chain' = [chain EXCEPT ![c] = <<>>]
       /\ Goto(c, "pair")
     ELSE Goto(c, "returned") /\ UNCHANGED <<found, chain>>
  /\ read' = [read EXCEPT ![c] = {}]
  /\ all' = [all EXCEPT ![c] = {}]
  /\ scanned' = [scanned EXCEPT ![c] = FALSE]
  /\ UNCHANGED <<tokenVars, call, keys, todo, historyVars, failed>>

\* The loop of findIssuerChain, and the first search of findIssuer.
Hop(c) ==
  /\ pc[c] = "hop"
  /\ IF Len(chain[c]) >= MaxDepth \/ SelfIssued(Last(c)) THEN EndWalk(c)
     ELSE Search(c, {o \in AllX509 : SubjectOf(o) = RawIssuer(Last(c))}, "by subject")

\* Defect: a certificate is
\* placed again, ...
SelectAgain(cert, candidates, placed) == {x \in candidates : <<x, cert>> \in Signs}

\* ... or the search given up at the first that has not signed.
SelectFirst(cert, candidates, placed) ==
  LET new == candidates \ placed IN IF \A x \in new : <<x, cert>> \in Signs THEN new ELSE {}

\* selectIssuer takes the first of these: in which order a token lists its
\* objects is not known.
SelectIssuer(cert, candidates, placed) ==
  {x \in candidates \ placed : <<x, cert>> \in Signs}

ByKeyId(cert, certs) == {x \in certs : SubjectKeyId(x) = AuthorityKeyId(cert)}

Places(c, issuers) ==
  /\ \E x \in issuers : chain' = [chain EXCEPT ![c] = Append(@, x)]
  /\ Goto(c, "hop")
  /\ read' = [read EXCEPT ![c] = {}]
  /\ UNCHANGED <<tokenVars, call, keys, todo, all, scanned, found, historyVars, failed>>

\* findIssuer: if no certificate with the right subject attribute has signed
\* the last one, its authority key identifier, if it has one, is followed.
FindIssuer(c) ==
  LET issuers == SelectIssuer(Last(c), read[c], Placed(c)) IN
  /\ pc[c] = "by subject" /\ todo[c] = {}
  /\ \/ Places(c, issuers)
     \/ issuers = {} /\ AuthorityKeyId(Last(c)) = None /\ EndWalk(c)
     \/ /\ issuers = {} /\ AuthorityKeyId(Last(c)) # None
        /\ Goto(c, "authority")
        /\ UNCHANGED <<tokenVars, call, keys, searchVars, walkVars, found, historyVars, failed>>

\* allCertificates: once in a walk, the whole token is read.
ScanAll(c) ==
  \/ pc[c] = "authority" /\ ~scanned[c] /\ Search(c, AllX509, "by key id")
  \/ /\ pc[c] = "by key id" /\ todo[c] = {}
     /\ all' = [all EXCEPT ![c] = read[c]]
     /\ scanned' = [scanned EXCEPT ![c] = TRUE]
     /\ read' = [read EXCEPT ![c] = {}]
     /\ Goto(c, "authority")
     /\ UNCHANGED <<tokenVars, call, keys, todo, chain, found, historyVars, failed>>

\* Defect: the token is read
\* again until there is an issuer.
FindAuthorityAgain(c) ==
  LET issuers == SelectIssuer(Last(c), ByKeyId(Last(c), all[c]), Placed(c)) IN
  /\ pc[c] = "authority" /\ scanned[c]
  /\ \/ Places(c, issuers)
     \/ /\ issuers = {}
        /\ scanned' = [scanned EXCEPT ![c] = FALSE]
        /\ UNCHANGED <<tokenVars, pc, call, keys, searchVars, all, chain, found, historyVars, failed>>

FindAuthority(c) ==
  LET issuers == SelectIssuer(Last(c), ByKeyId(Last(c), all[c]), Placed(c)) IN
  /\ pc[c] = "authority" /\ scanned[c]
  /\ \/ Places(c, issuers)
     \/ issuers = {} /\ EndWalk(c)

----------------------------------------------------------------------------
(* FindAllPairedCertificates.                                              *)

FindPrivateKeys(c) ==
  /\ pc[c] = "privates"
  /\ keys' = [keys EXCEPT ![c] = {o \in live : Class(o) = "private"}]
  /\ Goto(c, "pair")
  /\ UNCHANGED <<tokenVars, call, searchVars, walkVars, found, historyVars, failed>>

\* makeKeyPair, whose choices are in KeyPairs: a private key is skipped, or is
\* given some certificate with its id; but one that has no id and no label is
\* an error, and so is one that is no longer there.
MakeKeyPair(c) ==
  /\ pc[c] = "pair"
  /\ \/ /\ keys[c] = {}
        /\ Goto(c, "returned")
        /\ UNCHANGED <<tokenVars, call, keys, searchVars, walkVars, found, historyVars>>
     \/ \E o \in keys[c] : (o \notin live \/ Nameless(o)) /\ Errors(c)
     \/ /\ \E o \in keys[c] :
             /\ o \in live /\ ~Nameless(o)
             /\ keys' = [keys EXCEPT ![c] = @ \ {o}]
             /\ \/ UNCHANGED <<pc, todo, chain>>
                \/ /\ \E x \in AllX509 :
                        /\ Id(x) = Id(o) /\ Legible(x)
                        /\ chain' = [chain EXCEPT ![c] = <<Value(x)>>]
                   /\ \E again \in SUBSET {h \in live : h = o \/ (Class(h) = "public" /\ Id(h) = Id(o))} :
                        todo' = [todo EXCEPT ![c] = again]
                   /\ Goto(c, "half")
        /\ UNCHANGED <<tokenVars, call, read, all, scanned, found, historyVars>>
  /\ UNCHANGED failed

\* It reads some of the key pair once more: the public key object, and the
\* parameters of an Ed25519 key.  Then the walk begins.
ReadPair(c) ==
  /\ pc[c] = "half"
  /\ IF todo[c] \subseteq live THEN
       /\ todo' = [todo EXCEPT ![c] = {}]
       /\ Goto(c, "hop")
       /\ UNCHANGED <<tokenVars, call, keys, read, walkVars, found, historyVars>>
     ELSE Errors(c)
  /\ UNCHANGED failed

----------------------------------------------------------------------------
(* Import and deletion.                                                    *)

\* ImportCertificateWithAttributes looks for no other with the same id; the
\* subject attribute is the certificate's unless its template has another.
ImportCertificate(c) ==
  /\ pc[c] = "create"
  /\ \E o \in Objects : X509(o) /\ Value(o) # None /\ Id(o) = call[c].id /\ Created(o)
  /\ Goto(c, "returned")
  /\ UNCHANGED <<call, keys, searchVars, walkVars, found, failed>>

\* DeleteCertificate destroys one object of those that match.
DeleteCertificate(c) ==
  \/ /\ pc[c] = "match"
     /\ LET matching == Matching(call[c].id) IN
        \/ matching = {} /\ Goto(c, "returned") /\ UNCHANGED todo
        \/ /\ \E o \in matching : todo' = [todo EXCEPT ![c] = {o}]
           /\ Goto(c, "destroy")
     /\ UNCHANGED <<tokenVars, call, keys, read, walkVars, found, historyVars, failed>>
  \/ /\ pc[c] = "destroy" /\ todo[c] \subseteq live
     /\ \E o \in todo[c] : Destroyed(o)
     /\ todo' = [todo EXCEPT ![c] = {}]
     /\ Goto(c, "returned")
     /\ UNCHANGED <<call, keys, read, walkVars, found, failed>>
  \/ /\ pc[c] = "destroy" /\ ~(todo[c] \subseteq live)
     /\ Errors(c)
     /\ UNCHANGED failed

----------------------------------------------------------------------------

Steps(c) ==
  \/ Fails(c)
  \/ FindRawCertificate(c) \/ ReadLeaf(c)
  \/ ReadCertificate(c) \/ FindAllCertificates(c)
  \/ Hop(c) \/ FindIssuer(c) \/ ScanAll(c) \/ FindAuthority(c)
  \/ FindPrivateKeys(c) \/ MakeKeyPair(c) \/ ReadPair(c)
  \/ ImportCertificate(c) \/ DeleteCertificate(c)

Next ==
  \/ \E o \in Foreign : Others(o)
  \/ \E c \in Callers : Call(c) \/ Steps(c) \/ Proceed(c)

Spec == Init /\ [][Next]_vars

\* The scheduler runs every goroutine that can run, and the token answers.
\* Nobody is obliged to make a call.
FairSpec == Spec /\ \A c \in Callers : WF_vars(Steps(c))

----------------------------------------------------------------------------
(* Properties.                                                             *)

Chains == {s \in Seq(Certs) : Len(s) \in 1..MaxDepth}

\* Every variable has a value of its type; no chain is longer than MaxDepth.
TypeOK ==
  /\ live \subseteq Objects /\ gone \subseteq Objects \ live
  /\ pc \in [Callers -> Ended \cup Reading \cup
                {"leaf", "value", "all", "privates", "pair", "half", "create", "match",
                 "destroy", "hop", "authority"}]
  /\ call \in [Callers -> Asked \cup {NoCall}]
  /\ keys \in [Callers -> SUBSET Objects]
  /\ todo \in [Callers -> SUBSET Objects]
  /\ read \in [Callers -> SUBSET Certs]
  /\ all \in [Callers -> SUBSET Certs] /\ scanned \in [Callers -> BOOLEAN]
  /\ chain \in [Callers -> Chains \cup {<<>>}]
  /\ found \in [Callers -> SUBSET Chains]
  /\ steady \in [Callers -> SUBSET live] /\ disturbed \in [Callers -> BOOLEAN]
  /\ failed \in [Callers -> BOOLEAN]

\* Every certificate of the chain but the last is signed by the next one and
\* issued by another, and none is there twice.
Sound(s) ==
  /\ \A i \in 1..(Len(s) - 1) : <<s[i + 1], s[i]>> \in Signs /\ ~SelfIssued(s[i])
  /\ \A i, j \in 1..Len(s) : s[i] = s[j] => i = j

\* Whatever is imported or destroyed during a walk, whoever signed whom, and
\* however often a name or a key identifier is used, what is placed is sound.
ChainsSound == \A c \in Callers : Sound(chain[c]) /\ \A s \in found[c] : Sound(s)

\* An object from which findIssuer could take an issuer of x.
CouldIssue(o, x) ==
  /\ X509(o) /\ Value(o) # None /\ <<Value(o), x>> \in Signs
  /\ \/ SubjectOf(o) = RawIssuer(x)
     \/ AuthorityKeyId(x) # None /\ SubjectKeyId(Value(o)) = AuthorityKeyId(x)

\* A chain goes to the top, or as far as objects there all the time lead it.
Exhausted(c, s) ==
  LET x == s[Len(s)] IN
  \/ Len(s) = MaxDepth \/ SelfIssued(x)
  \/ \A o \in steady[c] : CouldIssue(o, x) => \E i \in 1..Len(s) : s[i] = Value(o)

\* A call that succeeds has missed nothing that was there all the time: neither
\* the certificate it was asked for, nor any if all were asked for, nor the
\* next issuer of a chain, which names and key identifiers of others do not
\* hide.
NothingMissed ==
  \A c \in Callers : pc[c] = "returned" =>
    /\ call[c].op \in {"find", "chain"} /\ chain[c] = <<>> =>
         \A o \in steady[c] : IsCertificate(o) => Id(o) # call[c].id
    /\ call[c].op = "chain" /\ chain[c] # <<>> => Exhausted(c, chain[c])
    /\ \A s \in found[c] : Exhausted(c, s)
    /\ call[c].op = "all" => \A o \in steady[c] : X509(o) => Value(o) \in read[c]

\* A call fails only if the token does, if an object was destroyed under it, if
\* (not to import or delete) there is a malformed certificate of those that are
\* X.509 or have the id, or, looking for the certificates of private keys, if
\* one of these has neither id nor label: in particular not because an issuer is
\* missing, a name ambiguous, a key without its public half, or something else
\* on the token of another kind.
ErrorExplained ==
  \A c \in Callers : pc[c] = "error" =>
    \/ failed[c]
    \/ disturbed[c] /\ call[c].op # "import"
    \/ /\ call[c].op \notin {"import", "delete"}
       /\ \E o \in live : Value(o) = None /\ (X509(o) \/ (IsCertificate(o) /\ Id(o) = call[c].id))
    \/ call[c].op = "paired" /\ \E o \in live : Nameless(o)

\* Every call returns, even if certificates issue each other in a circle, and
\* whatever is created and destroyed meanwhile.
CallReturns == \A c \in Callers : pc[c] # "idle" ~> pc[c] \in Ended
=============================================================================
