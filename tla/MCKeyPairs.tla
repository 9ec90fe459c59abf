----------------------------- MODULE MCKeyPairs -----------------------------
(* A small instance of KeyPairs for TLC.                                   *)
EXTENDS KeyPairs, TLC

Object(class, type, key, id, label, evidence) ==
  [class |-> class, type |-> type, key |-> key, id |-> id, label |-> label,
   sound |-> TRUE, evidence |-> evidence]

CONSTANTS
  priv1, pub1, cert1, alien1,   \* a key that tells its public half
  priv2, pub2, alien2,          \* one that tells nothing, without a label
  priv3, pub3, alien3,          \* an ML-KEM key without an id
  priv4,                        \* a private key without a name
  badcert,                      \* a certificate that does not parse
  secret, vendor                \* keys of a type in Ciphers and of another one

MCData ==
  priv1 :> Object("private", "rsa", "one", "i", "l", "attribute") @@
  pub1 :> Object("public", "rsa", "one", "i", "l", "none") @@
  cert1 :> Object("certificate", "rsa", "one", "i", None, "none") @@
  badcert :> [Object("certificate", "rsa", "one", "i", None, "none") EXCEPT !.sound = FALSE] @@
  alien1 :> Object("public", "rsa", "alien", "i", "l", "none") @@
  priv2 :> Object("private", "ec", "two", "j", None, "none") @@
  pub2 :> Object("public", "ec", "two", "j", None, "none") @@
  alien2 :> Object("public", "ec", "alien", "j", "l", "none") @@
  priv3 :> Object("private", "kem", "three", None, "l", "attribute") @@
  pub3 :> Object("public", "kem", "three", None, "l", "none") @@
  alien3 :> Object("public", "kem", "alien", "j", "l", "none") @@
  priv4 :> Object("private", "kem", "four", None, None, "attribute") @@
  secret :> Object("secret", "aes", "five", "k", None, "none") @@
  vendor :> Object("secret", "other", "six", None, "l", "none")

All == {priv1, pub1, cert1, alien1, priv2, pub2, alien2, priv3, pub3, alien3, priv4,
        badcert, secret, vendor}

Call(kind, id) == [kind |-> kind, id |-> id, label |-> None]
MCAsked == {Call(k, None) : k \in Kinds} \cup {Call("pairs", "j")}

MCStarts == {{priv1, pub1, priv2, pub2, alien2, secret, vendor},
             {priv1, cert1, alien1, pub2, priv3, pub3, alien3, priv4},
             {priv1, pub1, cert1, badcert},
             {alien1, priv2, pub2, pub3}}
MCStartsNameless == {{priv1, pub1, priv4}, {priv1, pub1, priv3, pub3, alien3, cert1}}
=============================================================================
