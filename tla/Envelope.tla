------------------------------ MODULE Envelope ------------------------------
(***************************************************************************)
(* The cryptography of a message (app.js) and of the PINs of a switch       *)
(* (lib/crypto.ts, switches.ts, checkins.ts), as terms: a ciphertext carries*)
(* what it hides and the key it is under, and opens with that key only; a  *)
(* PRF of an authenticator gives the same secret for the same credential   *)
(* and salt, and no other; a key pair is one name for both halves.  The    *)
(* split of the key is the code's: exclusive or, bit by bit.               *)
(***************************************************************************)
CONSTANT None   \* what a decryption that fails returns

EncryptPayload(text, K) == [ct |-> text, under |-> K]
DecryptPayload(blob, K) == IF blob.under = K THEN blob.ct ELSE None

Xor(a, b) == [i \in DOMAIN a |-> a[i] # b[i]]

\* shareA is drawn at random.
SplitKey(K, shareA) == [shareA |-> shareA, shareB |-> Xor(K, shareA)]

CombineShares(a, b) == IF b = None THEN None ELSE Xor(a, b)

EciesEncrypt(share, pub)      == [ct |-> share, under |-> pub]
EciesDecrypt(envelope, priv)  == IF envelope.under = priv THEN envelope.ct ELSE None

\* createPasskeyWithPRF at enrollment, evaluatePRF whenever a message is read.
Prf(credential, salt)   == [credential |-> credential, salt |-> salt]
WrapPrivkey(priv, prf)  == [ct |-> priv, under |-> prf]
UnwrapPrivkey(ct, prf)  == IF ct.under = prf THEN ct.ct ELSE None

-----------------------------------------------------------------------------
(* The two PINs of a switch, in an order that does not tell which is which.  *)

HashPin(pin, salt)    == [pin |-> pin, salt |-> salt]
VerifyPin(pin, hash)  == hash.pin = pin

\* Under the master key, and bound to aad: another one is refused.
AeadEncrypt(text, aad) == [ct |-> text, under |-> "master", aad |-> aad]
AeadDecrypt(blob, aad) == IF blob.under = "master" /\ blob.aad = aad THEN blob.ct ELSE None

\* With a bug: the slot does not follow the flip.
PinSlotsFixed(defuse, duress, flip, id) ==
  LET d == HashPin(defuse, 1)  u == HashPin(duress, 2) IN
  [hashes |-> IF flip THEN <<u, d>> ELSE <<d, u>>, duressSlot |-> AeadEncrypt(2, id)]

PinSlots(defuse, duress, flip, id) ==
  LET d == HashPin(defuse, 1)  u == HashPin(duress, 2) IN
  [hashes |-> IF flip THEN <<u, d>> ELSE <<d, u>>,
   duressSlot |-> AeadEncrypt(IF flip THEN 1 ELSE 2, id)]

\* What a check-in with the PIN does.
Meaning(pin, set, id) ==
  LET slot == IF VerifyPin(pin, set.hashes[1]) THEN 1
              ELSE IF VerifyPin(pin, set.hashes[2]) THEN 2 ELSE None
      duress == AeadDecrypt(set.duressSlot, id)
  IN  CASE slot = None                  -> "wrong"
        [] slot # None /\ duress = None -> "error"
        [] slot # None /\ slot = duress -> "duress"
        [] OTHER                        -> "defuse"

\* Of two PINs that differ each does its own, whichever slot it fell in, any other none,
\* and a row under the id of another switch does nothing (switches.ts:92-98, checkins.ts:84-98).
PinsTold ==
  \A defuse, duress, pin \in {"pin1", "pin2", "pin3"} : \A flip \in BOOLEAN :
    defuse # duress =>
      LET set == PinSlots(defuse, duress, flip, "id") IN
      /\ Meaning(pin, set, "id") = CASE pin = defuse -> "defuse" [] pin = duress -> "duress"
                                     [] OTHER -> "wrong"
      /\ Meaning(pin, set, "other") \in {"wrong", "error"}
=============================================================================
