------------------------------- MODULE Crypto -------------------------------
(***************************************************************************)
(* node:crypto over the contexts of qn-crypto.c.  Four uses of it, each a    *)
(* program of its own: one side encrypts and another decrypts, with the      *)
(* input cut into calls of update() anyhow; a digest is fed and read; one    *)
(* side signs and another verifies; two sides agree on a secret.             *)
(*                                                                         *)
(* The mathematics of BearSSL is external and ideal.  A unit of ciphertext   *)
(* is the unit of plaintext with its place in the key stream, and decrypts   *)
(* only with the same place; a tag is what went into it; a digest is the     *)
(* sequence that was fed; a secret is the set of the two private keys.       *)
(***************************************************************************)
EXTENDS Naturals, Sequences, SequencesExt, FiniteSets

CONSTANTS
  CrUnits,    \* units of plaintext
  BlockUnits, \* units in a block of AES: 16 bytes in the code
  MaxKeys     \* bound: private keys that are made

ASSUME CryptoAssumption == CrUnits \in Nat /\ BlockUnits \in Nat \ {0} /\ MaxKeys \in Nat

VARIABLE cr

Plain == [i \in 1..CrUnits |-> i]
Garbage == 0
Ciphers == {"ctr", "gcm", "chapoly"}
Sides == {"one", "two"}

(* cipherInit: the fields of the contexts of the three kinds of cipher.  *)
NewCipher(algo, encrypt) ==
  [algo |-> algo, encrypt |-> encrypt, cc |-> 0, flipped |-> FALSE, aad |-> <<>>, text |-> <<>>,
   data |-> <<>>, gets |-> 0, tag |-> <<>>]

NewSession(use) ==
  [use |-> use, todo |-> Plain,
   enc |-> NewCipher(use, TRUE), dec |-> NewCipher(use, FALSE), phase |-> "encrypt",
   sent |-> <<>>, tag |-> <<>>, tampered |-> FALSE, pending |-> <<>>, asked |-> FALSE,
   got |-> <<>>, verdict |-> "none", uneven |-> FALSE, misused |-> FALSE,
   \* Hash, Sign and Verify
   fed |-> <<>>, state |-> <<>>, digest |-> <<>>, signed |-> <<>>, other |-> <<>>,
   \* ECDH
   made |-> 0, priv |-> [p \in Sides |-> 0], pub |-> [p \in Sides |-> 0],
   shown |-> [p \in Sides |-> 0], secret |-> [p \in Sides |-> {}]]

CrInit == cr = NewSession("none")

CrBegin ==
  /\ cr.use = "none"
  /\ \E use \in Ciphers \cup {"hash", "sign", "ecdh"} : cr' = NewSession(use)

-----------------------------------------------------------------------------
(* Ciphers.                                                                  *)

(* Place of the i-th unit of a call in the key stream.  AES-CTR starts every *)
(* call at a block of its own, GCM goes on where it was.                     *)
Place(c, i) ==
  LET at == IF c.algo = "ctr" THEN i - 1 ELSE Len(c.text) + i - 1
  IN  <<c.cc + at \div BlockUnits, at % BlockUnits>>

Crypt(c, chunk) ==
  [i \in DOMAIN chunk |->
     IF c.encrypt THEN <<chunk[i], Place(c, i)>>
     ELSE IF chunk[i][2] = Place(c, i) THEN chunk[i][1] ELSE Garbage]

(* What the authentication covers: the ciphertext.  *)
Covered(c, chunk) == IF c.encrypt THEN Crypt(c, chunk) ELSE chunk

(* Mutant: the counter is not kept.  *)
CipherUpdateFromZero(c, chunk) ==
  IF c.algo = "chapoly" THEN [c |-> [c EXCEPT !.data = c.data \o chunk], out |-> <<>>]
  ELSE [c |-> [c EXCEPT !.flipped = TRUE, !.text = c.text \o Covered(c, chunk)],
        out |-> Crypt(c, chunk)]

(* cipherUpdate.  *)
CipherUpdate(c, chunk) ==
  IF c.algo = "chapoly" THEN [c |-> [c EXCEPT !.data = c.data \o chunk], out |-> <<>>]
  ELSE [c |-> [c EXCEPT !.flipped = TRUE, !.text = c.text \o Covered(c, chunk),
                        !.cc = IF c.algo = "ctr"
                               THEN c.cc + (Len(chunk) + BlockUnits - 1) \div BlockUnits ELSE c.cc],
        out |-> Crypt(c, chunk)]

(* cipherSetAAD.  GCM mixes it in where it stands.  *)
CipherSetAAD(c, a) ==
  [c EXCEPT !.aad = Append(@, <<a, IF c.algo = "gcm" THEN Len(c.text) ELSE 0>>)]

(* The tag, which in GCM changes each time it is computed.  *)
Tag(c) == <<c.aad, c.text, c.gets>>

(* cipherFinal: ChaCha20-Poly1305 does all its work here.  *)
CipherFinal(c) ==
  LET d == [c EXCEPT !.text = Covered(c, c.data), !.data = <<>>] IN
  CASE c.algo = "ctr" -> [c |-> c, out |-> <<>>]
    [] c.algo = "gcm" -> [c |-> [c EXCEPT !.flipped = TRUE, !.tag = Tag(c), !.gets = c.gets + 1],
                          out |-> <<>>]
    [] c.algo = "chapoly" -> [c |-> [d EXCEPT !.tag = Tag(d)], out |-> Crypt(c, c.data)]

(* cipherGetAuthTag: GCM computes a tag if there is none yet.  *)
CipherGetAuthTag(c) ==
  IF c.algo = "gcm" /\ c.tag = <<>> THEN [c EXCEPT !.tag = Tag(c), !.gets = c.gets + 1] ELSE c

(* cipherSetAuthTag, after cipherFinal: no other cipher has a tag.  *)
CipherSetAuthTag(c, tag) == c.algo # "ctr" /\ c.tag = tag

Update(n) ==
  /\ cr.use \in Ciphers /\ cr.verdict = "none" /\ n \in 1..Len(cr.todo)
  /\ LET chunk == SubSeq(cr.todo, 1, n)
         side  == IF cr.phase = "encrypt" THEN cr.enc ELSE cr.dec
         u     == CipherUpdate(side, chunk)
         s     == [cr EXCEPT !.todo = SubSeq(cr.todo, n + 1, Len(cr.todo)),
                             !.uneven = cr.uneven \/ (n < Len(cr.todo) /\ n % BlockUnits # 0)]
     IN  cr' = IF cr.phase = "encrypt" THEN [s EXCEPT !.enc = u.c, !.sent = cr.sent \o u.out]
               ELSE [s EXCEPT !.dec = u.c, !.got = cr.got \o u.out]

(* setAAD, once on each side; after the first update() GCM is misused.       *)
SetAAD ==
  /\ cr.use \in Ciphers /\ cr.verdict = "none"
  /\ LET side == IF cr.phase = "encrypt" THEN cr.enc ELSE cr.dec
         s    == [cr EXCEPT !.misused = cr.misused \/ (cr.use = "gcm" /\ side.flipped)]
     IN  /\ side.aad = <<>>
         /\ cr' = IF cr.phase = "encrypt" THEN [s EXCEPT !.enc = CipherSetAAD(side, "aad")]
                  ELSE [s EXCEPT !.dec = CipherSetAAD(side, "aad")]

(* getAuthTag before final(): GCM gives a tag of what it has so far.         *)
EarlyGetAuthTag ==
  /\ cr.use = "gcm" /\ cr.phase = "encrypt" /\ cr.enc.tag = <<>>
  /\ cr' = [cr EXCEPT !.enc = CipherGetAuthTag(cr.enc), !.misused = TRUE]

(* final() and getAuthTag() of the side that encrypts; then the text and the *)
(* tag go to the other side, where they may arrive changed.                  *)
FinalEncrypt(tamper) ==
  /\ cr.use \in Ciphers /\ cr.phase = "encrypt" /\ cr.todo = <<>>
  /\ LET f    == CipherFinal(cr.enc)
         text == cr.sent \o f.out
         g    == CipherGetAuthTag(f.c)
         bad  == tamper # "nothing"
     IN  /\ tamper = "text" => text # <<>>
         /\ cr' = [cr EXCEPT !.enc = g, !.sent = text, !.phase = "decrypt", !.tampered = bad,
                             !.tag = IF tamper = "tag" THEN <<"other">> ELSE g.tag,
                             !.todo = IF tamper = "text" THEN [text EXCEPT ![1] = <<Garbage, <<0, 0>>>>]
                                      ELSE text]

SetAuthTag ==
  /\ cr.use \in Ciphers \ {"ctr"} /\ cr.phase = "decrypt" /\ cr.verdict = "none" /\ ~cr.asked
  /\ cr' = [cr EXCEPT !.pending = cr.tag, !.asked = TRUE]

(* final(): cipherFinal, then _verifyAuthTag if a tag was set.  *)
FinalDecrypts(s) ==
  LET f == CipherFinal(s.dec) IN
  IF s.asked /\ ~CipherSetAuthTag(f.c, s.pending)
  THEN [s EXCEPT !.dec = f.c, !.verdict = "throws"]
  ELSE [s EXCEPT !.dec = f.c, !.got = s.got \o f.out, !.verdict = "ok"]

FinalDecrypt ==
  /\ cr.use \in Ciphers /\ cr.phase = "decrypt" /\ cr.todo = <<>> /\ cr.verdict = "none"
  /\ cr' = FinalDecrypts(cr)

-----------------------------------------------------------------------------
(* Hash, and Hmac alike: the context is fed, and read without being used up. *)

HashUpdate(n) ==
  /\ cr.use = "hash" /\ n \in 1..Len(cr.todo)
  /\ cr' = [cr EXCEPT !.todo = SubSeq(cr.todo, n + 1, Len(cr.todo)),
                      !.fed = cr.fed \o SubSeq(cr.todo, 1, n),
                      !.state = cr.state \o SubSeq(cr.todo, 1, n), !.asked = FALSE]

(* hashOut and hmacOut.  *)
HashOut(s) == [s EXCEPT !.digest = s.state, !.asked = TRUE]

Digest == cr.use = "hash" /\ cr' = HashOut(cr)

-----------------------------------------------------------------------------
(* Sign and Verify keep the chunks and hash them when they are asked.        *)

(* hashInit, hashUpdate of every chunk, hashOut.  *)
HashedChunks(chunks) == FlattenSeq(chunks)

SignUpdate(n) ==
  /\ cr.use = "sign" /\ cr.phase = "encrypt" /\ n \in 1..Len(cr.todo)
  /\ cr' = [cr EXCEPT !.todo = SubSeq(cr.todo, n + 1, Len(cr.todo)),
                      !.state = Append(cr.state, SubSeq(cr.todo, 1, n))]

(* sign: the signature goes to the other side with the data, or other data.  *)
SignData(data) ==
  /\ cr.use = "sign" /\ cr.phase = "encrypt" /\ cr.todo = <<>>
  /\ cr' = [cr EXCEPT !.signed = HashedChunks(cr.state), !.phase = "decrypt", !.state = <<>>,
                      !.todo = data, !.other = data]

VerifyUpdate(n) ==
  /\ cr.use = "sign" /\ cr.phase = "decrypt" /\ cr.verdict = "none" /\ n \in 1..Len(cr.todo)
  /\ cr' = [cr EXCEPT !.todo = SubSeq(cr.todo, n + 1, Len(cr.todo)),
                      !.state = Append(cr.state, SubSeq(cr.todo, 1, n))]

Verify ==
  /\ cr.use = "sign" /\ cr.phase = "decrypt" /\ cr.verdict = "none" /\ cr.todo = <<>>
  /\ cr' = [cr EXCEPT !.verdict = IF HashedChunks(cr.state) = cr.signed THEN "ok" ELSE "throws"]

-----------------------------------------------------------------------------
(* ECDH.  Keys are numbered; a public key has the number of its private key. *)

GenerateKeys(p) ==
  /\ cr.use = "ecdh" /\ cr.made < MaxKeys
  /\ cr' = [cr EXCEPT !.made = @ + 1, !.priv[p] = cr.made + 1, !.pub[p] = cr.made + 1,
                      !.secret[p] = {}]

(* setPrivateKey: the public key is forgotten.  *)
WithPrivateKey(s, p) ==
  [s EXCEPT !.made = @ + 1, !.priv[p] = s.made + 1, !.pub[p] = 0, !.secret[p] = {}]

SetPrivateKey(p) == cr.use = "ecdh" /\ cr.made < MaxKeys /\ cr' = WithPrivateKey(cr, p)

(* getPublicKey, and the key reaches the other side.  *)
ShowPublicKey(p) ==
  /\ cr.use = "ecdh" /\ cr.pub[p] # 0
  /\ cr' = [cr EXCEPT !.shown[p] = cr.pub[p]]

(* computeSecret, with the key the other side has shown.  *)
ComputeSecret(p, q) ==
  /\ cr.use = "ecdh" /\ p # q /\ cr.priv[p] # 0 /\ cr.shown[q] # 0
  /\ cr' = [cr EXCEPT !.secret[p] = {cr.priv[p], cr.shown[q]}]

-----------------------------------------------------------------------------
CrNext ==
  \/ CrBegin
  \/ \E n \in 1..CrUnits : Update(n) \/ HashUpdate(n) \/ SignUpdate(n) \/ VerifyUpdate(n)
  \/ SetAAD \/ EarlyGetAuthTag \/ SetAuthTag \/ FinalDecrypt
  \/ \E tamper \in {"nothing", "text", "tag"} : FinalEncrypt(tamper)
  \/ Digest
  \/ \E data \in {Plain, Reverse(Plain)} : SignData(data)
  \/ Verify
  \/ \E p \in Sides :
       \/ GenerateKeys(p) \/ SetPrivateKey(p) \/ ShowPublicKey(p)
       \/ \E q \in Sides : ComputeSecret(p, q)

CrTypeOK ==
  /\ cr.verdict \in {"none", "ok", "throws"} /\ cr.phase \in {"encrypt", "decrypt"}
  /\ \A p \in Sides : cr.pub[p] \in 0..MaxKeys /\ cr.secret[p] \subseteq 1..MaxKeys
  /\ cr.enc.gets \in 0..2 /\ cr.dec.gets \in 0..1

SameAAD == cr.enc.aad = cr.dec.aad

(* What was encrypted decrypts to itself and is accepted, however each side  *)
(* cuts its input, if both give the same additional data before the first    *)
(* update() and take the tag after final().  With AES-CTR every call but the *)
(* last must be a whole number of blocks.                                    *)
RoundTrips ==
  /\ cr.use \in Ciphers /\ cr.verdict # "none"
  /\ ~cr.tampered /\ ~cr.misused /\ (SameAAD \/ ~cr.asked) /\ (cr.use = "ctr" => ~cr.uneven)
  => cr.verdict = "ok" /\ cr.got = Plain

(* When a tag is set, text or a tag that was changed on the way makes final() *)
(* throw, and so do other additional data.                                   *)
ChangesAreNoticed ==
  cr.use \in {"gcm", "chapoly"} /\ cr.verdict # "none" /\ cr.asked /\ (cr.tampered \/ ~SameAAD)
    => cr.verdict = "throws"

(* A digest is of all that was fed until then, whether or not it was read    *)
(* before.                                                                   *)
DigestIsOfAllFed == cr.use = "hash" /\ cr.asked => cr.digest = cr.fed

(* A signature is accepted for the data that was signed and for no other,    *)
(* however each side cuts it.  (The program leaves the buffers alone: the    *)
(* chunks are kept by reference until sign() and verify().)                  *)
SignatureIsOfTheData ==
  cr.use = "sign" /\ cr.verdict # "none" => (cr.verdict = "ok" <=> cr.other = Plain)

(* Two sides that have each computed a secret from the key the other one     *)
(* shows, and have not changed their own since they showed it, have the same *)
(* secret.                                                                   *)
SecretsAgree ==
  cr.use = "ecdh" =>
    \A p, q \in Sides :
      /\ p # q /\ cr.secret[p] # {} /\ cr.secret[q] # {}
      /\ cr.pub[p] # 0 /\ cr.pub[q] # 0
      /\ cr.shown[q] = cr.pub[q] /\ cr.shown[p] = cr.pub[p]
      /\ cr.shown[q] \in cr.secret[p] /\ cr.shown[p] \in cr.secret[q]
      => cr.secret[p] = cr.secret[q]

(* The objects of node:crypto over any sequence of their calls.  *)
CryptoInv ==
  /\ CrTypeOK
  /\ RoundTrips /\ ChangesAreNoticed
  /\ DigestIsOfAllFed /\ SignatureIsOfTheData /\ SecretsAgree
=============================================================================
