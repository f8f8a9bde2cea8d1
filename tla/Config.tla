-------------------------------- MODULE Config --------------------------------
(***************************************************************************)
(* internal/config and internal/secret: the environment of a workload.     *)
(* A map from names to values is a function on a set of names.  A sealed   *)
(* value is a record of the key and the nonce it was sealed with, the      *)
(* length of the nonce and the plaintext; a plaintext is a map, or         *)
(* NotJSON.  The store is a function from names to ConfigMaps or Secrets.  *)
(***************************************************************************)
EXTENDS Integers, Sequences, SequencesExt

CONSTANTS NonceSize, NotJSON

\* Entries of the second map replace those of the first.
Overlay(m, n) == [k \in DOMAIN m \cup DOMAIN n |-> IF k \in DOMAIN n THEN n[k] ELSE m[k]]

Fails(why) == [ok |-> FALSE, why |-> why, env |-> << >>]
Holds(env) == [ok |-> TRUE, why |-> "", env |-> env]

\* Cipher.Encrypt with a key and the random nonce it drew.
Encrypt(key, nonce, plain) == [key |-> key, sealed |-> nonce, nonce |-> nonce,
                               nonceLen |-> NonceSize, plain |-> plain]

\* Cipher.Decrypt: AES-GCM opens what was sealed with the same key and nonce.
Decrypt(key, s) ==
  IF s.nonceLen # NonceSize THEN Fails("too short")
  ELSE IF s.key # key \/ s.sealed # s.nonce THEN Fails("decrypt")
  ELSE IF s.plain = NotJSON THEN Fails("decode")
  ELSE Holds(s.plain)

\* One reference of ResolveEnv's loops: the first error is the result.
AddConfigMap(acc, name, maps) ==
  IF ~acc.ok THEN acc
  ELSE IF name \notin DOMAIN maps THEN Fails("configmap")
  ELSE Holds(Overlay(acc.env, maps[name]))

AddSecret(acc, name, secrets, key) ==
  IF ~acc.ok THEN acc
  ELSE IF name \notin DOMAIN secrets THEN Fails("secret")
  ELSE LET pt == Decrypt(key, secrets[name])
       IN IF pt.ok THEN Holds(Overlay(acc.env, pt.env)) ELSE pt

\* Mutant of ResolveEnv: the workload's own Env comes last.
ResolveEnvOwnLast(w, maps, secrets, key) ==
  LET cm  == FoldLeft(LAMBDA a, n : AddConfigMap(a, n, maps), Holds(<< >>), w.configMapRefs)
      sec == FoldLeft(LAMBDA a, n : AddSecret(a, n, secrets, key), cm, w.secretRefs)
  IN IF sec.ok THEN Holds(Overlay(sec.env, w.env)) ELSE sec

ResolveEnv(w, maps, secrets, key) ==
  LET cm == FoldLeft(LAMBDA a, n : AddConfigMap(a, n, maps), Holds(w.env), w.configMapRefs)
  IN FoldLeft(LAMBDA a, n : AddSecret(a, n, secrets, key), cm, w.secretRefs)
==============================================================================
