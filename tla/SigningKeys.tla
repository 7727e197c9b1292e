---------------------------- MODULE SigningKeys -----------------------------
(***************************************************************************)
(* The configuration and the keys that tokens are signed and verified with *)
(* (oauth-service/src/config.rs and utils/jwt.rs).                         *)
(*                                                                         *)
(* The settings are read once, when the process starts; the key files are  *)
(* read again for every token that is signed or verified.  A key file is   *)
(* its content, a number, and what the content can be used as.  The two    *)
(* files of an RSA pair are replaced together and have the same number.    *)
(***************************************************************************)
EXTENDS Naturals

Forms == {"pem", "text", "missing"}
KeyFile(key, form) == [key |-> key, form |-> form]

Key(family, source, key) == [family |-> family, source |-> source, key |-> key]
NoKey == Key("none", "none", 0)

(* The environment of a start: ./.env, the two paths ("unset", "empty" or  *)
(* "path"), JWT_ALGORITHM and JWT_SECRET (0 when it is not set).           *)
Environment(dotenv, private, public, algorithm, secret) ==
  [dotenv |-> dotenv, private |-> private, public |-> public,
   algorithm |-> algorithm, secret |-> secret]

(* JwtAlgorithm as from_env reads it: what it does not know is HS256.      *)
Algorithm(text) == IF text = "RS256" THEN "RS256" ELSE "HS256"

(* Config, without the database's address and the issuer; NoConfig is that *)
(* of a process that did not start.                                        *)
Config(env) ==
  [algorithm |-> Algorithm(env.algorithm), private |-> env.private = "path",
   public |-> env.public = "path", secret |-> env.secret]
NoConfig == [algorithm |-> "none", private |-> FALSE, public |-> FALSE, secret |-> 0]

(* from_env: DATABASE_URL has to be in ./.env itself, and both paths have  *)
(* to be set, though not to anything.                                      *)
FromEnv(env) ==
  IF env.dotenv = "complete" /\ "unset" \notin {env.private, env.public}
  THEN Config(env) ELSE NoConfig

RsaKey(given, file) ==
  IF given /\ file.form = "pem" THEN Key("rsa", "file", file.key) ELSE NoKey

(* The HS256 secret is the text of the private key file, whatever it holds,*)
(* or JWT_SECRET when the path is empty.                                   *)
Secret(config, file) ==
  CASE config.private /\ file.form # "missing" -> Key("hmac", "file", file.key)
    [] ~config.private /\ config.secret # 0    -> Key("hmac", "variable", config.secret)
    [] OTHER                                   -> NoKey

(* load_encoding_key and load_decoding_key.                                *)
LoadEncodingKey(config, file) ==
  IF config.algorithm = "RS256" THEN RsaKey(config.private, file) ELSE Secret(config, file)

\* Mutant of LoadDecodingKey: the path of the public key names the file to
\* verify with, whatever the algorithm.
LoadDecodingKeyPublic(config, file) ==
  IF config.algorithm = "RS256" THEN RsaKey(config.public, file)
  ELSE IF config.public /\ file.form # "missing" THEN Key("hmac", "public file", file.key)
  ELSE NoKey

LoadDecodingKey(config, file) ==
  IF config.algorithm = "RS256" THEN RsaKey(config.public, file) ELSE Secret(config, file)

(* generate_token_with_algorithm and generate_id_token_with_algorithm: an  *)
(* ID token has neither jti nor permissions.                               *)
TokenClaims(kind, user, permissions) ==
  [kind |-> kind, user |-> user, permissions |-> permissions]
Jwt(algorithm, key, claims) == [algorithm |-> algorithm, key |-> key, claims |-> claims]
GenerateToken(config, file, claims) ==
  Jwt(config.algorithm, LoadEncodingKey(config, file), claims)

Family(algorithm) == IF algorithm = "RS256" THEN "rsa" ELSE "hmac"

(* verify_token_with_algorithm, but for the expiry: the header's algorithm,*)
(* the signature, and claims that read as TokenClaims.                     *)
VerifyTokenWithAlgorithm(jwt, key, algorithm) ==
  /\ key.family = Family(algorithm)
  /\ jwt.algorithm = algorithm /\ jwt.key = key
  /\ jwt.claims.kind # "id"

(* verify_token, the one that the token service calls: always HS256.       *)
VerifyToken(jwt, key) == VerifyTokenWithAlgorithm(jwt, key, "HS256")
=============================================================================
