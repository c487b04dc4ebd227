-------------------------- MODULE Authentication --------------------------
(***************************************************************************)
(* middleware.AuthMiddleware (middleware/auth.go): which credentials a     *)
(* request carries, what becomes of them, and the tokens it issues.  A     *)
(* token is its claims with the secret it was signed with; the check of    *)
(* signature and expiry is that of the jwt library.                        *)
(***************************************************************************)
EXTENDS Sequences, FiniteSets, Functions

AuthMethods == {"jwt", "api_key"}
Standard == {"sub", "username", "email", "roles", "iss", "aud", "exp", "nbf", "iat"}

\* An Authorization header is <<scheme, value>>, empty or absent.
NoUser == [id |-> "", roles |-> {}, metadata |-> {}]

Found(user, method) == [user |-> user, method |-> method]
NotFound == Found(NoUser, "none")

ValidateClaims(config, claims) ==
    /\ config.issuer # "" => claims.iss = config.issuer
    /\ config.audience # {} => claims.aud \cap config.audience # {}

UserOf(claims) ==
    [id |-> claims.sub, roles |-> claims.roles, metadata |-> claims.extra \ Standard]

AuthenticateJWT(config, token) ==
    IF /\ token.secret = config.secret /\ ~token.expired
       /\ ValidateClaims(config, token.claims)
    THEN Found(UserOf(token.claims), "jwt") ELSE NotFound

AuthenticateAPIKey(config, key) ==
    IF key \in DOMAIN config.keys THEN Found(config.keys[key], "api_key") ELSE NotFound

\* The key's own header comes before an Authorization header that holds one.
ExtractAPIKey(request) ==
    CASE request.keyHeader # "" -> request.keyHeader
      [] request.keyHeader = "" /\ request.scheme = "ApiKey" -> request.value
      [] OTHER -> ""

\* A bearer token first, then a key; a request without either is told so.
Authenticate(config, request) ==
    LET byToken == IF "jwt" \in config.methods /\ request.scheme = "Bearer"
                   THEN AuthenticateJWT(config, request.value) ELSE NotFound
        key == ExtractAPIKey(request)
        byKey == IF "api_key" \in config.methods /\ key # ""
                 THEN AuthenticateAPIKey(config, key) ELSE NotFound
        found == IF byToken # NotFound THEN byToken ELSE byKey
    IN  [found   |-> found,
         outcome |-> CASE found # NotFound \/ ~config.require -> "pass"
                       [] found = NotFound /\ config.require
                            /\ request.scheme = "" /\ key = "" -> "missing header"
                       [] OTHER -> "unauthorized"]

\* Mutant of GenerateJWT: the audience is left out.
GenerateJWTNoAudience(user, config) ==
    [secret |-> config.secret, expired |-> FALSE,
     claims |-> [sub |-> user.id, roles |-> user.roles, extra |-> user.metadata,
                 iss |-> config.issuer, aud |-> {}]]

GenerateJWT(user, config) ==
    [secret |-> config.secret, expired |-> FALSE,
     claims |-> [sub |-> user.id, roles |-> user.roles, extra |-> user.metadata,
                 iss |-> config.issuer, aud |-> config.audience]]

-----------------------------------------------------------------------------

(* A token issued under a configuration authenticates its user under every  *)
(* configuration with the same secret and issuer that shares an audience    *)
(* with it, and never under one with another secret; the keys' header does  *)
(* not come before it.                                                      *)
IssuedTokensWork(user, issuer, checker, keyHeader) ==
    LET request == [scheme |-> "Bearer", value |-> GenerateJWT(user, issuer),
                    keyHeader |-> keyHeader]
        got == Authenticate(checker, request)
        same == /\ issuer.secret = checker.secret
                /\ checker.issuer \in {"", issuer.issuer}
                /\ checker.audience = {} \/ issuer.audience \cap checker.audience # {}
    IN  /\ "jwt" \in checker.methods /\ same => got.found = Found(user, "jwt")
        /\ got.found.method = "jwt" => same
        /\ got.outcome # "missing header"
=============================================================================
