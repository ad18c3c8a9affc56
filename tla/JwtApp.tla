-------------------------------- MODULE JwtApp --------------------------------
(***************************************************************************)
(* The example application behind Teleport (apps/example-nodejs-jwt): it   *)
(* answers a request with a page when the JSON Web Token Teleport put into *)
(* its header is signed by Teleport's key and in date, else with 403.      *)
(*                                                                         *)
(* The public key comes from Teleport's JWKS endpoint and is memoized.     *)
(* Requests that need the key while it is being fetched wait for the same  *)
(* fetch.  Teleport may rotate its keys at any time, also between          *)
(* answering a fetch and the arrival of the answer.                        *)
(*                                                                         *)
(* External, from how app.js uses them: jwks-rsa (one memoized key, as     *)
(* Teleport's tokens name none; errors are not memoized; a fetch ends      *)
(* within 30 s), jsonwebtoken, express, and Teleport.                      *)
(***************************************************************************)
EXTENDS FiniteSets

CONSTANTS
  Key, NoKey,
  FirstKey,              \* the key of Teleport when the program is started
  Request,               \* requests at a time
  Env                    \* the environments the program is started in

ASSUME JwtAssumption == NoKey \notin Key /\ FirstKey \in Key

VARIABLES
  env,                   \* proxy, insecure, port; the certificate of the proxy
  server,                \* the program: loading, loaded, listening, stopped
  client,                \* the JWKS client app.js has made
  published,             \* Teleport: keys at its JWKS endpoint
  signer,                \* Teleport: the key it signs with
  former,                \* Teleport: keys it has signed with before
  memo,                  \* the memoized key
  fetch,                 \* the fetch in flight and what the endpoint answered
  request                \* [Request -> control state and locals]

teleportVars == <<published, signer, former>>
appVars == <<env, server, client>>
vars == <<env, server, client, published, signer, former, memo, fetch, request>>

MaybeKey == Key \union {NoKey}

EnvState ==
  [proxy : {"unset", "bare", "https", "http", "HTTPS", "malformed"},
   insecure : {"unset", "true", "TRUE", "True", "t", "1", "false"},
   port : {"free", "busy", "garbage"},
   cert : {"valid", "selfSigned"}]

ASSUME EnvAssumption == Env \subseteq EnvState

ClientState ==
  [scheme : {"http", "https"},
   host : {"configured", "default", "misread"},
   strictSsl : BOOLEAN]

\* A token is signed by a key of Teleport, or (NoKey) of somebody else.
NoToken == [form |-> "none", signer |-> NoKey, expired |-> FALSE, roles |-> FALSE]
Malformed == [NoToken EXCEPT !.form = "malformed"]
Signed == [form : {"signed"}, signer : MaybeKey, expired : BOOLEAN, roles : BOOLEAN]
Token == Signed \union {NoToken, Malformed}

RequestState ==
  [pc : {"idle", "waiting", "verifying", "answered"},
   token : Token,
   key : MaybeKey,                  \* NoKey: getKey failed
   answer : {"none", "403", "page", "500"},
   due : BOOLEAN]                   \* observer: is a page due?

IdleRequest == [pc |-> "idle", token |-> NoToken, key |-> NoKey,
                answer |-> "none", due |-> FALSE]

NoFetch == [pc |-> "none", reply |-> NoKey]

TypeOK ==
  /\ env \in Env
  /\ server \in {"loading", "loaded", "listening", "stopped"}
  /\ client \in ClientState
  /\ published \in SUBSET Key
  /\ signer \in Key
  /\ former \in SUBSET Key
  /\ memo \in MaybeKey
  /\ fetch \in [pc : {"none", "asked", "answered"}, reply : MaybeKey]
  /\ request \in [Request -> RequestState]

Init ==
  /\ env \in Env
  /\ server = "loading"
  /\ client = [scheme |-> "https", host |-> "default", strictSsl |-> TRUE]
  /\ signer = FirstKey
  /\ published = {FirstKey}
  /\ former = {}
  /\ memo = NoKey
  /\ fetch = NoFetch
  /\ request = [r \in Request |-> IdleRequest]

-----------------------------------------------------------------------------
(***************************************************************************)
(* Start: read the environment, make the JWKS client, listen.              *)
(***************************************************************************)
\* A slip: only the first of the accepted values counts.
isInsecureTrueOnly == env.insecure = "true"

isInsecure == env.insecure \in {"true", "TRUE", "t", "1"}

\* A slip: what comes before the colon is taken for the scheme.
proxyAddrPrefix == [scheme |-> env.proxy, host |-> "configured"]

\* An address without a scheme gets https; a scheme in capitals is not
\* recognised, and the name of the host is then misread.
proxyAddr ==
  [scheme |-> IF env.proxy = "http" THEN "http" ELSE "https",
   host |-> CASE env.proxy = "unset" -> "default"
              [] env.proxy = "HTTPS" -> "misread"
              [] OTHER -> "configured"]

\* A slip: the flag is handed over as it is.
jwksClientSwapped ==
  [scheme |-> proxyAddr.scheme, host |-> proxyAddr.host, strictSsl |-> isInsecure]

jwksClient ==
  [scheme |-> proxyAddr.scheme, host |-> proxyAddr.host, strictSsl |-> ~isInsecure]

\* An address that is no URL throws.
Load ==
  /\ server = "loading"
  /\ IF env.proxy = "malformed"
       THEN server' = "stopped" /\ UNCHANGED client
       ELSE server' = "loaded" /\ client' = jwksClient
  /\ UNCHANGED <<env, teleportVars, memo, fetch, request>>

\* A port that is no number throws, a busy one is an error nobody handles.
listen ==
  /\ server = "loaded"
  /\ server' = IF env.port = "free" THEN "listening" ELSE "stopped"
  /\ UNCHANGED <<env, client, teleportVars, memo, fetch, request>>

-----------------------------------------------------------------------------
(***************************************************************************)
(* Teleport rotates its keys: in three phases, or at once.                 *)
(***************************************************************************)
Pending(r) == request[r].pc \in {"waiting", "verifying"}

\* A page is no longer due to the requests in rs that wait for an answer.
Excuse(rs) ==
  request' = [r \in Request |->
    IF r \in rs /\ Pending(r) THEN [request[r] EXCEPT !.due = FALSE]
    ELSE request[r]]

Rotation == Excuse(Request) /\ UNCHANGED <<appVars, memo, fetch>>

New(k) == k \notin published \union former

Publish(k) ==
  /\ New(k)
  /\ published = {signer}
  /\ published' = {signer, k}
  /\ UNCHANGED <<signer, former>>
  /\ Rotation

Switch(k) ==
  /\ k \in published \ (former \union {signer})
  /\ signer' = k
  /\ former' = former \union {signer}
  /\ UNCHANGED published
  /\ Rotation

Retire ==
  /\ published \subseteq former \union {signer}
  /\ published # {signer}
  /\ published' = {signer}
  /\ UNCHANGED <<signer, former>>
  /\ Rotation

Replace(k) ==
  /\ New(k)
  /\ published = {signer}
  /\ published' = {k}
  /\ signer' = k
  /\ former' = former \union {signer}
  /\ Rotation

Teleport == Retire \/ \E k \in Key : Publish(k) \/ Switch(k) \/ Replace(k)

-----------------------------------------------------------------------------
(***************************************************************************)
(* getKey: the memoized key, or a fetch shared by all who wait for it.     *)
(***************************************************************************)
Waiting == {r \in Request : request[r].pc = "waiting"}

\* Everybody who waits gets the key, or (NoKey) the error.
\* A slip: an error is not passed on.
callbackKeyOnly(key) ==
  [r \in Request |->
    IF r \in Waiting /\ key # NoKey
      THEN [request[r] EXCEPT !.pc = "verifying", !.key = key]
    ELSE request[r]]

callback(key) ==
  [r \in Request |->
    IF r \in Waiting THEN [request[r] EXCEPT !.pc = "verifying", !.key = key]
    ELSE request[r]]

\* Does a fetch with this client get to Teleport?
Reaches ==
  /\ client.host = "configured"
  /\ client.scheme = "http" \/ ~client.strictSsl \/ env.cert = "valid"

\* The endpoint answers.  Without a name the client takes the key only if
\* there is no other.
JwksReply ==
  /\ fetch.pc = "asked"
  /\ Reaches
  /\ fetch' = [pc |-> "answered",
               reply |-> IF published = {signer} THEN signer ELSE NoKey]
  /\ UNCHANGED <<appVars, teleportVars, memo, request>>

getSigningKey ==
  /\ fetch.pc = "answered"
  /\ memo' = IF fetch.reply = NoKey THEN memo ELSE fetch.reply
  /\ fetch' = NoFetch
  /\ request' = callback(fetch.reply)
  /\ UNCHANGED <<appVars, teleportVars>>

\* A slip: a connection that is not made is waited for without a time-out.
FetchFailsConnected ==
  /\ fetch.pc = "asked"
  /\ Reaches
  /\ fetch' = NoFetch
  /\ request' = [r \in Request |->
       [callback(NoKey)[r] EXCEPT !.due = @ /\ r \notin Waiting]]
  /\ UNCHANGED <<appVars, teleportVars, memo>>

\* The connection fails, or 30 s are over.  A page is due all the same to
\* those whose client can never reach Teleport.
FetchFails ==
  /\ fetch.pc = "asked"
  /\ fetch' = NoFetch
  /\ request' = [r \in Request |->
       [callback(NoKey)[r] EXCEPT !.due = @ /\ ~(Reaches /\ r \in Waiting)]]
  /\ UNCHANGED <<appVars, teleportVars, memo>>

\* A slip: the key is memoized for good.
MemoExpiresNever ==
  /\ memo # NoKey
  /\ UNCHANGED vars

MemoExpires ==
  /\ memo # NoKey
  /\ memo' = NoKey
  /\ UNCHANGED <<appVars, teleportVars, fetch, request>>

-----------------------------------------------------------------------------
(***************************************************************************)
(* The middleware, and the page behind it.                                 *)
(***************************************************************************)
\* Nothing is left of an earlier key, and Teleport has one key only.
Settled ==
  /\ published = {signer}
  /\ memo \in {NoKey, signer}
  /\ fetch.pc = "answered" => fetch.reply = signer

\* Tokens there are: of keys Teleport signs or has signed with, or not of Teleport.
Issued(token) ==
  token.form = "signed" => token.signer \in former \union {signer, NoKey}

Good(token) ==
  /\ token.form = "signed"
  /\ token.signer = signer
  /\ ~token.expired
  /\ token.roles

\* What is left of a request when it has been answered.
Answered(answer, due) ==
  [IdleRequest EXCEPT !.pc = "answered", !.answer = answer, !.due = due]

getKey(r, token) ==
  /\ request' = [request EXCEPT ![r] =
       [pc |-> IF memo = NoKey THEN "waiting" ELSE "verifying",
        token |-> token, key |-> memo, answer |-> "none",
        due |-> Good(token) /\ Settled]]
  /\ IF memo = NoKey /\ fetch.pc = "none"
       THEN fetch' = [pc |-> "asked", reply |-> NoKey]
       ELSE UNCHANGED fetch

\* A request arrives; the slot of an answered one is used again.
middleware(r, token) ==
  /\ server = "listening"
  /\ ~Pending(r)
  /\ Issued(token)
  /\ IF token.form \in {"none", "malformed"}
       THEN /\ request' = [request EXCEPT ![r] = Answered("403", FALSE)]
            /\ UNCHANGED fetch
       ELSE getKey(r, token)
  /\ UNCHANGED <<appVars, teleportVars, memo>>

\* The template throws without roles, which express answers with 500.
page(token) == IF token.roles THEN "page" ELSE "500"

\* A slip: without a key nothing is compared.
verifyAnyKey(r) ==
  LET q == request[r] IN
  /\ q.pc = "verifying"
  /\ request' = [request EXCEPT ![r] = Answered(
       IF q.key \in {NoKey, q.token.signer} /\ ~q.token.expired
         THEN page(q.token) ELSE "403", q.due)]
  /\ UNCHANGED <<appVars, teleportVars, memo, fetch>>

\* The callback of jwt.verify.
verify(r) ==
  LET q == request[r] IN
  /\ q.pc = "verifying"
  /\ request' = [request EXCEPT ![r] = Answered(
       IF q.key # NoKey /\ q.key = q.token.signer /\ ~q.token.expired
         THEN page(q.token) ELSE "403", q.due)]
  /\ UNCHANGED <<appVars, teleportVars, memo, fetch>>

-----------------------------------------------------------------------------
Next ==
  \/ Load \/ listen \/ Teleport
  \/ JwksReply \/ getSigningKey \/ FetchFails \/ MemoExpires
  \/ \E r \in Request : verify(r) \/ \E token \in Token : middleware(r, token)

Spec == Init /\ [][Next]_vars

\* A fetch ends, by an answer or by its time-out; callbacks run; the memo ages.
\* Teleport owes us no rotation, and nobody a request.
Fairness ==
  /\ WF_vars(JwksReply \/ FetchFails)
  /\ WF_vars(getSigningKey)
  /\ WF_vars(MemoExpires)
  /\ \A r \in Request : WF_vars(verify(r))

FairSpec == Spec /\ Fairness

-----------------------------------------------------------------------------
(***************************************************************************)
(* Nobody waits for a fetch that is not on its way, however fetches, their *)
(* errors and the expiry of the memo interleave.                           *)
(***************************************************************************)
NoLostWaiter ==
  Waiting # {} => fetch.pc # "none"

(***************************************************************************)
(* A token in date and signed by Teleport's only key gets the page,        *)
(* provided the client is configured to reach Teleport (the scheme is one  *)
(* app.js knows, the certificate is valid or TELEPORT_INSECURE says so):   *)
(* the only excuses are a failed fetch and a rotation of the keys that the *)
(* memo or a fetch in flight has not seen.                                 *)
(***************************************************************************)
Configured ==
  \/ env.proxy = "http"
  \/ /\ env.proxy \in {"bare", "https"}
     /\ env.cert = "valid" \/ env.insecure \in {"true", "TRUE", "t", "1"}

GoodTokensPass ==
  \A r \in Request :
    request[r].due /\ request[r].pc = "answered" /\ Configured
      => request[r].answer = "page"

(***************************************************************************)
(* A key Teleport no longer publishes, and that neither the memo nor a     *)
(* fetch nor a waiting request still holds, is not trusted again; and a    *)
(* page is only shown for a token whose signer was still trusted.          *)
(***************************************************************************)
Verifying == {r \in Request : request[r].pc = "verifying"}

Trusted ==
  published \union
  (({memo, fetch.reply} \union {request[r].key : r \in Verifying}) \ {NoKey})

RetiredStaysRetired ==
  [][/\ Trusted' \subseteq Trusted \union (Key \ former)
     /\ \A r \in Request :
          request[r].pc = "verifying" /\ request'[r].answer = "page"
            => request[r].token.signer \in Trusted]_vars

(***************************************************************************)
(* No key is memoized through a connection app.js was configured to refuse *)
(* (a certificate that is not valid, unless TELEPORT_INSECURE says so).    *)
(***************************************************************************)
CertificateChecked ==
  memo # NoKey => Configured

(***************************************************************************)
(* Every request is answered, also when Teleport cannot be reached.        *)
(***************************************************************************)
EveryRequestAnswered ==
  \A r \in Request : Pending(r) ~> request[r].pc = "answered"

(***************************************************************************)
(* Once Teleport stays with one key, the memo holds no other for good.     *)
(***************************************************************************)
RotationHeals ==
  \A k \in Key :
    <>[](signer = k /\ published = {k}) => <>[](memo \in {NoKey, k})
=============================================================================
