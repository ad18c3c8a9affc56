------------------------------ MODULE JwtProofs -------------------------------
(***************************************************************************)
(* Proofs about JwtApp, for any keys, any number of requests and any       *)
(* environments.  The argument: as long as a page is due to a request,     *)
(* Teleport has one key and nothing of an earlier one is left (Settled);   *)
(* a fetch either brings that key or fails, and if the client is           *)
(* configured to reach Teleport a failure is an excuse.                    *)
(***************************************************************************)
EXTENDS JwtApp, TLAPS

\* What the state of the program says about its client and what it fetched.
ClientTrue ==
  /\ server \in {"loaded", "listening"} => client = jwksClient /\ env.proxy # "malformed"
  /\ server # "listening" => memo = NoKey /\ fetch = NoFetch /\ \A r \in Request : ~Pending(r)
  /\ fetch.reply # NoKey => Configured

SignerPublished == signer \in published

\* What the control state of a request says about its locals.
RequestTrue(r) ==
  LET q == request[r] IN
  /\ Pending(r) => q.token \in Signed /\ q.answer = "none"
  /\ Pending(r) /\ q.due => Good(q.token) /\ Settled
  /\ q.pc = "verifying" /\ q.due /\ Configured => q.key = signer
  /\ q.pc = "answered" /\ q.due /\ Configured => q.answer = "page"

RequestsTrue == \A r \in Request : RequestTrue(r)

JwtInv ==
  /\ TypeOK
  /\ ClientTrue
  /\ SignerPublished
  /\ RequestsTrue
  /\ NoLostWaiter
  /\ CertificateChecked

-----------------------------------------------------------------------------
(***************************************************************************)
(* The records the program builds.                                         *)
(***************************************************************************)
LEMMA JwtRecords ==
  /\ NoFetch \in [pc : {"none", "asked", "answered"}, reply : MaybeKey]
  /\ NoToken \in Token /\ Malformed \in Token /\ Signed \subseteq Token
  /\ IdleRequest \in RequestState
  /\ \A answer \in {"403", "page", "500"}, due \in BOOLEAN :
       /\ Answered(answer, due) \in RequestState
       /\ Answered(answer, due).pc = "answered"
       /\ Answered(answer, due).answer = answer
       /\ Answered(answer, due).due = due
BY DEF NoFetch, MaybeKey, NoToken, Malformed, Signed, Token, IdleRequest,
       RequestState, Answered

(***************************************************************************)
(* A client that was made reaches Teleport exactly if it was configured    *)
(* to: what isInsecure and proxyAddr make of the environment is right.     *)
(***************************************************************************)
LEMMA ReachesAsConfigured ==
  ASSUME env \in EnvState, client = jwksClient, env.proxy # "malformed"
  PROVE  Reaches <=> Configured
BY DEF EnvState, Reaches, Configured, jwksClient, proxyAddr, isInsecure

(***************************************************************************)
(* What callback hands to the requests that wait.                          *)
(***************************************************************************)
LEMMA CallbackRequests ==
  ASSUME TypeOK, NEW k \in MaybeKey, NEW r \in Request
  PROVE  /\ callback(k)[r] \in RequestState
         /\ callback(k)[r].pc # "waiting"
         /\ r \notin Waiting => callback(k)[r] = request[r]
         /\ r \in Waiting =>
              /\ callback(k)[r].pc = "verifying"
              /\ callback(k)[r].key = k
              /\ callback(k)[r].token = request[r].token
              /\ callback(k)[r].answer = request[r].answer
              /\ callback(k)[r].due = request[r].due
BY DEF TypeOK, callback, Waiting, RequestState

-----------------------------------------------------------------------------
(***************************************************************************)
(* A rotation takes their page from all requests that wait.                *)
(***************************************************************************)
LEMMA RotationInv ==
  ASSUME JwtInv, Rotation, signer' \in published', signer' \in Key,
         published' \in SUBSET Key, former' \in SUBSET Key
  PROVE  JwtInv'
<1>1. UNCHANGED <<env, server, client, memo, fetch>>
  BY DEF Rotation, appVars
<1>2. \A r \in Request :
        /\ request'[r] \in RequestState
        /\ ~Pending(r) => request'[r] = request[r]
        /\ Pending(r) => request'[r] = [request[r] EXCEPT !.due = FALSE]
  BY DEF Rotation, Excuse, JwtInv, TypeOK, RequestState
<1>3. request' \in [Request -> RequestState]
  BY <1>2 DEF Rotation, Excuse
<1>4. TypeOK'
  BY <1>1, <1>3 DEF JwtInv, TypeOK
<1>5. \A r \in Request : request'[r].pc = request[r].pc
  BY <1>2 DEF JwtInv, TypeOK, RequestState
<1>6. ClientTrue'
  BY <1>1, <1>5 DEF JwtInv, ClientTrue, Pending, jwksClient, proxyAddr, isInsecure, Configured
<1>7. RequestsTrue'
  <2> SUFFICES ASSUME NEW r \in Request
               PROVE  RequestTrue(r)'
    BY DEF RequestsTrue
  <2>1. RequestTrue(r) /\ request[r] \in RequestState
    BY DEF JwtInv, RequestsTrue, TypeOK
  <2>2. CASE Pending(r)
    BY <1>2, <2>1, <2>2 DEF RequestTrue, Pending, RequestState
  <2>3. CASE ~Pending(r)
    BY <1>1, <1>2, <2>1, <2>3 DEF RequestTrue, Pending, Configured
  <2> QED BY <2>2, <2>3
<1>8. NoLostWaiter' /\ CertificateChecked'
  BY <1>1, <1>5 DEF JwtInv, NoLostWaiter, CertificateChecked, Waiting, Configured
<1> QED BY <1>4, <1>6, <1>7, <1>8 DEF JwtInv, SignerPublished

(***************************************************************************)
(* Every kind of rotation is one.                                          *)
(***************************************************************************)
LEMMA TeleportInv ==
  ASSUME JwtInv, Teleport
  PROVE  JwtInv'
<1>1. signer \in Key /\ published \in SUBSET Key /\ former \in SUBSET Key /\ signer \in published
  BY DEF JwtInv, TypeOK, SignerPublished
<1>2. CASE Retire
  BY <1>1, <1>2, RotationInv DEF Retire
<1>3. ASSUME NEW k \in Key, Publish(k) PROVE JwtInv'
  BY <1>1, <1>3, RotationInv DEF Publish
<1>4. ASSUME NEW k \in Key, Switch(k) PROVE JwtInv'
  BY <1>1, <1>4, RotationInv DEF Switch
<1>5. ASSUME NEW k \in Key, Replace(k) PROVE JwtInv'
  BY <1>1, <1>5, RotationInv DEF Replace
<1> QED BY <1>2, <1>3, <1>4, <1>5 DEF Teleport

-----------------------------------------------------------------------------
(***************************************************************************)
(* Starting the program.                                                   *)
(***************************************************************************)
LEMMA StartInv ==
  ASSUME JwtInv, Load \/ listen
  PROVE  JwtInv'
<1>1. UNCHANGED <<env, published, signer, former, memo, fetch, request>>
  BY DEF Load, listen, teleportVars
<1>2. env \in EnvState
  BY EnvAssumption DEF JwtInv, TypeOK
<1>3. jwksClient \in ClientState /\ jwksClient' = jwksClient
  BY <1>1, <1>2 DEF jwksClient, ClientState, proxyAddr, isInsecure, EnvState
<1>4. TypeOK'
  BY <1>1, <1>3 DEF Load, listen, JwtInv, TypeOK
<1>5. ClientTrue'
  BY <1>1, <1>3 DEF Load, listen, JwtInv, ClientTrue, Configured, Pending
<1>6. RequestsTrue' /\ SignerPublished' /\ NoLostWaiter' /\ CertificateChecked'
  BY <1>1 DEF JwtInv, RequestsTrue, RequestTrue, SignerPublished, NoLostWaiter, CertificateChecked,
              Waiting, Configured, Pending, Good, Settled
<1> QED BY <1>4, <1>5, <1>6 DEF JwtInv

(***************************************************************************)
(* What the end of a fetch does to the requests: those that wait get the   *)
(* answer or the error, and if they are still due a page, the client could *)
(* never reach Teleport or they have its answer.                           *)
(***************************************************************************)
LEMMA FetchEndRequests ==
  ASSUME TypeOK, getSigningKey \/ FetchFails
  PROVE  \A r \in Request :
           /\ request'[r] \in RequestState
           /\ request'[r].pc # "waiting"
           /\ r \notin Waiting => request'[r] = request[r]
           /\ r \in Waiting =>
                /\ request'[r].pc = "verifying"
                /\ request'[r].key \in {NoKey, fetch.reply}
                /\ request'[r].token = request[r].token
                /\ request'[r].answer = request[r].answer
                /\ request'[r].due => request[r].due
                /\ request'[r].due /\ Reaches =>
                     fetch.pc = "answered" /\ request'[r].key = fetch.reply
<1>1. fetch.reply \in MaybeKey /\ NoKey \in MaybeKey
  BY DEF TypeOK, MaybeKey
<1>2. CASE getSigningKey
  BY <1>1, <1>2, CallbackRequests DEF getSigningKey
<1>3. CASE FetchFails
  <2>1. ASSUME NEW r \in Request
        PROVE  /\ callback(NoKey)[r] \in RequestState
               /\ request'[r] = [callback(NoKey)[r] EXCEPT !.due = @ /\ ~(Reaches /\ r \in Waiting)]
    BY <1>1, <1>3, CallbackRequests DEF FetchFails
  <2>2. ASSUME NEW r \in Request, r \notin Waiting
        PROVE  request'[r] = request[r] /\ request[r] \in RequestState /\ request[r].pc # "waiting"
    BY <1>1, <2>1, <2>2, CallbackRequests DEF TypeOK, RequestState, Waiting
  <2>3. ASSUME NEW r \in Request, r \in Waiting
        PROVE  /\ request'[r] \in RequestState
               /\ request'[r].pc = "verifying"
               /\ request'[r].key = NoKey
               /\ request'[r].token = request[r].token
               /\ request'[r].answer = request[r].answer
               /\ request'[r].due => request[r].due /\ ~Reaches
    <3> DEFINE c == callback(NoKey)[r]
    <3>1. request'[r] = [c EXCEPT !.due = @ /\ ~Reaches]
      BY <2>1, <2>3
    <3>2. /\ c \in RequestState
          /\ c.pc = "verifying" /\ c.key = NoKey
          /\ c.token = request[r].token
          /\ c.answer = request[r].answer
          /\ c.due = request[r].due
      BY <1>1, <2>3, CallbackRequests
    <3>3. Reaches \in BOOLEAN
      BY DEF Reaches
    <3> HIDE DEF c
    <3> QED BY <3>1, <3>2, <3>3 DEF RequestState
  <2> QED BY <2>2, <2>3
<1> QED BY <1>2, <1>3

(***************************************************************************)
(* The end of a fetch, by the answer or by a failure: with a key the       *)
(* requests for which a page is due get the one of Teleport.               *)
(***************************************************************************)
LEMMA FetchEndInv ==
  ASSUME JwtInv, getSigningKey \/ FetchFails
  PROVE  JwtInv'
<1>1. UNCHANGED <<env, server, client, published, signer, former>> /\ fetch' = NoFetch
  BY DEF getSigningKey, FetchFails, appVars, teleportVars
<1>2. fetch.reply \in MaybeKey /\ NoKey \in MaybeKey /\ memo \in MaybeKey
  BY DEF JwtInv, TypeOK, MaybeKey
<1>3. server = "listening"
  BY DEF getSigningKey, FetchFails, JwtInv, ClientTrue, NoFetch
<1>4. Reaches <=> Configured
  BY <1>3, ReachesAsConfigured, EnvAssumption DEF JwtInv, ClientTrue, TypeOK
<1>5. memo' \in {memo, fetch.reply}
  BY DEF getSigningKey, FetchFails
<1>6. \A r \in Request :
        /\ request'[r] \in RequestState
        /\ request'[r].pc # "waiting"
        /\ r \notin Waiting => request'[r] = request[r]
        /\ r \in Waiting =>
             /\ request'[r].pc = "verifying"
             /\ request'[r].token = request[r].token
             /\ request'[r].answer = request[r].answer
             /\ request'[r].due => request[r].due
             /\ request'[r].due /\ Configured =>
                  fetch.pc = "answered" /\ request'[r].key = fetch.reply
  BY <1>4, FetchEndRequests DEF JwtInv
<1>7. request' \in [Request -> RequestState]
  BY <1>6 DEF getSigningKey, FetchFails, callback
<1>8. TypeOK'
  BY <1>1, <1>2, <1>5, <1>7, JwtRecords DEF JwtInv, TypeOK
<1>9. ClientTrue'
  BY <1>1, <1>3 DEF JwtInv, ClientTrue, jwksClient, proxyAddr, isInsecure, Configured, NoFetch
<1>10. RequestsTrue'
  <2> SUFFICES ASSUME NEW r \in Request
               PROVE  RequestTrue(r)'
    BY DEF RequestsTrue
  <2>1. RequestTrue(r)
    BY DEF JwtInv, RequestsTrue
  <2>2. Settled => Settled'
    <3>1. CASE getSigningKey
      BY <1>1, <3>1 DEF getSigningKey, Settled, NoFetch
    <3>2. CASE FetchFails
      BY <1>1, <3>2 DEF FetchFails, Settled, NoFetch
    <3> QED BY <3>1, <3>2
  <2>3. CASE r \in Waiting
    <3>1. request[r].pc = "waiting" /\ Pending(r)
      BY <2>3 DEF Waiting, Pending
    <3>2. /\ request'[r].pc = "verifying"
          /\ request'[r].token = request[r].token
          /\ request'[r].answer = request[r].answer
          /\ request'[r].due => request[r].due
          /\ request'[r].due /\ Configured =>
               fetch.pc = "answered" /\ request'[r].key = fetch.reply
      BY <1>6, <2>3
    <3>3. request[r].due => Good(request[r].token) /\ Settled
      BY <2>1, <3>1 DEF RequestTrue
    <3>4. request'[r].due /\ Configured => request'[r].key = signer
      BY <3>2, <3>3 DEF Settled
    <3>5. \A t \in Token : Good(t) => Good(t)'
      BY <1>1 DEF Good
    <3>6. request[r].token \in Token
      BY DEF JwtInv, TypeOK, RequestState
    <3> QED
      BY <1>1, <2>1, <2>2, <3>1, <3>2, <3>3, <3>4, <3>5, <3>6 DEF RequestTrue, Pending, Configured
  <2>4. CASE r \notin Waiting
    BY <1>1, <1>6, <2>1, <2>2, <2>4 DEF RequestTrue, Pending, Configured, Good
  <2> QED BY <2>3, <2>4
<1>11. NoLostWaiter'
  BY <1>6 DEF NoLostWaiter, Waiting
<1>12. CertificateChecked'
  BY <1>1, <1>5 DEF JwtInv, ClientTrue, CertificateChecked, Configured
<1> QED BY <1>1, <1>8, <1>9, <1>10, <1>11, <1>12 DEF JwtInv, SignerPublished

(***************************************************************************)
(* The endpoint answers, and the memo ages: no request changes.            *)
(***************************************************************************)
LEMMA KeyInv ==
  ASSUME JwtInv, JwksReply \/ MemoExpires
  PROVE  JwtInv'
<1>1. UNCHANGED <<env, server, client, published, signer, former, request>>
  BY DEF JwksReply, MemoExpires, appVars, teleportVars
<1>2. CASE JwksReply
  <2>1. /\ fetch' = [pc |-> "answered",
                     reply |-> IF published = {signer} THEN signer ELSE NoKey]
        /\ memo' = memo /\ Reaches /\ fetch.pc = "asked"
    BY <1>2 DEF JwksReply
  <2>2. fetch' \in [pc : {"none", "asked", "answered"}, reply : MaybeKey]
    BY <2>1 DEF JwtInv, TypeOK, MaybeKey
  <2>3. TypeOK'
    BY <1>1, <2>1, <2>2 DEF JwtInv, TypeOK
  <2>4. server = "listening"
    BY <2>1 DEF JwtInv, ClientTrue, NoFetch
  <2>5. Configured
    BY <2>1, <2>4, ReachesAsConfigured, EnvAssumption DEF JwtInv, ClientTrue, TypeOK
  <2>6. ClientTrue'
    BY <1>1, <2>4, <2>5 DEF JwtInv, ClientTrue, jwksClient, proxyAddr, isInsecure, Configured
  <2>7. Settled => Settled'
    BY <1>1, <2>1 DEF Settled
  <2>8. RequestsTrue'
    BY <1>1, <2>7 DEF JwtInv, RequestsTrue, RequestTrue, Pending, Good, Configured
  <2>9. NoLostWaiter' /\ CertificateChecked'
    BY <1>1, <2>1 DEF JwtInv, NoLostWaiter, CertificateChecked, Configured
  <2> QED BY <1>1, <2>3, <2>6, <2>8, <2>9 DEF JwtInv, SignerPublished
<1>3. CASE MemoExpires
  <2>1. memo' = NoKey /\ fetch' = fetch
    BY <1>3 DEF MemoExpires
  <2>2. TypeOK'
    BY <1>1, <2>1 DEF JwtInv, TypeOK, MaybeKey
  <2>3. ClientTrue'
    BY <1>1, <2>1 DEF JwtInv, ClientTrue, jwksClient, proxyAddr, isInsecure, Configured, Pending
  <2>4. Settled => Settled'
    BY <1>1, <2>1 DEF Settled
  <2>5. RequestsTrue'
    BY <1>1, <2>4 DEF JwtInv, RequestsTrue, RequestTrue, Pending, Good, Configured
  <2>6. NoLostWaiter' /\ CertificateChecked'
    BY <1>1, <2>1 DEF JwtInv, NoLostWaiter, CertificateChecked, Waiting
  <2> QED BY <1>1, <2>2, <2>3, <2>5, <2>6 DEF JwtInv, SignerPublished
<1> QED BY <1>2, <1>3

-----------------------------------------------------------------------------
(***************************************************************************)
(* A step of one request that leaves the key and the fetch consistent.     *)
(***************************************************************************)
LEMMA OneRequestInv ==
  ASSUME JwtInv, server = "listening",
         UNCHANGED <<appVars, teleportVars, memo>>,
         NEW r \in Request, NEW new \in RequestState,
         request' = [request EXCEPT ![r] = new],
         fetch' \in [pc : {"none", "asked", "answered"}, reply : MaybeKey],
         fetch' = fetch \/ (fetch'.reply = NoKey /\ fetch'.pc = "asked"),
         new.pc = "waiting" => fetch'.pc # "none",
         RequestTrue(r)'
  PROVE  JwtInv'
<1>1. UNCHANGED <<env, server, client, published, signer, former, memo>>
  BY DEF appVars, teleportVars
<1>2. /\ request' \in [Request -> RequestState]
      /\ request'[r] = new
      /\ \A q \in Request \ {r} : request'[q] = request[q]
  BY DEF JwtInv, TypeOK
<1>3. TypeOK'
  BY <1>1, <1>2 DEF JwtInv, TypeOK
<1>4. ClientTrue'
  BY <1>1 DEF JwtInv, ClientTrue, jwksClient, proxyAddr, isInsecure, Configured
<1>5. Settled => Settled'
  BY <1>1 DEF Settled
<1>6. \A q \in Request \ {r} : RequestTrue(q)'
  BY <1>1, <1>2, <1>5 DEF JwtInv, RequestsTrue, RequestTrue, Pending, Good, Configured
<1>7. RequestsTrue'
  BY <1>6 DEF RequestsTrue
<1>8. NoLostWaiter' /\ CertificateChecked'
  BY <1>1, <1>2 DEF JwtInv, NoLostWaiter, CertificateChecked, Waiting, Configured
<1> QED BY <1>1, <1>3, <1>4, <1>7, <1>8 DEF JwtInv, SignerPublished

(***************************************************************************)
(* The middleware: a page is due only for a good token when all is         *)
(* settled, and then the memoized key is the one of Teleport.              *)
(***************************************************************************)
LEMMA MiddlewareInv ==
  ASSUME JwtInv, NEW r \in Request, NEW token \in Token, middleware(r, token)
  PROVE  JwtInv'
<1>1. server = "listening" /\ UNCHANGED <<appVars, teleportVars, memo>>
  BY DEF middleware
<1>2. /\ memo \in MaybeKey
      /\ fetch \in [pc : {"none", "asked", "answered"}, reply : MaybeKey]
      /\ request \in [Request -> RequestState]
  BY DEF JwtInv, TypeOK
<1>3. CASE token.form \in {"none", "malformed"}
  <2>1. request' = [request EXCEPT ![r] = Answered("403", FALSE)] /\ fetch' = fetch
    BY <1>3 DEF middleware
  <2>2. Answered("403", FALSE) \in RequestState /\ Answered("403", FALSE).pc = "answered"
        /\ Answered("403", FALSE).due = FALSE
    BY JwtRecords
  <2>3. request'[r] = Answered("403", FALSE)
    BY <1>2, <2>1
  <2>4. RequestTrue(r)'
    BY <2>2, <2>3 DEF RequestTrue, Pending
  <2> QED BY <1>1, <1>2, <2>1, <2>2, <2>4, OneRequestInv
<1>4. CASE token.form \notin {"none", "malformed"}
  <2> DEFINE new == [pc |-> IF memo = NoKey THEN "waiting" ELSE "verifying",
                     token |-> token, key |-> memo, answer |-> "none",
                     due |-> Good(token) /\ Settled]
  <2>1. getKey(r, token)
    BY <1>4 DEF middleware
  <2>2. token \in Signed
    BY <1>4 DEF Token, NoToken, Malformed
  <2>3. new \in RequestState
    BY <1>2 DEF RequestState, Good, Settled
  <2>4. request' = [request EXCEPT ![r] = new] /\ request'[r] = new
    BY <1>2, <2>1 DEF getKey
  <2>5. /\ fetch' \in [pc : {"none", "asked", "answered"}, reply : MaybeKey]
        /\ fetch' = fetch \/ (fetch'.reply = NoKey /\ fetch'.pc = "asked")
    BY <1>2, <2>1 DEF getKey, MaybeKey
  <2>6. new.pc = "waiting" => fetch'.pc # "none"
    BY <1>2, <2>1 DEF getKey
  <2>7. Settled => Settled'
    BY <1>1, <2>5 DEF Settled, teleportVars
  <2>8. Good(token) => Good(token)'
    BY <1>1 DEF Good, teleportVars
  <2>9. RequestTrue(r)'
    <3>1. /\ new.pc \in {"waiting", "verifying"}
          /\ new.token = token /\ new.answer = "none"
          /\ new.pc = "verifying" => new.key = memo /\ memo # NoKey
          /\ new.due => Good(token) /\ Settled
      OBVIOUS
    <3> HIDE DEF new
    <3>2. new.due => Good(token)' /\ Settled'
      BY <2>7, <2>8, <3>1
    <3>3. new.pc = "verifying" /\ new.due => new.key = signer'
      BY <1>1, <3>1 DEF Settled, teleportVars
    <3> QED BY <2>2, <2>4, <3>1, <3>2, <3>3 DEF RequestTrue, Pending
  <2> QED BY <1>1, <2>3, <2>4, <2>5, <2>6, <2>9, OneRequestInv
<1> QED BY <1>3, <1>4

(***************************************************************************)
(* Verification with the key of Teleport lets a good token pass.           *)
(***************************************************************************)
LEMMA VerifyInv ==
  ASSUME JwtInv, NEW r \in Request, verify(r)
  PROVE  JwtInv'
<1> DEFINE q == request[r]
           answer == IF q.key # NoKey /\ q.key = q.token.signer /\ ~q.token.expired
                       THEN page(q.token) ELSE "403"
<1>1. /\ q.pc = "verifying" /\ UNCHANGED <<appVars, teleportVars, memo, fetch>>
      /\ request' = [request EXCEPT ![r] = Answered(answer, q.due)]
  BY DEF verify
<1>2. q \in RequestState /\ RequestTrue(r) /\ Pending(r)
  BY <1>1 DEF JwtInv, TypeOK, RequestsTrue, Pending
<1>3. answer \in {"403", "page", "500"} /\ q.due \in BOOLEAN
  BY <1>2 DEF page, RequestState
<1>4. /\ Answered(answer, q.due) \in RequestState
      /\ Answered(answer, q.due).pc = "answered"
      /\ Answered(answer, q.due).answer = answer
      /\ Answered(answer, q.due).due = q.due
  BY <1>3, JwtRecords
<1>5. request'[r] = Answered(answer, q.due)
  BY <1>1 DEF JwtInv, TypeOK
<1>6. q.due /\ Configured => answer = "page"
  <2> SUFFICES ASSUME q.due, Configured PROVE answer = "page"
    OBVIOUS
  <2>1. q.key = signer /\ Good(q.token)
    BY <1>1, <1>2 DEF RequestTrue
  <2>2. signer # NoKey
    BY JwtAssumption DEF JwtInv, TypeOK
  <2> QED BY <2>1, <2>2 DEF Good, page
<1>7. RequestTrue(r)'
  BY <1>1, <1>4, <1>5, <1>6 DEF RequestTrue, Pending, Configured, appVars
<1>8. server = "listening"
  BY <1>2 DEF JwtInv, ClientTrue
<1>9. fetch' = fetch /\ fetch \in [pc : {"none", "asked", "answered"}, reply : MaybeKey]
  BY <1>1 DEF JwtInv, TypeOK
<1> QED BY <1>1, <1>4, <1>7, <1>8, <1>9, OneRequestInv

-----------------------------------------------------------------------------
(***************************************************************************)
(* The inductive invariant of the application.                             *)
(***************************************************************************)
THEOREM JwtInvariant == Spec => []JwtInv
<1>1. Init => JwtInv
  <2> SUFFICES ASSUME Init PROVE JwtInv
    OBVIOUS
  <2>1. TypeOK
    BY JwtRecords, JwtAssumption DEF Init, TypeOK, MaybeKey, ClientState
  <2>2. \A r \in Request : request[r] = IdleRequest
    BY DEF Init
  <2>3. \A r \in Request : ~Pending(r) /\ request[r].pc = "idle"
    BY <2>2 DEF Pending, IdleRequest
  <2>4. ClientTrue /\ SignerPublished /\ NoLostWaiter /\ CertificateChecked
    BY <2>3 DEF Init, ClientTrue, SignerPublished, NoLostWaiter, CertificateChecked, Waiting, NoFetch
  <2>5. RequestsTrue
    BY <2>3 DEF RequestsTrue, RequestTrue
  <2> QED BY <2>1, <2>4, <2>5 DEF JwtInv
<1>2. JwtInv /\ [Next]_vars => JwtInv'
  <2> SUFFICES ASSUME JwtInv, [Next]_vars PROVE JwtInv'
    OBVIOUS
  <2>1. CASE Load \/ listen
    BY <2>1, StartInv
  <2>2. CASE Teleport
    BY <2>2, TeleportInv
  <2>3. CASE JwksReply \/ MemoExpires
    BY <2>3, KeyInv
  <2>4. CASE getSigningKey \/ FetchFails
    BY <2>4, FetchEndInv
  <2>5. ASSUME NEW r \in Request, verify(r) PROVE JwtInv'
    BY <2>5, VerifyInv
  <2>6. ASSUME NEW r \in Request, NEW token \in Token, middleware(r, token) PROVE JwtInv'
    BY <2>6, MiddlewareInv
  <2>7. CASE UNCHANGED vars
    BY <2>7 DEF vars, JwtInv, TypeOK, ClientTrue, SignerPublished, RequestsTrue, RequestTrue,
                NoLostWaiter, CertificateChecked, Waiting, Configured, Pending, Good, Settled,
                jwksClient, proxyAddr, isInsecure
  <2> QED BY <2>1, <2>2, <2>3, <2>4, <2>5, <2>6, <2>7 DEF Next
<1> QED BY <1>1, <1>2, PTL DEF Spec

(***************************************************************************)
(* The variables of the application keep their types.                      *)
(***************************************************************************)
THEOREM JwtTypeCorrect == Spec => []TypeOK
BY JwtInvariant, PTL DEF JwtInv

(***************************************************************************)
(* Nobody waits for a fetch that is not on its way.                        *)
(***************************************************************************)
THEOREM WaitersCorrect == Spec => []NoLostWaiter
BY JwtInvariant, PTL DEF JwtInv

(***************************************************************************)
(* A good token gets its page, for any environment the program starts in.  *)
(***************************************************************************)
THEOREM GoodTokensCorrect == Spec => []GoodTokensPass
<1>1. JwtInv => GoodTokensPass
  BY DEF JwtInv, RequestsTrue, RequestTrue, GoodTokensPass
<1> QED BY <1>1, JwtInvariant, PTL

(***************************************************************************)
(* Keys come only over connections the program was told to accept.         *)
(***************************************************************************)
THEOREM CertificateCorrect == Spec => []CertificateChecked
BY JwtInvariant, PTL DEF JwtInv

-----------------------------------------------------------------------------
\* Keys nobody has to drop: those somebody trusts, and no key.
Held == Trusted \union {NoKey}

(***************************************************************************)
(* What the program holds is trusted; and if it takes what it holds next   *)
(* from that, then trust grows by new keys only.                           *)
(***************************************************************************)
LEMMA HoldersTrust ==
  /\ published \subseteq Trusted
  /\ memo \in Held /\ fetch.reply \in Held
  /\ \A r \in Request : request[r].pc = "verifying" => request[r].key \in Held
BY DEF Held, Trusted, Verifying

LEMMA TrustGrows ==
  ASSUME published' \subseteq published \union (Key \ former),
         memo' \in Held, fetch'.reply \in Held,
         \A r \in Request : request'[r].pc = "verifying" => request'[r].key \in Held
  PROVE  Trusted' \subseteq Trusted \union (Key \ former)
BY HoldersTrust DEF Held, Trusted, Verifying

(***************************************************************************)
(* A key that is trusted no more, whatever rotations, fetches and the memo *)
(* do at the same time, stays so, and opens no page.                       *)
(***************************************************************************)
THEOREM RetiredCorrect == Spec => RetiredStaysRetired
<1> DEFINE Opens(r) == request[r].pc = "verifying" /\ request'[r].answer = "page"
           A == /\ Trusted' \subseteq Trusted \union (Key \ former)
                /\ \A r \in Request : Opens(r) => request[r].token.signer \in Trusted
<1>1. ASSUME JwtInv, Next PROVE A
  <2>1. \A r \in Request : Pending(r) => request[r].answer = "none"
    BY <1>1 DEF JwtInv, RequestsTrue, RequestTrue
  <2>2. NoKey \in Held /\ signer \in Held
    BY <1>1, HoldersTrust DEF Held, JwtInv, SignerPublished
  <2>3. \A r \in Request : request'[r] = request[r] => ~Opens(r)
    BY <2>1 DEF Pending
  <2>4. CASE Load \/ listen \/ JwksReply \/ MemoExpires
    <3>1. UNCHANGED <<published, request>>
      BY <2>4 DEF Load, listen, JwksReply, MemoExpires, teleportVars
    <3>2. memo' \in Held /\ fetch'.reply \in Held
      BY <2>2, <2>4, HoldersTrust DEF Load, listen, JwksReply, MemoExpires
    <3> QED BY <2>3, <3>1, <3>2, HoldersTrust, TrustGrows
  <2>5. CASE Teleport
    <3>1. published' \subseteq published \union (Key \ former)
      BY <1>1, <2>5 DEF Teleport, Publish, Switch, Replace, Retire, New, JwtInv, TypeOK, SignerPublished
    <3>2. memo' = memo /\ fetch' = fetch /\ Excuse(Request)
      BY <2>5 DEF Teleport, Publish, Switch, Replace, Retire, Rotation
    <3>3. \A r \in Request :
            /\ request'[r].pc = request[r].pc
            /\ request'[r].key = request[r].key
            /\ request'[r].answer = request[r].answer
      BY <1>1, <3>2 DEF Excuse, JwtInv, TypeOK, RequestState
    <3> QED BY <2>1, <3>1, <3>2, <3>3, HoldersTrust, TrustGrows DEF Pending
  <2>6. CASE getSigningKey \/ FetchFails
    <3>1. /\ published' = published /\ memo' \in {memo, fetch.reply} /\ fetch'.reply = NoKey
          /\ fetch.reply \in MaybeKey /\ NoKey \in MaybeKey
      BY <1>1, <2>6 DEF getSigningKey, FetchFails, teleportVars, NoFetch, JwtInv, TypeOK, MaybeKey
    <3>2. ASSUME NEW r \in Request
          PROVE  /\ request'[r].answer = request[r].answer
                 /\ \/ request'[r].key = request[r].key /\ request'[r].pc = request[r].pc
                    \/ request'[r].key \in {NoKey, fetch.reply}
      BY <1>1, <2>6, FetchEndRequests DEF JwtInv
    <3>3. \A r \in Request : request'[r].pc = "verifying" => request'[r].key \in Held
      BY <2>2, <3>2, HoldersTrust
    <3>4. Trusted' \subseteq Trusted \union (Key \ former)
      BY <2>2, <3>1, <3>3, HoldersTrust, TrustGrows
    <3>5. \A r \in Request : ~Opens(r)
      BY <2>1, <3>2 DEF Pending
    <3> QED BY <3>4, <3>5
  <2>7. ASSUME NEW r \in Request, verify(r) PROVE A
    <3> DEFINE q == request[r]
               answer == IF q.key # NoKey /\ q.key = q.token.signer /\ ~q.token.expired
                           THEN page(q.token) ELSE "403"
    <3>1. /\ q.pc = "verifying" /\ published' = published /\ memo' = memo /\ fetch' = fetch
          /\ request' = [request EXCEPT ![r] = Answered(answer, q.due)]
      BY <2>7 DEF verify, teleportVars
    <3>2. q \in RequestState /\ answer \in {"403", "page", "500"} /\ q.due \in BOOLEAN
      BY <1>1 DEF JwtInv, TypeOK, RequestState, page
    <3>3. Answered(answer, q.due).pc = "answered" /\ Answered(answer, q.due).answer = answer
      BY <3>2, JwtRecords
    <3>4. request'[r].pc = "answered" /\ request'[r].answer = answer
          /\ \A o \in Request \ {r} : request'[o] = request[o]
      BY <1>1, <3>1, <3>3 DEF JwtInv, TypeOK
    <3>5. answer = "page" => q.token.signer \in Trusted
      <4>1. q.key \in Held
        BY <3>1, HoldersTrust
      <4> QED BY <4>1 DEF Held
    <3>6. Trusted' \subseteq Trusted \union (Key \ former)
      BY <3>1, <3>4, HoldersTrust, TrustGrows
    <3>7. \A o \in Request : Opens(o) => o = r
      BY <2>3, <3>4
    <3> QED BY <3>4, <3>5, <3>6, <3>7
  <2>8. ASSUME NEW r \in Request, NEW token \in Token, middleware(r, token) PROVE A
    <3>1. /\ published' = published /\ memo' = memo /\ ~Pending(r)
          /\ fetch' = fetch \/ fetch'.reply = NoKey
      <4>1. getKey(r, token) => fetch' = fetch \/ fetch' = [pc |-> "asked", reply |-> NoKey]
        BY DEF getKey
      <4>2. published' = published /\ memo' = memo /\ ~Pending(r)
        BY <2>8 DEF middleware, teleportVars
      <4>3. fetch' = fetch \/ getKey(r, token)
        BY <2>8 DEF middleware
      <4> QED BY <4>1, <4>2, <4>3
    <3>2. \A o \in Request \ {r} : request'[o] = request[o]
      BY <1>1, <2>8 DEF middleware, getKey, JwtInv, TypeOK
    <3>3. request'[r].pc = "verifying" => request'[r].key = memo
      <4>1. CASE token.form \in {"none", "malformed"}
        <5>1. request'[r] = Answered("403", FALSE)
          BY <1>1, <2>8, <4>1 DEF middleware, JwtInv, TypeOK
        <5> QED BY <5>1 DEF Answered, IdleRequest
      <4>2. CASE token.form \notin {"none", "malformed"}
        BY <1>1, <2>8, <4>2 DEF middleware, getKey, JwtInv, TypeOK
      <4> QED BY <4>1, <4>2
    <3>4. Trusted' \subseteq Trusted \union (Key \ former)
      BY <2>2, <3>1, <3>2, <3>3, HoldersTrust, TrustGrows
    <3>5. \A o \in Request : ~Opens(o)
      BY <2>3, <3>1, <3>2 DEF Pending
    <3> QED BY <3>4, <3>5
  <2> HIDE DEF A
  <2> QED BY <1>1, <2>4, <2>5, <2>6, <2>7, <2>8 DEF Next
<1>2. JwtInv /\ [Next]_vars => [A]_vars
  BY <1>1
<1> QED BY <1>2, JwtInvariant, PTL DEF Spec, RetiredStaysRetired
=============================================================================
