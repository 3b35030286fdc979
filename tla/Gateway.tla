------------------------------- MODULE Gateway -------------------------------
(***************************************************************************)
(* The front door of the server: the rate limiter, POST /exchange from the *)
(* body to the engine call (api/routes/exchange.ts, its signature          *)
(* recovery, its internal-caller gate), the administrator's POST /hypaper, *)
(* POST /consent, and the agents, builder fees and referrer that           *)
(* engine/agents.ts keeps.                                                 *)
(*                                                                         *)
(* Several requests are in flight, each a connection that steps from one   *)
(* Redis command to the next.  A body is abstracted to what the route      *)
(* tells apart: who signed it and by which scheme, whether its fields have *)
(* their types, the action's kind and argument, vaultAddress, nonce and    *)
(* expiresAfter.  The nonce is the body's, any JSON number: whole          *)
(* milliseconds and a part of one.  What the engine does with the rest is  *)
(* in the modules of its parts; here a call is recorded with the account   *)
(* it acts for.                                                            *)
(***************************************************************************)
EXTENDS Integers, FiniteSets, Sequences

CONSTANTS
  Conns,       \* requests in flight
  Wallets,     \* addresses
  Masters,     \* the master of each sub-account: a function
  AgentNames,  \* names of agents
  Unnamed,     \* UNNAMED_AGENT_KEY
  MaxNamed,    \* MAX_NAMED_AGENTS
  None,        \* null or absent
  Infinite,    \* what JSON.parse makes of a number too large
  Phantom,     \* the address that a signature for the main network recovers to
  Tables,      \* bound: the agents there may be at the start
  Requests,    \* the requests clients send
  Behind, Ahead, \* the window of a nonce around the clock
  Window,      \* RATE_LIMIT_WINDOW_MS
  Limit,       \* RATE_LIMIT_MAX
  Skew,        \* how far a consent's time may be from the server's
  MaxRequests, \* bound: requests in a behaviour
  MaxTime      \* bound: the clock

\* A number: whole milliseconds and a part of one, the part counted in the
\* smallest that a double of this size holds.
Number == [ms : Nat, part : Nat]

Kinds == {r.kind : r \in Requests} \cup {"noop"}

\* What the route reads of a request, and the agents of a wallet by name.
Request == [route : {"none", "exchange", "admin"}, signed : Wallets \cup {None}, paper : BOOLEAN,
            wallet : Wallets \cup {None}, secret : BOOLEAN, kind : Kinds, shape : BOOLEAN,
            vault : Wallets \cup {None}, expires : Nat \cup {None},
            nonce : Number \cup {None, Infinite},
            name : AgentNames \cup {None}, agent : Wallets \cup {None}]
AgentTables == UNION {[N -> Wallets] : N \in SUBSET (AgentNames \cup {Unnamed})}

ASSUME GatewayAssumption ==
  /\ None \notin Wallets /\ None \notin Int /\ None \notin AgentNames
  /\ None \notin Number /\ Infinite \notin Number \cup {None}
  /\ DOMAIN Masters \subseteq Wallets /\ Masters \in [DOMAIN Masters -> Wallets]
  /\ Unnamed \notin AgentNames
  /\ MaxNamed \in Nat /\ Phantom \in Wallets
  /\ Behind \in Nat /\ Ahead \in Nat \ {0} /\ Window \in Nat \ {0} /\ Limit \in Nat \ {0}
  /\ Skew \in Nat /\ MaxRequests \in Nat /\ MaxTime \in Nat
  /\ Requests \subseteq Request /\ Tables \subseteq [Wallets -> AgentTables]

VARIABLES
  now,
  bucket,    \* the shared bucket of the one client address
  conn,      \* the requests in flight
  known,     \* wallets with accounts (ensureAccount)
  highest,   \* USER_NONCE_MAX of each wallet
  agents,    \* USER_AGENTS of each wallet
  referrer,  \* USER_REFERRER
  builderFee,\* USER_BUILDER_FEES, for the one builder
  served,    \* the calls that reached the engine
  taken,     \* the nonces accepted
  collided,  \* wallets whose mark was written over a mark that was not read
  consents,  \* the consent rows
  count      \* requests so far

accountVars == <<known, referrer, builderFee>>
nonceVars == <<highest, taken, collided>>
vars == <<now, bucket, conn, accountVars, nonceVars, agents, served, consents, count>>

-----------------------------------------------------------------------------
(* The switch: which engine call serves a kind of action, on whose behalf. *)

Case(who, call) == [who |-> who, call |-> call]

OrderCases ==
  [order |-> Case("effective", "placeOrders"), trailingStop |-> Case("effective", "placeTrailingStop"),
   cancel |-> Case("effective", "cancelOrders"), cancelByCloid |-> Case("effective", "cancelByCloid")]
ModifyCases ==
  [modify |-> Case("effective", "modifyOrder"), batchModify |-> Case("effective", "batchModifyOrders")]
TwapCases ==
  [twapOrder |-> Case("effective", "createTwapOrder"), twapCancel |-> Case("effective", "cancelTwapOrder")]
MarginCases ==
  [updateLeverage |-> Case("effective", "updateLeverage"),
   updateIsolatedMargin |-> Case("effective", "updateIsolatedMargin"),
   scheduleCancel |-> Case("effective", "scheduleCancel")]
TopUpCase == [topUpIsolatedOnlyMargin |-> Case("effective", "updateIsolatedMargin")]
TransferCases ==
  [usdClassTransfer |-> Case("effective", "usdClassTransfer"), usdSend |-> Case("effective", "usdSend"),
   spotSend |-> Case("effective", "spotSend"), sendAsset |-> Case("effective", "sendAsset"),
   agentSendAsset |-> Case("effective", "agentSendAsset"),
   sendToEvmWithData |-> Case("effective", "sendToEvmWithData")]
SubAccountCases ==
  [createSubAccount |-> Case("wallet", "createSubAccount"),
   subAccountTransfer |-> Case("wallet", "subAccountTransfer"),
   subAccountSpotTransfer |-> Case("wallet", "subAccountSpotTransfer"),
   subAccountModify |-> Case("wallet", "subAccountModify"),
   vaultTransfer |-> Case("effective", "vaultTransfer")]
ApprovalCases ==
  [approveAgent |-> Case("wallet", "approveAgent"), approveBuilderFee |-> Case("wallet", "approveBuilderFee"),
   setReferrer |-> Case("wallet", "setReferrer")]
StakingCases ==
  [cDeposit |-> Case("wallet", "cDeposit"), cWithdraw |-> Case("wallet", "cWithdraw"),
   tokenDelegate |-> Case("wallet", "tokenDelegate")]
\* Acknowledged without a call.
AckCases == [reserveRequestWeight |-> Case("wallet", None), noop |-> Case("wallet", None)]

Families == <<OrderCases, ModifyCases, TwapCases, MarginCases, TopUpCase, TransferCases,
              SubAccountCases, ApprovalCases, StakingCases, AckCases>>

Supported == UNION {DOMAIN Families[i] : i \in DOMAIN Families}
CaseOf(kind) == Families[CHOOSE i \in DOMAIN Families : kind \in DOMAIN Families[i]][kind]

\* USER_SIGNED_SPECS; two of them no case serves.
UserSigned == {"usdSend", "spotSend", "withdraw3", "usdClassTransfer", "sendAsset",
               "convertToMultiSigUser", "approveAgent", "approveBuilderFee", "tokenDelegate"}
isUserSignedActionType(kind) == kind \in UserSigned

\* The kinds the administrator's route serves.
AdminKinds == {"setBalance", "resetAccount"}

-----------------------------------------------------------------------------
(* A request: route, signed (by whom, None if the body has no signature),  *)
(* paper (signed for the test network), wallet (the unsigned form), secret *)
(* (the internal header), kind, shape (its fields have their types),       *)
(* vault, expires, nonce, and the agent of approveAgent with its name.     *)

NoRequest == [route |-> "none", signed |-> None, paper |-> TRUE, wallet |-> None, secret |-> FALSE,
              kind |-> "noop", shape |-> TRUE, vault |-> None, expires |-> None, nonce |-> None,
              name |-> None, agent |-> None]

Free == [stage |-> "free", req |-> NoRequest, wallet |-> None, acting |-> None,
         prev |-> [ms |-> 0, part |-> 0], stood |-> FALSE]

Init ==
  /\ now \in {Behind} /\ bucket = [count |-> 0, reset |-> 0]
  /\ conn = [c \in Conns |-> Free]
  /\ known = {} /\ highest = [w \in Wallets |-> [ms |-> 0, part |-> 0]]
  /\ agents \in Tables
  /\ referrer = {} /\ builderFee = {}
  /\ served = {} /\ taken = {} /\ collided = {} /\ consents = {} /\ count = 0

Tick ==
  /\ now < MaxTime /\ now' = now + 1
  /\ UNCHANGED <<bucket, conn, accountVars, nonceVars, agents, served, consents, count>>

-----------------------------------------------------------------------------
\* isAgentOf: any entry of the hash with that address.
isAgentOf(master, signer) == \E n \in DOMAIN agents[master] : agents[master][n] = signer

isSubAccountOf(master, sub) == sub \in DOMAIN Masters /\ Masters[sub] = master

\* The signer may act for the target.
Standing(signer, target) ==
  signer = target \/ isSubAccountOf(signer, target) \/ isAgentOf(target, signer)

Goto(c, r) == conn' = [conn EXCEPT ![c] = r]
Answer(c) == conn' = [conn EXCEPT ![c] = Free]

\* rateLimitMiddleware: a new bucket when there is none or its time is up;
\* over the limit the request is answered 429.
Allowed(b) == b.count <= Limit
makeRateLimit ==
  bucket' = IF bucket.reset <= now THEN [count |-> 1, reset |-> now + Window]
            ELSE [bucket EXCEPT !.count = @ + 1]

Arrive(c, r) ==
  /\ conn[c] = Free /\ count < MaxRequests /\ count' = count + 1
  /\ makeRateLimit
  /\ IF Allowed(bucket')
     THEN Goto(c, [Free EXCEPT !.stage = "recover", !.req = r])
     ELSE UNCHANGED conn
  /\ UNCHANGED <<now, accountVars, nonceVars, agents, served, consents>>

\* A consent is not limited; its time is the client's when near the server's.
Consent(t) ==
  /\ count < MaxRequests /\ count' = count + 1
  /\ consents' = consents \cup {IF t < now + Skew /\ now < t + Skew THEN t ELSE now}
  /\ UNCHANGED <<now, bucket, conn, accountVars, nonceVars, agents, served>>

\* recoverHlSigner, recoverUserSignedAction: the signer of what was signed.
\* The first hashes the nonce with the action, as the 64-bit integer it must
\* be; of the second the body's nonce is no part, the action has its own.  A
\* signature for the main network recovers, by the first, an address that
\* nobody holds; by the second it is refused.
Whole(n) == n \in Number /\ n.part = 0

Recovered(r) ==
  IF isUserSignedActionType(r.kind) THEN IF r.paper THEN r.signed ELSE None
  ELSE IF ~Whole(r.nonce) THEN None
  ELSE IF r.paper THEN r.signed ELSE Phantom

\* Who sends it: the signer, or the wallet an internal caller names.
Sender(r) ==
  IF r.route = "exchange"
  THEN IF r.signed # None /\ r.nonce # None THEN Recovered(r)
       ELSE IF r.wallet # None /\ r.secret THEN r.wallet ELSE None
  ELSE IF r.kind \in AdminKinds /\ ~r.secret THEN None ELSE r.wallet

Recover(c) ==
  LET k == conn[c] IN
  /\ k.stage = "recover"
  /\ IF Sender(k.req) = None \/ (k.req.kind = "trailingStop" /\ ~k.req.shape) THEN Answer(c)
     ELSE Goto(c, [k EXCEPT !.stage = "ensure", !.wallet = Sender(k.req),
                            !.acting = Sender(k.req)])
  /\ UNCHANGED <<now, bucket, accountVars, nonceVars, agents, served, consents, count>>

\* ensureAccount of the sender; then vaultAddress is looked at.
Ensure(c) ==
  LET k == conn[c] IN
  /\ k.stage = "ensure" /\ known' = known \cup {k.wallet}
  /\ IF k.req.route = "admin" THEN Goto(c, [k EXCEPT !.stage = "dispatch"])
     ELSE IF k.req.vault = None THEN Goto(c, [k EXCEPT !.stage = "nonce"])
     ELSE IF isUserSignedActionType(k.req.kind) THEN Answer(c)
     ELSE Goto(c, [k EXCEPT !.stage = "vault", !.stood = Standing(k.wallet, k.req.vault)])
  /\ UNCHANGED <<now, bucket, referrer, builderFee, nonceVars, agents, served, consents, count>>

\* The pointer to the master, then the agents.
CheckVault(c) ==
  LET k == conn[c] IN
  /\ k.stage = "vault"
  /\ IF k.req.vault = k.wallet \/ isSubAccountOf(k.wallet, k.req.vault)
     THEN Goto(c, [k EXCEPT !.stage = "ensureVault"]) ELSE Goto(c, [k EXCEPT !.stage = "agent"])
  /\ UNCHANGED <<now, bucket, accountVars, nonceVars, agents, served, consents, count>>

CheckAgentNone(c) ==
  /\ conn[c].stage = "agent"
  /\ Goto(c, [conn[c] EXCEPT !.stage = "ensureVault"])
  /\ UNCHANGED <<now, bucket, accountVars, nonceVars, agents, served, consents, count>>

CheckAgent(c) ==
  LET k == conn[c] IN
  /\ k.stage = "agent"
  /\ IF isAgentOf(k.req.vault, k.wallet) THEN Goto(c, [k EXCEPT !.stage = "ensureVault"]) ELSE Answer(c)
  /\ UNCHANGED <<now, bucket, accountVars, nonceVars, agents, served, consents, count>>

EnsureVault(c) ==
  LET k == conn[c] IN
  /\ k.stage = "ensureVault" /\ known' = known \cup {k.req.vault}
  /\ Goto(c, [k EXCEPT !.stage = "nonce", !.acting = k.req.vault])
  /\ UNCHANGED <<now, bucket, referrer, builderFee, nonceVars, agents, served, consents, count>>

\* The window, then the mark, of which parseInt reads the whole part; a
\* request without a finite nonce has neither.
Above(n, t) == n.ms > t \/ (n.ms = t /\ n.part > 0)
InWindow(n) == Above(n, now - Behind) /\ n.ms < now + Ahead

ReadMarkAgain(c) ==
  LET k == conn[c] IN
  /\ k.stage = "nonce"
  /\ IF k.req.nonce \notin Number THEN Goto(c, [k EXCEPT !.stage = "expiry"])
     ELSE IF ~InWindow(k.req.nonce) \/ k.req.nonce.ms < highest[k.wallet].ms THEN Answer(c)
     ELSE Goto(c, [k EXCEPT !.stage = "mark", !.prev = highest[k.wallet]])
  /\ UNCHANGED <<now, bucket, accountVars, nonceVars, agents, served, consents, count>>

ReadMark(c) ==
  LET k == conn[c] IN
  /\ k.stage = "nonce"
  /\ IF k.req.nonce \notin Number THEN Goto(c, [k EXCEPT !.stage = "expiry"])
     ELSE IF ~InWindow(k.req.nonce) \/ ~Above(k.req.nonce, highest[k.wallet].ms) THEN Answer(c)
     ELSE Goto(c, [k EXCEPT !.stage = "mark", !.prev = highest[k.wallet]])
  /\ UNCHANGED <<now, bucket, accountVars, nonceVars, agents, served, consents, count>>

\* The mark is written in a command of its own.
WriteMark(c) ==
  LET k == conn[c] IN
  /\ k.stage = "mark"
  /\ highest' = [highest EXCEPT ![k.wallet] = k.req.nonce]
  /\ taken' = taken \cup {<<k.wallet, k.req.nonce>>}
  /\ collided' = IF highest[k.wallet] = k.prev THEN collided ELSE collided \cup {k.wallet}
  /\ Goto(c, [k EXCEPT !.stage = "expiry"])
  /\ UNCHANGED <<now, bucket, accountVars, agents, served, consents, count>>

\* expiresAfter refuses the request, after its nonce was taken.
CheckExpiry(c) ==
  LET k == conn[c] IN
  /\ k.stage = "expiry"
  /\ IF k.req.expires # None /\ k.req.expires <= now THEN Answer(c)
     ELSE Goto(c, [k EXCEPT !.stage = "dispatch"])
  /\ UNCHANGED <<now, bucket, accountVars, nonceVars, agents, served, consents, count>>

Serve(k, who, call) == served' = served \cup {[by |-> k.wallet, for |-> who, call |-> call]}

\* The switch: unsupported kinds and wrong shapes are refused; approveAgent
\* with a new name goes on to count the others; the other calls are the
\* engine's.
Dispatch(c) ==
  LET k == conn[c]
      r == k.req
      u == IF CaseOf(r.kind).who = "wallet" THEN k.wallet ELSE k.acting
  IN /\ k.stage = "dispatch"
     /\ \/ /\ r.route = "admin" /\ Serve(k, k.wallet, r.kind)
           /\ Answer(c) /\ UNCHANGED <<referrer, builderFee, agents>>
        \/ /\ r.route = "exchange" /\ (r.kind \notin Supported \/ ~r.shape)
           /\ Answer(c) /\ UNCHANGED <<served, referrer, builderFee, agents>>
        \/ /\ r.route = "exchange" /\ r.kind \in Supported \ {"approveAgent"} /\ r.shape
           /\ IF CaseOf(r.kind).call = None THEN UNCHANGED served ELSE Serve(k, u, CaseOf(r.kind).call)
           /\ builderFee' = IF r.kind = "approveBuilderFee" THEN builderFee \cup {u} ELSE builderFee
           /\ referrer' = IF r.kind = "setReferrer" THEN referrer \cup {u} ELSE referrer
           /\ Answer(c) /\ UNCHANGED agents
        \/ /\ r.route = "exchange" /\ r.kind = "approveAgent" /\ r.shape
           /\ Goto(c, [k EXCEPT !.stage = "approve"]) /\ UNCHANGED <<served, referrer, builderFee, agents>>
     /\ UNCHANGED <<now, bucket, known, nonceVars, consents, count>>

-----------------------------------------------------------------------------
(* approveAgent.                                                           *)

Named(t) == DOMAIN t \cap AgentNames
With(t, n, a) == [m \in DOMAIN t \cup {n} |-> IF m = n THEN a ELSE t[m]]
Without(t, n) == [m \in DOMAIN t \ {n} |-> t[m]]

\* Whoever had standing since a request arrived keeps it for that request.
Stood(after) ==
  [c \in Conns |->
     LET k == after[c] IN
     [k EXCEPT !.stood = @ \/ (k.req.vault # None /\ k.stage # "free" /\
        (\E n \in DOMAIN agents'[k.req.vault] : agents'[k.req.vault][n] = k.wallet))]]

\* Revocation by name (no agent given), and the unnamed agent, at once.
ApproveNow(c) ==
  LET k == conn[c]
      n == IF k.req.name = None THEN Unnamed ELSE k.req.name
      t == agents[k.wallet]
  IN /\ k.stage = "approve" /\ (k.req.agent = None \/ k.req.name = None)
     /\ agents' = [agents EXCEPT ![k.wallet] =
                     IF k.req.agent = None THEN Without(t, n) ELSE With(t, n, k.req.agent)]
     /\ conn' = Stood([conn EXCEPT ![c] = Free])
     /\ Serve(k, k.wallet, "approveAgent")
     /\ UNCHANGED <<now, bucket, accountVars, nonceVars, consents, count>>

\* A name is looked up first;
FindAgent(c) ==
  LET k == conn[c] IN
  /\ k.stage = "approve" /\ k.req.agent # None /\ k.req.name # None
  /\ Goto(c, [k EXCEPT !.stage = IF k.req.name \in DOMAIN agents[k.wallet] THEN "add" ELSE "count"])
  /\ UNCHANGED <<now, bucket, accountVars, nonceVars, agents, served, consents, count>>

\* for a new one the table is read and its names counted.
CountAgents(c) ==
  LET k == conn[c] IN
  /\ k.stage = "count"
  /\ IF Cardinality(Named(agents[k.wallet])) >= MaxNamed THEN Answer(c)
     ELSE Goto(c, [k EXCEPT !.stage = "add"])
  /\ UNCHANGED <<now, bucket, accountVars, nonceVars, agents, served, consents, count>>

AddAgent(c) ==
  LET k == conn[c] IN
  /\ k.stage = "add"
  /\ agents' = [agents EXCEPT ![k.wallet] = With(@, k.req.name, k.req.agent)]
  /\ conn' = Stood([conn EXCEPT ![c] = Free])
  /\ Serve(k, k.wallet, "approveAgent")
  /\ UNCHANGED <<now, bucket, accountVars, nonceVars, consents, count>>

Step(c) ==
  \/ Recover(c) \/ Ensure(c) \/ CheckVault(c) \/ CheckAgent(c) \/ EnsureVault(c)
  \/ ReadMark(c) \/ WriteMark(c) \/ CheckExpiry(c) \/ Dispatch(c)
  \/ ApproveNow(c) \/ FindAgent(c) \/ CountAgents(c) \/ AddAgent(c)

Next ==
  \/ Tick
  \/ \E c \in Conns : Step(c) \/ (\E r \in Requests : Arrive(c, r))
  \/ \E t \in {0, now} : Consent(t)

Spec == Init /\ [][Next]_vars

-----------------------------------------------------------------------------
(* Properties.                                                             *)

\* The first scheme signs the body's nonce.
Covered(r) ==
  r.route = "exchange" /\ r.signed # None /\ r.nonce # None /\ ~isUserSignedActionType(r.kind)

\* A request whose signature covers its nonce passes once: the nonce is whole,
\* was not taken before by the wallet, and raises the mark.  So does any other
\* whole nonce; one with a part of a millisecond may pass again, and a
\* user-signed action may come again under another nonce, but the mark does
\* not fall below its whole part.  Unless two requests of the wallet were
\* between the read of the mark and its write at the same time.
NonceOnce ==
  [][\A c \in Conns : conn[c].stage = "mark" /\ conn'[c].stage = "expiry" =>
       LET w == conn[c].wallet
           n == conn[c].req.nonce
       IN \/ w \in collided'
          \/ /\ highest'[w].ms >= highest[w].ms
             /\ Covered(conn[c].req) \/ Whole(n) =>
                  Whole(n) /\ <<w, n>> \notin taken /\ highest'[w].ms > highest[w].ms]_vars

\* The engine acts for another account only when the sender had standing there
\* (its master, or its approved agent) at some moment of the request: an agent
\* revoked before a request arrives is refused, whatever is in flight.
ActsWithStanding ==
  [][\A c \in Conns : conn[c].stage = "dispatch" /\ conn'[c] # conn[c] /\ conn[c].acting # conn[c].wallet
       => conn[c].stood]_vars

\* exchange.ts: "Replay protection": no nonce of a wallet is taken twice.
NoReplay ==
  [][\A c \in Conns : conn[c].stage = "mark" /\ conn'[c].stage = "expiry" =>
       <<conn[c].wallet, conn[c].req.nonce>> \notin taken]_vars
=============================================================================
