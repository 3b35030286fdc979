------------------------------- MODULE ApiProofs -------------------------------
(***************************************************************************)
(* The two HTTP front doors, for any constants.                            *)
(*                                                                         *)
(* The exchange route (Gateway.tla): a nonce that its signature covers is  *)
(* taken once unless two requests of the wallet met between the read and   *)
(* the write of its mark, although any number may come as a nonce, and no  *)
(* call reaches the engine for an account the sender had no standing with. *)
(* Neither is visible at the step that could break it: the signer was      *)
(* recovered, the mark was read and the standing found several commands    *)
(* earlier.  OkConn says what each stage of a request remembers of them,   *)
(* Marks how the marks bound the nonces taken.                             *)
(*                                                                         *)
(* The chain emulator (Evm.tla): between transactions the log tells the    *)
(* storage, and what readers are served is complete.  A transaction is a   *)
(* few statements in a fixed order, so its invariant, EvmInv, says what    *)
(* the log and the row hold with n of them left (Phase), that the log has  *)
(* the events of a block of the transaction which took it, numbered in     *)
(* order (Blocks), and that a token never moves to another pair (Home):    *)
(* hence what one pair does leaves the story of every other as it was.     *)
(***************************************************************************)
EXTENDS Gateway, Evm, FiniteSetTheorems, SequenceTheorems, TLAPS

-----------------------------------------------------------------------------
(* The exchange route.                                                     *)

Stages == {"free", "recover", "ensure", "vault", "agent", "ensureVault", "nonce", "mark", "expiry",
           "dispatch", "approve", "count", "add"}
Conn == [stage : Stages, req : Request, wallet : Wallets \cup {None}, acting : Wallets \cup {None},
         prev : Number, stood : BOOLEAN]

Types ==
  /\ conn \in [Conns -> Conn] /\ agents \in [Wallets -> AgentTables]
  /\ highest \in [Wallets -> Number] /\ taken \subseteq Wallets \X Number /\ collided \subseteq Wallets

\* Whom the request has shown it may act for.
Past == {"ensure", "nonce", "mark", "expiry", "dispatch", "approve", "count", "add"}
AgentIn(tables, target, signer) == \E n \in DOMAIN tables[target] : tables[target][n] = signer

OkConn(k, tables) ==
  /\ k.stage \notin {"free", "recover"} => k.wallet \in Wallets
  /\ k.stage \in {"vault", "agent", "ensureVault"} => k.req.vault \in Wallets
  /\ k.stage \in {"vault", "agent"} =>
       (isSubAccountOf(k.wallet, k.req.vault) \/ AgentIn(tables, k.req.vault, k.wallet) => k.stood)
  /\ k.stage = "ensureVault" => k.stood \/ k.req.vault = k.wallet
  /\ k.stage \in Past => k.stood \/ k.acting = k.wallet
  /\ k.stage \notin {"free", "recover"} /\ Covered(k.req) => Whole(k.req.nonce)
  /\ k.stage = "mark" => k.req.nonce \in Number /\ Above(k.req.nonce, k.prev.ms)
  /\ k.stage \in {"count", "add"} => k.req.name \in AgentNames /\ k.req.agent \in Wallets

\* The whole part of a wallet's mark bounds its nonces.
Marks == \A t \in taken : t[1] \notin collided => t[2].ms <= highest[t[1]].ms

Inv == Types /\ Marks /\ \A c \in Conns : OkConn(conn[c], agents)

-----------------------------------------------------------------------------
LEMMA FreeOk == Free \in Conn /\ \A t : OkConn(Free, t)
<1>1. NoRequest \in Request
  BY DEF NoRequest, Request, Kinds
<1>2. Free \in Conn
  BY <1>1 DEF Free, Conn, Stages, Number
<1>3. \A t : OkConn(Free, t)
  BY DEF Free, OkConn, Past
<1> QED BY <1>2, <1>3

LEMMA InitInv == Init => Inv
<1> SUFFICES ASSUME Init PROVE Inv
  OBVIOUS
<1>1. Types
  BY FreeOk, GatewayAssumption DEF Init, Types, Number
<1>2. Marks /\ \A c \in Conns : OkConn(conn[c], agents)
  BY FreeOk DEF Init, Marks
<1> QED BY <1>1, <1>2 DEF Inv

(* A request moves on and leaves the marks and the agents alone.           *)
LEMMA MoveInv ==
  ASSUME Inv, NEW c \in Conns, NEW k \in Conn, OkConn(k, agents),
         conn' = [conn EXCEPT ![c] = k], UNCHANGED <<agents, highest, taken, collided>>
  PROVE  Inv'
<1>1. Types'
  BY DEF Inv, Types
<1>2. \A d \in Conns : conn'[d] = IF d = c THEN k ELSE conn[d]
  BY DEF Inv, Types
<1>3. \A d \in Conns : OkConn(conn'[d], agents')
  BY <1>2 DEF Inv
<1> QED BY <1>1, <1>3 DEF Inv, Marks

LEMMA AnswerInv ==
  ASSUME Inv, NEW c \in Conns, Answer(c), UNCHANGED <<agents, highest, taken, collided>>
  PROVE  Inv'
  BY FreeOk, MoveInv DEF Answer

LEMMA ConnFacts ==
  ASSUME Inv, NEW c \in Conns
  PROVE  conn[c] \in Conn /\ conn[c].req \in Request /\ OkConn(conn[c], agents)
  BY DEF Inv, Types, Conn

(* Until the engine is called: standing, the nonce, the expiry.            *)
LEMMA ArriveInv ==
  ASSUME Inv, NEW c \in Conns, NEW r \in Requests, Arrive(c, r)
  PROVE  Inv'
<1> DEFINE k == [Free EXCEPT !.stage = "recover", !.req = r]
<1>1. UNCHANGED <<agents, highest, taken, collided>>
  BY DEF Arrive, nonceVars
<1>2. CASE conn' = [conn EXCEPT ![c] = k]
  <2>1. k \in Conn
    BY FreeOk, GatewayAssumption DEF Conn, Stages
  <2>2. k.stage = "recover"
    BY FreeOk DEF Conn
  <2>3. OkConn(k, agents)
    BY <2>2 DEF OkConn, Past
  <2> QED BY <1>1, <1>2, <2>1, <2>3, MoveInv
<1>3. CASE UNCHANGED conn
  BY <1>1, <1>3 DEF Inv, Types, Marks
<1> QED BY <1>2, <1>3 DEF Arrive, Goto

LEMMA SenderWallet ==
  ASSUME NEW r \in Request PROVE Sender(r) \in Wallets \cup {None}
  BY GatewayAssumption DEF Sender, Recovered, Request

(* The first scheme hashes a 64-bit integer.                               *)
LEMMA CoveredWhole ==
  ASSUME NEW r, Covered(r), Sender(r) # None PROVE Whole(r.nonce)
  BY DEF Covered, Sender, Recovered

LEMMA RecoverInv ==
  ASSUME Inv, NEW c \in Conns, Recover(c) PROVE Inv'
<1> DEFINE k == conn[c]
           j == [k EXCEPT !.stage = "ensure", !.wallet = Sender(k.req), !.acting = Sender(k.req)]
<1>1. UNCHANGED <<agents, highest, taken, collided>>
  BY DEF Recover, nonceVars
<1>2. CASE Sender(k.req) # None /\ conn' = [conn EXCEPT ![c] = j]
  <2>1. j \in Conn
    BY <1>2, ConnFacts, SenderWallet DEF Conn, Stages
  <2>2. j.stage = "ensure" /\ j.wallet \in Wallets /\ j.acting = j.wallet /\ j.req = k.req
    BY <1>2, ConnFacts, SenderWallet DEF Conn
  <2>3. Covered(k.req) => Whole(k.req.nonce)
    BY <1>2, CoveredWhole
  <2> HIDE DEF j
  <2>4. OkConn(j, agents)
    BY <2>2, <2>3 DEF OkConn, Past
  <2> QED BY <1>1, <1>2, <2>1, <2>4, MoveInv
<1> QED BY <1>1, <1>2, AnswerInv DEF Recover, Goto

(* A request moves to stage l and remembers what it did.                   *)
LEMMA StageInv ==
  ASSUME Inv, NEW c \in Conns, NEW l \in Stages,
         conn' = [conn EXCEPT ![c] = [conn[c] EXCEPT !.stage = l]],
         l \notin {"vault", "agent", "mark", "count", "add"}, conn[c].stage \notin {"free", "recover"},
         l = "ensureVault" => conn[c].req.vault \in Wallets /\ (conn[c].stood \/ conn[c].req.vault = conn[c].wallet),
         l \in Past => conn[c].stood \/ conn[c].acting = conn[c].wallet,
         UNCHANGED <<agents, highest, taken, collided>>
  PROVE  Inv'
<1> DEFINE j == [conn[c] EXCEPT !.stage = l]
<1>1. j \in Conn /\ j.stage = l /\ j.wallet = conn[c].wallet /\ j.req = conn[c].req /\ j.acting = conn[c].acting
        /\ j.stood = conn[c].stood
  BY ConnFacts DEF Conn
<1> HIDE DEF j
<1>2. OkConn(j, agents)
  BY <1>1, ConnFacts DEF OkConn
<1>3. conn' = [conn EXCEPT ![c] = j]
  BY DEF j
<1> QED BY <1>1, <1>2, <1>3, MoveInv

LEMMA EnsureInv ==
  ASSUME Inv, NEW c \in Conns, Ensure(c) PROVE Inv'
<1> DEFINE k == conn[c]
           v == [k EXCEPT !.stage = "vault", !.stood = Standing(k.wallet, k.req.vault)]
<1>1. UNCHANGED <<agents, highest, taken, collided>> /\ k.stage = "ensure"
  BY DEF Ensure, nonceVars
<1>2. k \in Conn /\ k.wallet \in Wallets /\ k.req \in Request /\ (k.stood \/ k.acting = k.wallet)
        /\ (Covered(k.req) => Whole(k.req.nonce))
  BY <1>1, ConnFacts DEF OkConn, Past
<1>3. CASE \E l \in {"dispatch", "nonce"} : conn' = [conn EXCEPT ![c] = [k EXCEPT !.stage = l]]
  <2>1. PICK l \in {"dispatch", "nonce"} : conn' = [conn EXCEPT ![c] = [k EXCEPT !.stage = l]]
    BY <1>3
  <2> QED BY <1>1, <1>2, <2>1, StageInv DEF Stages
<1>4. CASE k.req.vault # None /\ conn' = [conn EXCEPT ![c] = v]
  <2>1. k.req.vault \in Wallets
    BY <1>2, <1>4 DEF Request
  <2>2. Standing(k.wallet, k.req.vault) \in BOOLEAN
    BY DEF Standing, isAgentOf, isSubAccountOf
  <2>3. v \in Conn /\ v.stage = "vault" /\ v.wallet = k.wallet /\ v.req = k.req
          /\ v.stood = Standing(k.wallet, k.req.vault)
    BY <1>2, <2>2 DEF Conn, Stages
  <2> HIDE DEF v
  <2>4. OkConn(v, agents)
    BY <1>2, <2>1, <2>3 DEF OkConn, Past, Standing, AgentIn, isAgentOf
  <2> QED BY <1>1, <1>4, <2>3, <2>4, MoveInv
<1>5. CASE Answer(c)
  BY <1>1, <1>5, AnswerInv
<1> QED BY <1>3, <1>4, <1>5 DEF Ensure, Goto

LEMMA CheckVaultInv ==
  ASSUME Inv, NEW c \in Conns, CheckVault(c) PROVE Inv'
<1> DEFINE k == conn[c]
           j == [k EXCEPT !.stage = "agent"]
<1>1. UNCHANGED <<agents, highest, taken, collided>> /\ k.stage = "vault"
  BY DEF CheckVault, nonceVars
<1>2. k \in Conn /\ k.wallet \in Wallets /\ k.req.vault \in Wallets /\ OkConn(k, agents)
  BY <1>1, ConnFacts DEF OkConn
<1>3. CASE k.req.vault = k.wallet \/ isSubAccountOf(k.wallet, k.req.vault)
  <2>1. conn' = [conn EXCEPT ![c] = [k EXCEPT !.stage = "ensureVault"]]
    BY <1>3 DEF CheckVault, Goto
  <2>2. k.stood \/ k.req.vault = k.wallet
    BY <1>1, <1>2, <1>3 DEF OkConn
  <2> QED BY <1>1, <1>2, <2>1, <2>2, StageInv DEF Stages, Past
<1>4. CASE ~(k.req.vault = k.wallet \/ isSubAccountOf(k.wallet, k.req.vault))
  <2>1. conn' = [conn EXCEPT ![c] = j]
    BY <1>4 DEF CheckVault, Goto
  <2>2. j \in Conn /\ j.stage = "agent" /\ j.wallet = k.wallet /\ j.req = k.req /\ j.stood = k.stood
    BY <1>2 DEF Conn, Stages
  <2> HIDE DEF j
  <2>3. OkConn(j, agents)
    BY <1>1, <1>2, <2>2 DEF OkConn, Past
  <2> QED BY <1>1, <2>1, <2>2, <2>3, MoveInv
<1> QED BY <1>3, <1>4

LEMMA CheckAgentInv ==
  ASSUME Inv, NEW c \in Conns, CheckAgent(c) PROVE Inv'
<1> DEFINE k == conn[c]
<1>1. UNCHANGED <<agents, highest, taken, collided>> /\ k.stage = "agent"
  BY DEF CheckAgent, nonceVars
<1>2. k.wallet \in Wallets /\ k.req.vault \in Wallets /\ OkConn(k, agents)
  BY <1>1, ConnFacts DEF OkConn
<1>3. CASE isAgentOf(k.req.vault, k.wallet)
  <2>1. conn' = [conn EXCEPT ![c] = [k EXCEPT !.stage = "ensureVault"]]
    BY <1>3 DEF CheckAgent, Goto
  <2>2. k.stood
    BY <1>1, <1>2, <1>3 DEF OkConn, AgentIn, isAgentOf
  <2> QED BY <1>1, <1>2, <2>1, <2>2, StageInv DEF Stages, Past
<1>4. CASE ~isAgentOf(k.req.vault, k.wallet)
  BY <1>1, <1>4, AnswerInv DEF CheckAgent
<1> QED BY <1>3, <1>4

LEMMA EnsureVaultInv ==
  ASSUME Inv, NEW c \in Conns, EnsureVault(c) PROVE Inv'
<1> DEFINE k == conn[c]
           j == [k EXCEPT !.stage = "nonce", !.acting = k.req.vault]
<1>1. UNCHANGED <<agents, highest, taken, collided>> /\ k.stage = "ensureVault" /\ conn' = [conn EXCEPT ![c] = j]
  BY DEF EnsureVault, nonceVars, Goto
<1>2. k \in Conn /\ k.wallet \in Wallets /\ k.req.vault \in Wallets /\ (k.stood \/ k.req.vault = k.wallet)
        /\ (Covered(k.req) => Whole(k.req.nonce))
  BY <1>1, ConnFacts DEF OkConn
<1>3. j \in Conn /\ j.stage = "nonce" /\ j.wallet = k.wallet /\ j.acting = k.req.vault /\ j.stood = k.stood
        /\ j.req = k.req
  BY <1>2 DEF Conn, Stages
<1> HIDE DEF j
<1>4. OkConn(j, agents)
  BY <1>2, <1>3 DEF OkConn, Past
<1> QED BY <1>1, <1>3, <1>4, MoveInv

LEMMA ReadMarkInv ==
  ASSUME Inv, NEW c \in Conns, ReadMark(c) PROVE Inv'
<1> DEFINE k == conn[c]
           j == [k EXCEPT !.stage = "mark", !.prev = highest[k.wallet]]
<1>1. UNCHANGED <<agents, highest, taken, collided>> /\ k.stage = "nonce"
  BY DEF ReadMark, nonceVars
<1>2. k \in Conn /\ k.wallet \in Wallets /\ k.req \in Request /\ (k.stood \/ k.acting = k.wallet)
        /\ (Covered(k.req) => Whole(k.req.nonce))
  BY <1>1, ConnFacts DEF OkConn, Past
<1>3. CASE conn' = [conn EXCEPT ![c] = [k EXCEPT !.stage = "expiry"]]
  BY <1>1, <1>2, <1>3, StageInv DEF Stages
<1>4. CASE Answer(c)
  BY <1>1, <1>4, AnswerInv
<1>5. CASE k.req.nonce \in Number /\ Above(k.req.nonce, highest[k.wallet].ms) /\ conn' = [conn EXCEPT ![c] = j]
  <2>1. highest[k.wallet] \in Number
    BY <1>2 DEF Inv, Types
  <2>3. j \in Conn /\ j.stage = "mark" /\ j.wallet = k.wallet /\ j.req = k.req /\ j.acting = k.acting
          /\ j.stood = k.stood /\ j.prev = highest[k.wallet]
    BY <1>2, <2>1 DEF Conn, Stages
  <2> HIDE DEF j
  <2>4. OkConn(j, agents)
    BY <1>2, <1>5, <2>3 DEF OkConn, Past
  <2> QED BY <1>1, <1>5, <2>3, <2>4, MoveInv
<1> QED BY <1>3, <1>4, <1>5 DEF ReadMark, Goto

(* The mark that is written is above the whole part of the one that was    *)
(* read: whoever had not read the mark it writes over is in collided.      *)
LEMMA WriteMarkFacts ==
  ASSUME Inv, NEW c \in Conns, WriteMark(c)
  PROVE  /\ conn[c].stage = "mark" /\ conn[c].wallet \in Wallets /\ conn[c].req.nonce \in Number
         /\ conn[c].prev \in Number /\ Above(conn[c].req.nonce, conn[c].prev.ms)
         /\ conn[c].stood \/ conn[c].acting = conn[c].wallet
         /\ Covered(conn[c].req) => Whole(conn[c].req.nonce)
<1>1. conn[c].stage = "mark"
  BY DEF WriteMark
<1> QED BY <1>1, ConnFacts DEF OkConn, Past, Conn

LEMMA WriteMarkInv ==
  ASSUME Inv, NEW c \in Conns, WriteMark(c) PROVE Inv'
<1> DEFINE k == conn[c]
           j == [k EXCEPT !.stage = "expiry"]
<1>1. /\ k \in Conn /\ k.wallet \in Wallets /\ k.req.nonce \in Number /\ k.prev \in Number
      /\ k.req.nonce.ms \in Nat /\ k.prev.ms \in Nat /\ k.req.nonce.ms >= k.prev.ms
      /\ k.stood \/ k.acting = k.wallet
      /\ Covered(k.req) => Whole(k.req.nonce)
  BY WriteMarkFacts, ConnFacts DEF Above, Number
<1>2. j \in Conn /\ j.stage = "expiry" /\ j.wallet = k.wallet /\ j.acting = k.acting /\ j.stood = k.stood
        /\ j.req = k.req
  BY <1>1 DEF Conn, Stages
<1>3. /\ conn' = [conn EXCEPT ![c] = j] /\ agents' = agents
      /\ highest' = [highest EXCEPT ![k.wallet] = k.req.nonce]
      /\ taken' = taken \cup {<<k.wallet, k.req.nonce>>}
      /\ collided' = IF highest[k.wallet] = k.prev THEN collided ELSE collided \cup {k.wallet}
  BY DEF WriteMark, Goto
<1> HIDE DEF j
<1>4. OkConn(j, agents)
  BY <1>1, <1>2 DEF OkConn, Past
<1>5. Types'
  BY <1>1, <1>2, <1>3 DEF Inv, Types
<1>6. \A d \in Conns : OkConn(conn'[d], agents')
  <2>1. \A d \in Conns : conn'[d] = IF d = c THEN j ELSE conn[d]
    BY <1>3 DEF Inv, Types
  <2> QED BY <1>3, <1>4, <2>1 DEF Inv
<1>7. Marks'
  <2> SUFFICES ASSUME NEW t \in taken', t[1] \notin collided' PROVE t[2].ms <= highest'[t[1]].ms
    BY DEF Marks
  <2>1. CASE t = <<k.wallet, k.req.nonce>>
    BY <1>1, <1>3, <2>1 DEF Inv, Types
  <2>2. CASE t \in taken
    <3>1. t[1] \in Wallets /\ t[2].ms \in Nat /\ highest[t[1]].ms \in Nat
      BY <2>2 DEF Inv, Types, Number
    <3>2. t[2].ms <= highest[t[1]].ms
      BY <1>3, <2>2 DEF Inv, Marks
    <3>3. CASE t[1] = k.wallet
      <4>1. highest[k.wallet] = k.prev
        BY <1>3, <3>3
      <4>2. highest'[k.wallet] = k.req.nonce
        BY <1>1, <1>3 DEF Inv, Types
      <4> QED BY <1>1, <3>1, <3>2, <3>3, <4>1, <4>2
    <3>4. CASE t[1] # k.wallet
      <4>1. highest'[t[1]] = highest[t[1]]
        BY <1>3, <3>1, <3>4 DEF Inv, Types
      <4> QED BY <3>2, <4>1
    <3> QED BY <3>3, <3>4
  <2> QED BY <1>3, <2>1, <2>2
<1> QED BY <1>5, <1>6, <1>7 DEF Inv

LEMMA CheckExpiryInv ==
  ASSUME Inv, NEW c \in Conns, CheckExpiry(c) PROVE Inv'
<1>1. UNCHANGED <<agents, highest, taken, collided>> /\ conn[c].stage = "expiry"
  BY DEF CheckExpiry, nonceVars
<1>2. conn[c].wallet \in Wallets /\ (conn[c].stood \/ conn[c].acting = conn[c].wallet)
  BY <1>1, ConnFacts DEF OkConn, Past
<1>3. CASE Answer(c)
  BY <1>1, <1>3, AnswerInv
<1>4. CASE conn' = [conn EXCEPT ![c] = [conn[c] EXCEPT !.stage = "dispatch"]]
  BY <1>1, <1>2, <1>4, StageInv DEF Stages
<1> QED BY <1>3, <1>4 DEF CheckExpiry, Goto

LEMMA DispatchInv ==
  ASSUME Inv, NEW c \in Conns, Dispatch(c) PROVE Inv'
<1>1. UNCHANGED <<agents, highest, taken, collided>> /\ conn[c].stage = "dispatch"
  BY DEF Dispatch, nonceVars
<1>2. conn[c].wallet \in Wallets /\ (conn[c].stood \/ conn[c].acting = conn[c].wallet)
  BY <1>1, ConnFacts DEF OkConn, Past
<1>3. CASE Answer(c)
  BY <1>1, <1>3, AnswerInv
<1>4. CASE conn' = [conn EXCEPT ![c] = [conn[c] EXCEPT !.stage = "approve"]]
  BY <1>1, <1>2, <1>4, StageInv DEF Stages
<1> QED BY <1>3, <1>4 DEF Dispatch, Goto

-----------------------------------------------------------------------------
(* The agents.                                                             *)
LEMMA TableWith ==
  ASSUME NEW t \in AgentTables, NEW n \in AgentNames \cup {Unnamed}, NEW a \in Wallets
  PROVE  With(t, n, a) \in AgentTables
<1>1. PICK N \in SUBSET (AgentNames \cup {Unnamed}) : t \in [N -> Wallets]
  BY DEF AgentTables
<1>2. With(t, n, a) \in [N \cup {n} -> Wallets] /\ N \cup {n} \in SUBSET (AgentNames \cup {Unnamed})
  BY <1>1 DEF With
<1> QED BY <1>2 DEF AgentTables

LEMMA TableWithout ==
  ASSUME NEW t \in AgentTables, NEW n PROVE Without(t, n) \in AgentTables
<1>1. PICK N \in SUBSET (AgentNames \cup {Unnamed}) : t \in [N -> Wallets]
  BY DEF AgentTables
<1>2. Without(t, n) \in [N \ {n} -> Wallets] /\ N \ {n} \in SUBSET (AgentNames \cup {Unnamed})
  BY <1>1 DEF Without
<1> QED BY <1>2 DEF AgentTables

LEMMA NamedInv ==
  ASSUME Inv, NEW c \in Conns, NEW l \in {"count", "add"}, conn[c].stage \in {"approve", "count"},
         conn[c].req.agent \in Wallets, conn[c].req.name \in AgentNames,
         conn' = [conn EXCEPT ![c] = [conn[c] EXCEPT !.stage = l]],
         UNCHANGED <<agents, highest, taken, collided>>
  PROVE  Inv'
<1> DEFINE j == [conn[c] EXCEPT !.stage = l]
<1>1. j \in Conn /\ j.stage = l /\ j.wallet = conn[c].wallet /\ j.req = conn[c].req /\ j.acting = conn[c].acting
        /\ j.stood = conn[c].stood
  BY ConnFacts DEF Conn, Stages
<1>2. conn' = [conn EXCEPT ![c] = j]
  OBVIOUS
<1> HIDE DEF j
<1>3. OkConn(j, agents)
  BY <1>1, ConnFacts DEF OkConn, Past
<1> QED BY <1>1, <1>2, <1>3, MoveInv

LEMMA FindAgentInv ==
  ASSUME Inv, NEW c \in Conns, FindAgent(c) PROVE Inv'
<1>1. UNCHANGED <<agents, highest, taken, collided>> /\ conn[c].stage = "approve"
        /\ conn[c].req.agent # None /\ conn[c].req.name # None
  BY DEF FindAgent, nonceVars
<1>2. conn[c].req.agent \in Wallets /\ conn[c].req.name \in AgentNames
  BY <1>1, ConnFacts DEF Request
<1>3. \E l \in {"count", "add"} : conn' = [conn EXCEPT ![c] = [conn[c] EXCEPT !.stage = l]]
  BY DEF FindAgent, Goto
<1> QED BY <1>1, <1>2, <1>3, NamedInv

LEMMA CountAgentsInv ==
  ASSUME Inv, NEW c \in Conns, CountAgents(c) PROVE Inv'
<1>1. UNCHANGED <<agents, highest, taken, collided>> /\ conn[c].stage = "count"
  BY DEF CountAgents, nonceVars
<1>2. conn[c].req.agent \in Wallets /\ conn[c].req.name \in AgentNames
  BY <1>1, ConnFacts DEF OkConn
<1>3. CASE Answer(c)
  BY <1>1, <1>3, AnswerInv
<1>4. CASE conn' = [conn EXCEPT ![c] = [conn[c] EXCEPT !.stage = "add"]]
  BY <1>1, <1>2, <1>4, NamedInv
<1> QED BY <1>3, <1>4 DEF CountAgents, Goto

(* When a table changes, the requests under way keep the standing they     *)
(* had, and those that gain standing by the change are noted.              *)
LEMMA StoodKeeps ==
  ASSUME NEW k \in Conn, NEW g \in BOOLEAN, OkConn(k, agents), NEW tables,
         k.stage \in {"vault", "agent"} /\ AgentIn(tables, k.req.vault, k.wallet) => g
  PROVE  OkConn([k EXCEPT !.stood = @ \/ g], tables) /\ [k EXCEPT !.stood = @ \/ g] \in Conn
<1> DEFINE j == [k EXCEPT !.stood = @ \/ g]
<1>1. k.stood \in BOOLEAN
  BY DEF Conn
<1>2. j \in Conn /\ j.stage = k.stage /\ j.wallet = k.wallet /\ j.req = k.req /\ j.acting = k.acting
        /\ j.prev = k.prev /\ j.stood = (k.stood \/ g)
  BY <1>1 DEF Conn
<1> HIDE DEF j
<1>3. OkConn(j, tables)
  BY <1>2 DEF OkConn
<1> QED BY <1>2, <1>3 DEF j

LEMMA AgentsInv ==
  ASSUME Inv, NEW c \in Conns, NEW w \in Wallets, NEW t \in AgentTables,
         agents' = [agents EXCEPT ![w] = t], conn' = Stood([conn EXCEPT ![c] = Free]),
         UNCHANGED <<highest, taken, collided>>
  PROVE  Inv'
<1> DEFINE after == [conn EXCEPT ![c] = Free]
           g(d) == after[d].req.vault # None /\ after[d].stage # "free" /\
                   (\E n \in DOMAIN agents'[after[d].req.vault] :
                      agents'[after[d].req.vault][n] = after[d].wallet)
<1>1. agents' \in [Wallets -> AgentTables]
  BY DEF Inv, Types
<1>2. after \in [Conns -> Conn] /\ \A d \in Conns : OkConn(after[d], agents)
  BY FreeOk DEF Inv, Types
<1>3. conn' = [d \in Conns |-> [after[d] EXCEPT !.stood = @ \/ g(d)]]
  BY DEF Stood
<1>4. \A d \in Conns : OkConn(conn'[d], agents') /\ conn'[d] \in Conn
  <2> SUFFICES ASSUME NEW d \in Conns PROVE OkConn(conn'[d], agents') /\ conn'[d] \in Conn
    OBVIOUS
  <2>1. conn'[d] = [after[d] EXCEPT !.stood = @ \/ g(d)]
    BY <1>3
  <2>2. g(d) \in BOOLEAN /\ after[d] \in Conn /\ OkConn(after[d], agents)
    BY <1>2
  <2>3. after[d].stage \in {"vault", "agent"} /\ AgentIn(agents', after[d].req.vault, after[d].wallet) => g(d)
    BY <1>2, GatewayAssumption DEF OkConn, AgentIn
  <2> HIDE DEF g, after
  <2> QED BY <2>1, <2>2, <2>3, StoodKeeps
<1>5. conn' \in [Conns -> Conn]
  BY <1>3, <1>4
<1>6. Types' /\ Marks'
  BY <1>1, <1>5 DEF Inv, Types, Marks
<1> QED BY <1>4, <1>6 DEF Inv

LEMMA ApproveInv ==
  ASSUME Inv, NEW c \in Conns, ApproveNow(c) \/ AddAgent(c) PROVE Inv'
<1> DEFINE k == conn[c]
<1>1. UNCHANGED <<highest, taken, collided>> /\ k.stage \in {"approve", "add"} /\ conn' = Stood([conn EXCEPT ![c] = Free])
  BY DEF ApproveNow, AddAgent, nonceVars
<1>2. k.wallet \in Wallets /\ k.req \in Request /\ OkConn(k, agents) /\ agents[k.wallet] \in AgentTables
  BY <1>1, ConnFacts DEF OkConn, Inv, Types
<1>3. CASE ApproveNow(c)
  <2> DEFINE n == IF k.req.name = None THEN Unnamed ELSE k.req.name
             t == IF k.req.agent = None THEN Without(agents[k.wallet], n) ELSE With(agents[k.wallet], n, k.req.agent)
  <2>1. n \in AgentNames \cup {Unnamed} /\ k.req.agent \in Wallets \cup {None}
    BY <1>2 DEF Request
  <2>2. agents' = [agents EXCEPT ![k.wallet] = t]
    BY <1>3 DEF ApproveNow
  <2> HIDE DEF n
  <2>3. t \in AgentTables
    BY <1>2, <2>1, TableWith, TableWithout
  <2> HIDE DEF t
  <2> QED BY <1>1, <1>2, <2>2, <2>3, AgentsInv
<1>4. CASE AddAgent(c)
  <2> DEFINE t == With(agents[k.wallet], k.req.name, k.req.agent)
  <2>1. agents' = [agents EXCEPT ![k.wallet] = t] /\ k.stage = "add"
    BY <1>4 DEF AddAgent
  <2>2. k.req.name \in AgentNames /\ k.req.agent \in Wallets
    BY <1>2, <2>1 DEF OkConn
  <2>3. t \in AgentTables
    BY <1>2, <2>2, TableWith
  <2> HIDE DEF t
  <2> QED BY <1>1, <1>2, <2>1, <2>3, AgentsInv
<1> QED BY <1>3, <1>4
-----------------------------------------------------------------------------
LEMMA NextInv == Inv /\ [Next]_vars => Inv'
<1> SUFFICES ASSUME Inv, [Next]_vars PROVE Inv'
  OBVIOUS
<1>1. CASE UNCHANGED <<conn, agents, highest, taken, collided>>
  BY <1>1 DEF Inv, Types, Marks
<1>2. ASSUME NEW c \in Conns, Step(c) PROVE Inv'
  BY <1>2, RecoverInv, EnsureInv, CheckVaultInv, CheckAgentInv, EnsureVaultInv, ReadMarkInv,
     WriteMarkInv, CheckExpiryInv, DispatchInv, FindAgentInv, CountAgentsInv, ApproveInv DEF Step
<1>3. ASSUME NEW c \in Conns, NEW r \in Requests, Arrive(c, r) PROVE Inv'
  BY <1>3, ArriveInv
<1>4. Tick \/ (\E t \in {0, now} : Consent(t)) \/ UNCHANGED vars => UNCHANGED <<conn, agents, highest, taken, collided>>
  BY DEF Tick, Consent, vars, nonceVars
<1> QED BY <1>1, <1>2, <1>3, <1>4 DEF Next

(* The marks bound the nonces taken and every request in flight remembers  *)
(* the standing it was given, in every reachable state of exchange.ts.     *)
THEOREM Invariance == Spec => []Inv
<1>1. Init => Inv
  BY InitInv
<1>2. Inv /\ [Next]_vars => Inv'
  BY NextInv
<1> QED BY <1>1, <1>2, PTL DEF Spec

-----------------------------------------------------------------------------
(* A step of another request leaves the stage of this one alone.           *)
LEMMA OthersKeepStage ==
  ASSUME Inv, NEW c \in Conns, NEW d \in Conns, Step(d) \/ (\E r \in Requests : Arrive(d, r)), d # c
  PROVE  conn'[c].stage = conn[c].stage
<1>0. conn \in [Conns -> Conn] /\ conn[c] \in Conn
  BY DEF Inv, Types
<1>1. CASE conn' = Stood([conn EXCEPT ![d] = Free])
  BY <1>0, <1>1 DEF Stood, Conn
<1>2. CASE \E k : conn' = [conn EXCEPT ![d] = k]
  BY <1>0, <1>2
<1>3. CASE UNCHANGED conn
  BY <1>3
<1>4. ApproveNow(d) \/ AddAgent(d) => conn' = Stood([conn EXCEPT ![d] = Free])
  BY DEF ApproveNow, AddAgent
<1>5. Recover(d) \/ Ensure(d) \/ CheckVault(d) \/ CheckAgent(d) => \E k : conn' = [conn EXCEPT ![d] = k]
  BY DEF Recover, Ensure, CheckVault, CheckAgent, Goto, Answer
<1>6. EnsureVault(d) \/ ReadMark(d) \/ WriteMark(d) \/ CheckExpiry(d) => \E k : conn' = [conn EXCEPT ![d] = k]
  BY DEF EnsureVault, ReadMark, WriteMark, CheckExpiry, Goto, Answer
<1>7. Dispatch(d) \/ FindAgent(d) \/ CountAgents(d) => \E k : conn' = [conn EXCEPT ![d] = k]
  BY DEF Dispatch, FindAgent, CountAgents, Goto, Answer
<1>8. ASSUME NEW r \in Requests, Arrive(d, r) PROVE UNCHANGED conn \/ \E k : conn' = [conn EXCEPT ![d] = k]
  BY <1>8 DEF Arrive, Goto
<1> QED BY <1>1, <1>2, <1>3, <1>4, <1>5, <1>6, <1>7, <1>8 DEF Step

(* From the mark a request goes on only by writing it.                     *)
LEMMA OnlyWriteMark ==
  ASSUME Inv, [Next]_vars, NEW c \in Conns, conn[c].stage = "mark", conn'[c].stage = "expiry"
  PROVE  WriteMark(c)
<1>1. CASE UNCHANGED conn
  BY <1>1
<1>2. ASSUME NEW d \in Conns, d # c, Step(d) \/ (\E r \in Requests : Arrive(d, r)) PROVE FALSE
  BY <1>2, OthersKeepStage
<1>3. ASSUME Step(c) PROVE WriteMark(c)
  BY <1>3 DEF Step, Recover, Ensure, CheckVault, CheckAgent, EnsureVault, ReadMark, CheckExpiry, Dispatch,
     ApproveNow, FindAgent, CountAgents, AddAgent
<1>4. ASSUME NEW r \in Requests, Arrive(c, r) PROVE FALSE
  BY <1>4 DEF Arrive, Free
<1>5. Tick \/ (\E t \in {0, now} : Consent(t)) \/ UNCHANGED vars => UNCHANGED conn
  BY DEF Tick, Consent, vars
<1> QED BY <1>1, <1>2, <1>3, <1>4, <1>5 DEF Next

LEMMA WriteMarkOnce ==
  ASSUME Inv, NEW c \in Conns, WriteMark(c)
  PROVE  LET w == conn[c].wallet
             n == conn[c].req.nonce
         IN \/ w \in collided'
            \/ /\ highest'[w].ms >= highest[w].ms
               /\ Covered(conn[c].req) \/ Whole(n) =>
                    Whole(n) /\ <<w, n>> \notin taken /\ highest'[w].ms > highest[w].ms
<1> DEFINE w == conn[c].wallet
           n == conn[c].req.nonce
<1> SUFFICES ASSUME w \notin collided'
             PROVE  /\ highest'[w].ms >= highest[w].ms
                    /\ Covered(conn[c].req) \/ Whole(n) =>
                         Whole(n) /\ <<w, n>> \notin taken /\ highest'[w].ms > highest[w].ms
  OBVIOUS
<1>1. /\ w \in Wallets /\ n \in Number /\ conn[c].prev \in Number /\ Above(n, conn[c].prev.ms)
      /\ Covered(conn[c].req) => Whole(n)
  BY WriteMarkFacts
<1>2. highest[w] = conn[c].prev /\ w \notin collided /\ highest' = [highest EXCEPT ![w] = n]
  BY DEF WriteMark
<1>3. highest'[w] = n /\ n.ms \in Nat /\ highest[w].ms \in Nat
  BY <1>1, <1>2 DEF Inv, Types, Number
<1>4. n.ms >= highest[w].ms /\ (Whole(n) => n.ms > highest[w].ms)
  BY <1>1, <1>2, <1>3 DEF Above, Whole
<1>5. <<w, n>> \in taken => n.ms <= highest[w].ms
  <2>1. <<w, n>> \in taken => <<w, n>>[2].ms <= highest[<<w, n>>[1]].ms
    BY <1>2 DEF Inv, Marks
  <2> QED BY <2>1
<1> HIDE DEF w, n
<1> QED BY <1>1, <1>3, <1>4, <1>5

(* The nonce check of exchange.ts, for any number that comes as a nonce: a *)
(* request whose signature covers its nonce, or with a whole one, passes   *)
(* with a nonce the wallet had not used and raises its mark, and no        *)
(* request lowers the mark below its whole part, although other requests   *)
(* run between the read of the mark and its write; except where a second   *)
(* request of the same wallet wrote the mark in between.                   *)
THEOREM OnceUnlessCollided == Spec => NonceOnce
<1>1. Inv /\ [Next]_vars =>
        [\A c \in Conns : conn[c].stage = "mark" /\ conn'[c].stage = "expiry" =>
           LET w == conn[c].wallet
               n == conn[c].req.nonce
           IN \/ w \in collided'
              \/ /\ highest'[w].ms >= highest[w].ms
                 /\ Covered(conn[c].req) \/ Whole(n) =>
                      Whole(n) /\ <<w, n>> \notin taken /\ highest'[w].ms > highest[w].ms]_vars
  BY OnlyWriteMark, WriteMarkOnce
<1> QED BY <1>1, Invariance, PTL DEF Spec, NonceOnce

(* The vaultAddress checks of exchange.ts: whatever is approved or revoked *)
(* while a request is in flight, the engine acts for another account only  *)
(* if the sender had standing with it at some moment of the request.       *)
THEOREM StandingBeforeActing == Spec => ActsWithStanding
<1>1. Inv /\ [Next]_vars =>
        [\A c \in Conns : conn[c].stage = "dispatch" /\ conn'[c] # conn[c] /\ conn[c].acting # conn[c].wallet
           => conn[c].stood]_vars
  BY ConnFacts DEF OkConn, Past
<1> QED BY <1>1, Invariance, PTL DEF Spec, ActsWithStanding

-----------------------------------------------------------------------------
(* The chain emulator.                                                     *)

Active == {s \in Slots : run[s].stage # "free"}
EventsOf(E, b) == {e \in E : e.block = b}

\* All that a transaction tells is there, numbered in order.
Final(tx) == IF tx.fn = "publish" THEN "SnapshotPublished" ELSE "out"
Numbered(E) == {e.index : e \in E} = 0 .. Cardinality(E) - 1
Entire(tx, E) ==
  /\ \E e \in E : e.kind = Final(tx)
  /\ Numbered(E) /\ Cardinality(E) \in {2, 4}

\* What a transaction has left, statement by statement.
Replacing(q, old, t) ==
  \/ q = <<Event("SnapshotBurned", old), Event("out", old), Write("upsert", t),
           Event("mint", t), Event("SnapshotPublished", t)>>
  \/ q = <<Event("out", old), Write("upsert", t), Event("mint", t), Event("SnapshotPublished", t)>>
PublishTodo(q, t) ==
  \/ \E old \in Nat \ {0} : Replacing(q, old, t)
  \/ q = <<Write("upsert", t), Event("mint", t), Event("SnapshotPublished", t)>>
  \/ q = <<Event("mint", t), Event("SnapshotPublished", t)>>
  \/ q = <<Event("SnapshotPublished", t)>>
  \/ q = <<>>
RemoveTodo(q, t) ==
  \/ \E w \in {0, t} : q = <<Write("delete", w), Event("SnapshotBurned", t), Event("out", t)>>
  \/ q = <<Event("SnapshotBurned", t), Event("out", t)>>
  \/ q = <<Event("out", t)>>
  \/ q = <<>>
Left(q) == IF Len(q) >= 3 THEN Len(q) - 1 ELSE Len(q)   \* events to come

IsRun(r) == /\ r = [stage |-> r.stage, tx |-> r.tx, block |-> r.block, token |-> r.token, todo |-> r.todo]
            /\ r.tx \in Tx
\* c: the counters.
Shape(r, c) ==
  \/ r.stage = "claim" /\ r.tx.fn = "publish" /\ r.block = 0 /\ r.token = 0 /\ r.todo = <<>>
  \/ r.stage = "select" /\ r.tx.fn # "publish" /\ r.block = 0 /\ r.token = 0 /\ r.todo = <<>>
  \/ /\ r.stage = "select" /\ r.tx.fn = "publish" /\ r.todo = <<>>
     /\ r.block \in 1 .. c.block /\ r.token \in 1 .. c.next - 1
  \/ r.stage = "tick" /\ r.tx.fn # "publish" /\ r.block = 0 /\ r.token \in 1 .. c.next - 1 /\ r.todo = <<>>
  \/ /\ r.stage = "run" /\ r.block \in 1 .. c.block /\ r.token \in 1 .. c.next - 1
     /\ IF r.tx.fn = "publish" THEN PublishTodo(r.todo, r.token) ELSE RemoveTodo(r.todo, r.token)
     /\ \A i \in DOMAIN r.todo : r.todo[i].token \in 0 .. c.next - 1
IsEvent(e, c) ==
  /\ e = [block |-> e.block, tx |-> e.tx, index |-> e.index, kind |-> e.kind, token |-> e.token]
  /\ e.block \in 1 .. c.block /\ e.token \in 1 .. c.next - 1 /\ e.tx \in Tx

GoodCounters(c) == c.next \in Nat \ {0} /\ c.block \in Nat /\ c = [next |-> c.next, block |-> c.block]
GoodRows(D, c) ==
  /\ D = [p \in DOMAIN D |-> D[p]] /\ DOMAIN D \subseteq Pairs
  /\ \A p \in DOMAIN D : D[p] \in 1 .. c.next - 1
GoodLog(E, c) == IsFiniteSet(E) /\ \A e \in E : IsEvent(e, c)
GoodRuns(R, c) ==
  /\ R = [s \in Slots |-> R[s]]
  /\ \A s \in Slots : R[s] = Vacant \/ (IsRun(R[s]) /\ Shape(R[s], c))
EvmTypes ==
  GoodCounters(counters) /\ GoodRows(drawings, counters) /\ GoodLog(events, counters) /\ GoodRuns(run, counters)

\* What the log has of the block of a transaction under way.
Emitted(r, E) ==
  /\ r.stage # "run" => E = {}
  /\ r.stage = "run" => /\ \A e \in E : e.tx = r.tx
                        /\ Numbered(E) /\ Cardinality(E) + Left(r.todo) \in {2, 4}
                        /\ r.todo = <<>> => \E e \in E : e.kind = Final(r.tx)
Blocks ==
  /\ \A s \in Active : run[s].block # 0 => Emitted(run[s], EventsOf(events, run[s].block))
  /\ \A s, t \in Active : run[s].block # 0 /\ run[s].block = run[t].block => s = t

GoodReceipt(x, c, E, R) ==
  /\ x.block \in 1 .. c.block
  /\ \A e \in EventsOf(E, x.block) : e.tx = x.tx
  /\ Entire(x.tx, EventsOf(E, x.block))
  /\ \A s \in Slots : R[s].stage # "free" => R[s].block # x.block
Cached ==
  /\ receipts \in Seq([tx : Tx, block : Nat])
  /\ \A i \in DOMAIN receipts : GoodReceipt(receipts[i], counters, events, run)
  /\ \A a \in answers : Entire(a.tx, {e \in a.logs : e.block = a.block})

Followed ==
  /\ poll.from \in Nat /\ poll.from <= counters.block + 1
  /\ \A s \in Active : run[s].block # 0 /\ run[s].block < poll.from => run[s].block \in poll.busy
  /\ \A e \in events : e.block < poll.from => e \in poll.got \/ e.block \in poll.busy

\* A token belongs to one pair.
Carries(r, t) == r.token = t \/ \E i \in DOMAIN r.todo : r.todo[i].token = t
Holds(p, t, D, E, R) ==
  \/ p \in DOMAIN D /\ D[p] = t
  \/ \E e \in E : PairOf(e) = p /\ e.token = t
  \/ \E s \in Slots : R[s].stage # "free" /\ Pair(R[s]) = p /\ Carries(R[s], t)
Home == \A p, q \in Pairs, t \in 1 .. counters.next - 1 :
  Holds(p, t, drawings, events, run) /\ Holds(q, t, drawings, events, run) => p = q

\* What the log E says of a pair p: the tokens that are there, ...
Live(E, p) == {e.token : e \in {x \in E : PairOf(x) = p /\ x.kind = "mint"
                                          /\ {y \in E : y.kind = "out" /\ y.token = x.token} = {}}}
\* ... that none goes twice or before it came, ...
Once(E, p) == \A e \in E : PairOf(e) = p /\ e.kind = "out" =>
  /\ \A f \in E : f.kind = "out" /\ f.token = e.token => f = e
  /\ \E m \in E : m.kind = "mint" /\ m.token = e.token /\ m.block < e.block
\* ... that nothing was said of a token, or all of it before a transaction r.
Unheard(E, p, t) == \A e \in E : PairOf(e) = p => e.token # t
Older(E, p, r) == \A m \in E : PairOf(m) = p /\ m.kind = "mint" =>
  m.block < r.block \/ (r.tx.fn = "publish" /\ m.token = r.token)

\* cur: the token of the pair's row.
Row(D, p) == IF p \in DOMAIN D THEN D[p] ELSE 0
Told(E, p, cur) == Live(E, p) = {cur} \ {0}

\* What the log and the row say of p with n statements left of a publish of t
\* over old, and of a transaction that removes t.
Replaced(p, t, n, old, E, cur) ==
  /\ n \in {4, 5} => Told(E, p, cur) /\ cur = old
  /\ n \in {3, 4, 5} => cur # t
  /\ n \in {2, 3, 4, 5} => Unheard(E, p, t)
  /\ n \in {2, 3} => Live(E, p) = {}
  /\ n = 2 => cur = t
  /\ n \in {0, 1} => Told(E, p, cur)
Removed(p, t, n, E, cur) ==
  /\ n = 3 => Told(E, p, cur) /\ cur = t
  /\ n \in {1, 2} => Live(E, p) = {t} /\ cur = 0
  /\ n = 0 => Told(E, p, cur)

\* While one transaction r changes the pair.
Phase(p, r, E, cur) ==
  /\ r.stage # "run" => Told(E, p, cur)
  /\ r.stage = "tick" => cur = r.token
  /\ r.block # 0 => Older(E, p, r)
  /\ r.stage = "select" /\ r.tx.fn = "publish" => cur # r.token /\ Unheard(E, p, r.token)
  /\ r.stage = "run" /\ r.tx.fn = "publish" => Replaced(p, r.token, Len(r.todo), r.todo[1].token, E, cur)
  /\ r.stage = "run" /\ r.tx.fn # "publish" => Removed(p, r.token, Len(r.todo), E, cur)

\* B: the slots at work on the pair, in what state R.
Sound(p, E, cur, B, R) ==
  /\ Once(E, p)
  /\ \A s, t \in B : s = t
  /\ B = {} => Told(E, p, cur)
  /\ \A s \in B : Phase(p, R[s], E, cur)

Working(R, p) == {s \in Slots : R[s].stage # "free" /\ Pair(R[s]) = p}
Log == \A p \in Pairs \ tangled : Sound(p, events, Row(drawings, p), Working(run, p), run)

EvmInv == EvmTypes /\ Blocks /\ Cached /\ Followed /\ Home /\ Log

-----------------------------------------------------------------------------
(* Scripts.                                                                *)
LEMMA PublishSteps ==
  ASSUME NEW q, NEW t, PublishTodo(q, t), q # <<>>
  PROVE  /\ Len(q) \in 1 .. 5 /\ Len(Tail(q)) = Len(q) - 1
         /\ Head(q) = q[1] /\ DOMAIN q = 1 .. Len(q) /\ DOMAIN Tail(q) = 1 .. Len(q) - 1
         /\ \A i \in 1 .. Len(q) - 1 : Tail(q)[i] = q[i + 1]
         /\ PublishTodo(Tail(q), t) /\ Head(q).op = IF Len(q) = 3 THEN "upsert" ELSE "event"
         /\ Len(q) \in {1, 2, 3} => Head(q).token = t
         /\ Len(q) = 5 => Head(q).kind = "SnapshotBurned"
         /\ Len(q) = 4 => Head(q).kind = "out"
         /\ Len(q) = 2 => Head(q).kind = "mint"
         /\ Len(q) = 1 => Head(q).kind = "SnapshotPublished"
         /\ Len(q) = 5 => Tail(q)[1].token = q[1].token
         /\ Len(q) \in {4, 5} => q[1].token # 0
         /\ Len(q) = 1 => Tail(q) = <<>>
<1> DEFINE goal ==
         /\ Len(q) \in 1 .. 5 /\ Len(Tail(q)) = Len(q) - 1
         /\ Head(q) = q[1] /\ DOMAIN q = 1 .. Len(q) /\ DOMAIN Tail(q) = 1 .. Len(q) - 1
         /\ \A i \in 1 .. Len(q) - 1 : Tail(q)[i] = q[i + 1]
         /\ PublishTodo(Tail(q), t) /\ Head(q).op = IF Len(q) = 3 THEN "upsert" ELSE "event"
         /\ Len(q) \in {1, 2, 3} => Head(q).token = t
         /\ Len(q) = 5 => Head(q).kind = "SnapshotBurned"
         /\ Len(q) = 4 => Head(q).kind = "out"
         /\ Len(q) = 2 => Head(q).kind = "mint"
         /\ Len(q) = 1 => Head(q).kind = "SnapshotPublished"
         /\ Len(q) = 5 => Tail(q)[1].token = q[1].token
         /\ Len(q) \in {4, 5} => q[1].token # 0
         /\ Len(q) = 1 => Tail(q) = <<>>
<1>1. ASSUME NEW old \in Nat \ {0},
             q = <<Event("SnapshotBurned", old), Event("out", old), Write("upsert", t),
                   Event("mint", t), Event("SnapshotPublished", t)>>
      PROVE  goal
  BY <1>1 DEF PublishTodo, Replacing, Event, Write
<1>2. ASSUME NEW old \in Nat \ {0},
             q = <<Event("out", old), Write("upsert", t), Event("mint", t), Event("SnapshotPublished", t)>>
      PROVE  goal
  BY <1>2 DEF PublishTodo, Replacing, Event, Write
<1>3. ASSUME q = <<Write("upsert", t), Event("mint", t), Event("SnapshotPublished", t)>> PROVE goal
  BY <1>3 DEF PublishTodo, Event, Write
<1>4. ASSUME q = <<Event("mint", t), Event("SnapshotPublished", t)>> PROVE goal
  BY <1>4 DEF PublishTodo, Event, Write
<1>5. ASSUME q = <<Event("SnapshotPublished", t)>> PROVE goal
  BY <1>5 DEF PublishTodo, Event, Write
<1>6. ASSUME NEW old \in Nat \ {0}, Replacing(q, old, t) PROVE goal
  <2> HIDE DEF goal
  <2> QED BY <1>1, <1>2, <1>6 DEF Replacing
<1> HIDE DEF goal
<1>7. goal
  BY <1>3, <1>4, <1>5, <1>6 DEF PublishTodo
<1> QED BY <1>7 DEF goal

LEMMA UpsertStep ==
  ASSUME NEW q, NEW t, PublishTodo(q, t), Len(q) = 3
  PROVE  Head(q).token = t /\ Len(Tail(q)) = 2
<1>1. ~ \E old \in Nat \ {0} : Replacing(q, old, t)
  BY DEF Replacing
<1>2. q = <<Write("upsert", t), Event("mint", t), Event("SnapshotPublished", t)>>
  BY <1>1 DEF PublishTodo
<1> QED BY <1>2 DEF Write

LEMMA RemoveSteps ==
  ASSUME NEW q, NEW t, RemoveTodo(q, t), q # <<>>
  PROVE  /\ Len(q) \in 1 .. 3 /\ Len(Tail(q)) = Len(q) - 1
         /\ Head(q) = q[1] /\ DOMAIN q = 1 .. Len(q) /\ DOMAIN Tail(q) = 1 .. Len(q) - 1
         /\ \A i \in 1 .. Len(q) - 1 : Tail(q)[i] = q[i + 1]
         /\ RemoveTodo(Tail(q), t) /\ Head(q).op = IF Len(q) = 3 THEN "delete" ELSE "event"
         /\ Len(q) \in {1, 2} => Head(q).token = t
         /\ Len(q) = 2 => Head(q).kind = "SnapshotBurned"
         /\ Len(q) = 1 => Head(q).kind = "out"
         /\ Len(q) = 3 => Head(q).token \in {0, t}
         /\ Len(q) = 1 => Tail(q) = <<>>
<1>1. ASSUME NEW w \in {0, t}, q = <<Write("delete", w), Event("SnapshotBurned", t), Event("out", t)>>
      PROVE  /\ Len(q) = 3 /\ Len(Tail(q)) = 2 /\ Head(q) = q[1] /\ DOMAIN q = 1 .. 3 /\ DOMAIN Tail(q) = 1 .. 2
             /\ \A i \in 1 .. 2 : Tail(q)[i] = q[i + 1]
             /\ RemoveTodo(Tail(q), t) /\ Head(q).token = w /\ Head(q).op = "delete"
  BY <1>1 DEF RemoveTodo, Event, Write
<1>2. CASE q = <<Event("SnapshotBurned", t), Event("out", t)>>
  BY <1>2 DEF RemoveTodo, Event, Write
<1>3. CASE q = <<Event("out", t)>>
  BY <1>3 DEF RemoveTodo, Event, Write
<1> QED BY <1>1, <1>2, <1>3 DEF RemoveTodo

LEMMA NoSteps == Len(<<>>) = 0 /\ \A t : PublishTodo(<<>>, t) /\ RemoveTodo(<<>>, t)
  BY DEF PublishTodo, RemoveTodo

\* A step of a transaction.
LEMMA TodoSteps ==
  ASSUME NEW r, NEW c, Shape(r, c), r.stage = "run", r.todo # <<>>
  PROVE  /\ Len(Tail(r.todo)) = Len(r.todo) - 1 /\ Len(r.todo) \in 1 .. 5
         /\ Head(r.todo) = r.todo[1] /\ 1 \in DOMAIN r.todo
         /\ \A i \in DOMAIN Tail(r.todo) : i + 1 \in DOMAIN r.todo /\ Tail(r.todo)[i] = r.todo[i + 1]
         /\ Head(r.todo).op = "event" => Left(Tail(r.todo)) = Left(r.todo) - 1
         /\ Head(r.todo).op # "event" => Left(Tail(r.todo)) = Left(r.todo) /\ Tail(r.todo) # <<>>
         /\ Left(r.todo) \in Nat
<1>1. CASE r.tx.fn = "publish"
  <2> DEFINE q == r.todo
  <2>1. PublishTodo(q, r.token)
    BY <1>1 DEF Shape
  <2>2. Len(q) \in 1 .. 5 /\ Len(Tail(q)) = Len(q) - 1 /\ Head(q) = q[1] /\ DOMAIN q = 1 .. Len(q)
        /\ DOMAIN Tail(q) = 1 .. Len(q) - 1 /\ \A i \in 1 .. Len(q) - 1 : Tail(q)[i] = q[i + 1]
    BY <2>1, PublishSteps
  <2>3. Head(q).op = IF Len(q) = 3 THEN "upsert" ELSE "event"
    BY <2>1, PublishSteps
  <2> HIDE DEF q
  <2>4. Len(q) = 3 => Tail(q) # <<>>
    BY <2>2, Len(<<>>) = 0
  <2>5. \A i \in DOMAIN Tail(q) : i + 1 \in DOMAIN q /\ Tail(q)[i] = q[i + 1]
    BY <2>2
  <2>6. /\ Head(q).op = "event" => Left(Tail(q)) = Left(q) - 1
        /\ Head(q).op # "event" => Left(Tail(q)) = Left(q) /\ Tail(q) # <<>>
        /\ Left(q) \in Nat /\ 1 \in DOMAIN q
    BY <2>2, <2>3, <2>4 DEF Left
  <2> QED BY <2>2, <2>5, <2>6 DEF q
<1>2. CASE r.tx.fn # "publish"
  <2> DEFINE q == r.todo
  <2>1. RemoveTodo(q, r.token)
    BY <1>2 DEF Shape
  <2>2. Len(q) \in 1 .. 3 /\ Len(Tail(q)) = Len(q) - 1 /\ Head(q) = q[1] /\ DOMAIN q = 1 .. Len(q)
        /\ DOMAIN Tail(q) = 1 .. Len(q) - 1 /\ \A i \in 1 .. Len(q) - 1 : Tail(q)[i] = q[i + 1]
    BY <2>1, RemoveSteps
  <2>3. Head(q).op = IF Len(q) = 3 THEN "delete" ELSE "event"
    BY <2>1, RemoveSteps
  <2> HIDE DEF q
  <2>4. Len(q) = 3 => Tail(q) # <<>>
    BY <2>2, Len(<<>>) = 0
  <2>5. \A i \in DOMAIN Tail(q) : i + 1 \in DOMAIN q /\ Tail(q)[i] = q[i + 1]
    BY <2>2
  <2>6. /\ Head(q).op = "event" => Left(Tail(q)) = Left(q) - 1
        /\ Head(q).op # "event" => Left(Tail(q)) = Left(q) /\ Tail(q) # <<>>
        /\ Left(q) \in Nat /\ 1 \in DOMAIN q
    BY <2>2, <2>3, <2>4 DEF Left
  <2> QED BY <2>2, <2>5, <2>6 DEF q
<1> QED BY <1>1, <1>2

LEMMA Pairing ==
  ASSUME NEW S, NEW a \in S, NEW v \in Seq(S), Len(v) = 2
  PROVE  <<a>> \o v = <<a, v[1], v[2]>>
<1>1. PICK u, x : u = <<a>> /\ x = u \o v
  OBVIOUS
<1>2. u \in Seq(S) /\ Len(u) = 1 /\ u[1] = a
  BY <1>1
<1>3. /\ x \in Seq(S) /\ Len(x) = Len(u) + Len(v)
      /\ \A i \in 1 .. Len(u) + Len(v) : x[i] = IF i <= Len(u) THEN u[i] ELSE v[i - Len(u)]
  BY <1>1, <1>2, ConcatProperties
<1>4. Len(x) = 3 /\ x[1] = a /\ x[2] = v[1] /\ x[3] = v[2]
  BY <1>2, <1>3
<1>5. <<a, v[1], v[2]>> \in Seq(S) /\ Len(<<a, v[1], v[2]>>) = 3
  OBVIOUS
<1>6. \A i \in 1 .. 3 : x[i] = <<a, v[1], v[2]>>[i]
  BY <1>4
<1>7. x = <<a, v[1], v[2]>>
  BY <1>3, <1>4, <1>5, <1>6, SeqEqual
<1> QED BY <1>1, <1>7

LEMMA PublishBegins ==
  ASSUME NEW old \in Nat, NEW t \in Nat \ {0}
  PROVE  /\ PublishTodo(publish(old, t), t)
         /\ old # 0 => Len(publish(old, t)) = 5 /\ publish(old, t)[1].token = old
         /\ old = 0 => Len(publish(old, t)) = 3
         /\ \A i \in DOMAIN publish(old, t) : publish(old, t)[i].token \in {old, t} \ {0}
<1> DEFINE a == Event("SnapshotBurned", old)
           b == Event("out", old)
           u == Write("upsert", t)
           m == Event("mint", t)
           e == Event("SnapshotPublished", t)
           S == {a, b, u, m, e}
<1>1. a \in S /\ b \in S /\ u \in S /\ m \in S /\ e \in S
  OBVIOUS
<1>2. a.token = old /\ b.token = old /\ u.token = t /\ m.token = t /\ e.token = t
  BY DEF Event, Write
<1>3. CASE old = 0
  <2>1. publish(old, t) = (<<>> \o <<u>>) \o <<m, e>>
    BY <1>3 DEF publish, MintEvents
  <2> HIDE DEF S, a, b, u, m, e
  <2>2. <<>> \o <<u>> = <<u>>
    <3>1. <<u>> \in Seq(S)
      BY <1>1
    <3> QED BY <3>1, ConcatEmptySeq
  <2>3. <<m, e>> \in Seq(S) /\ Len(<<m, e>>) = 2 /\ <<m, e>>[1] = m /\ <<m, e>>[2] = e
    BY <1>1
  <2>4. publish(old, t) = <<u, m, e>>
    BY <1>1, <2>1, <2>2, <2>3, Pairing
  <2> USE DEF u, m, e
  <2> QED BY <1>2, <1>3, <2>4 DEF PublishTodo
<1>4. CASE old # 0
  <2>1. publish(old, t) = (<<a, b>> \o <<u>>) \o <<m, e>>
    BY <1>4 DEF publish, BurnEvents, MintEvents
  <2> DEFINE z == <<a, b, u, m, e>>
  <2> HIDE DEF S, a, b, u, m, e
  <2>2. <<a, b>> \in Seq(S) /\ <<u>> \in Seq(S) /\ <<m, e>> \in Seq(S) /\ z \in Seq(S)
    BY <1>1
  <2>3. <<a, b>> \o <<u>> = <<a, b, u>>
    <3>1. <<a, b, u>> \in Seq(S) /\ <<a, b>> \o <<u>> \in Seq(S) /\ Len(<<a, b>> \o <<u>>) = 3
      BY <1>1, <2>2
    <3>2. \A i \in 1 .. 3 : (<<a, b>> \o <<u>>)[i] = <<a, b, u>>[i]
      BY <2>2
    <3> QED BY <3>1, <3>2, SeqEqual
  <2>4. <<a, b, u>> \o <<m, e>> = z
    <3>1. <<a, b, u>> \in Seq(S) /\ <<a, b, u>> \o <<m, e>> \in Seq(S) /\ Len(<<a, b, u>> \o <<m, e>>) = 5
      BY <1>1, <2>2
    <3>2. \A i \in 1 .. 5 : (<<a, b, u>> \o <<m, e>>)[i] = z[i]
      BY <2>2, <3>1
    <3> QED BY <3>1, <3>2, <2>2, SeqEqual
  <2>5. publish(old, t) = z
    BY <2>1, <2>3, <2>4
  <2>6. PublishTodo(z, t)
    BY <1>4 DEF PublishTodo, Replacing, a, b, u, m, e
  <2>7. Len(z) = 5 /\ z[1] = a /\ DOMAIN z = 1 .. 5 /\ \A i \in 1 .. 5 : z[i] \in {a, b, u, m, e}
    OBVIOUS
  <2> QED BY <1>2, <1>4, <2>5, <2>6, <2>7
<1> QED BY <1>3, <1>4

LEMMA RemoveBegins ==
  ASSUME NEW t \in Nat \ {0}, NEW q \in {deleteForMarket(t), burn(t)}
  PROVE  RemoveTodo(q, t) /\ Len(q) = 3 /\ \A i \in DOMAIN q : q[i].token \in {0, t}
<1>1. ASSUME NEW w \in {0, t} PROVE
        /\ <<Write("delete", w)>> \o BurnEvents(t) = <<Write("delete", w), Event("SnapshotBurned", t), Event("out", t)>>
  <2> DEFINE S == {Write("delete", w), Event("SnapshotBurned", t), Event("out", t)}
  <2>1. BurnEvents(t) \in Seq(S) /\ Len(BurnEvents(t)) = 2
        /\ BurnEvents(t)[1] = Event("SnapshotBurned", t) /\ BurnEvents(t)[2] = Event("out", t)
    BY DEF BurnEvents
  <2>2. Write("delete", w) \in S
    OBVIOUS
  <2> HIDE DEF S
  <2> QED BY <2>1, <2>2, Pairing
<1>2. PICK w \in {0, t} : q = <<Write("delete", w), Event("SnapshotBurned", t), Event("out", t)>>
  BY <1>1 DEF deleteForMarket, burn
<1>3. \A i \in 1 .. 3 : q[i].token \in {0, t}
  BY <1>2 DEF Write, Event
<1> QED BY <1>2, <1>3 DEF RemoveTodo

-----------------------------------------------------------------------------
(* What a step makes of its transaction.                                   *)
Others(s) == run' = [x \in Slots |-> run'[x]] /\ \A x \in Slots \ {s} : run'[x] = run[x]

LEMMA VacantFree == Vacant.stage = "free" /\ Vacant.block = 0 /\ Vacant.token = 0 /\ Vacant.todo = <<>>
  BY DEF Vacant

LEMMA Becomes ==
  ASSUME EvmTypes, NEW s \in Slots, NEW k, Become(s, k)
  PROVE  Others(s) /\ run'[s] = k
  BY DEF EvmTypes, GoodRuns, Become, Others

LEMMA ActiveRun ==
  ASSUME EvmTypes, NEW s \in Slots, run[s].stage # "free"
  PROVE  /\ IsRun(run[s]) /\ Shape(run[s], counters) /\ Pair(run[s]) \in Pairs
         /\ run[s].block \in 0 .. counters.block /\ run[s].token \in 0 .. counters.next - 1
<1>1. IsRun(run[s]) /\ Shape(run[s], counters)
  BY VacantFree DEF EvmTypes, GoodRuns
<1>2. Pair(run[s]) \in Pairs
  BY <1>1 DEF IsRun, Pair, Pairs, Tx
<1> QED BY <1>1, <1>2 DEF Shape, EvmTypes, GoodCounters

LEMMA Idle == ASSUME EvmTypes, NEW s \in Slots, run[s].stage = "free" PROVE run[s] = Vacant
<1>1. CASE IsRun(run[s]) /\ Shape(run[s], counters)
  BY <1>1 DEF Shape
<1> QED BY <1>1 DEF EvmTypes, GoodRuns

LEMMA ShapeGrows ==
  ASSUME NEW r, NEW c, NEW d, Shape(r, c), GoodCounters(c), GoodCounters(d), c.block <= d.block, c.next <= d.next
  PROVE  Shape(r, d)
<1>1. 1 .. c.block \subseteq 1 .. d.block /\ 1 .. c.next - 1 \subseteq 1 .. d.next - 1
      /\ 0 .. c.next - 1 \subseteq 0 .. d.next - 1
  BY DEF GoodCounters
<1> QED BY <1>1 DEF Shape

LEMMA LogGrows ==
  ASSUME NEW E, NEW c, NEW d, GoodLog(E, c), GoodCounters(c), GoodCounters(d), c.block <= d.block, c.next <= d.next
  PROVE  GoodLog(E, d)
  BY DEF GoodCounters, GoodLog, IsEvent

LEMMA RowsGrow ==
  ASSUME NEW D, NEW c, NEW d, GoodRows(D, c), GoodCounters(c), GoodCounters(d), c.block <= d.block, c.next <= d.next
  PROVE  GoodRows(D, d)
  BY DEF GoodCounters, GoodRows

LEMMA RunsStep ==
  ASSUME EvmTypes, NEW s \in Slots, Others(s), GoodCounters(counters'),
         counters.block <= counters'.block, counters.next <= counters'.next,
         run'[s] = Vacant \/ (IsRun(run'[s]) /\ Shape(run'[s], counters'))
  PROVE  GoodRuns(run', counters')
<1>1. ASSUME NEW x \in Slots \ {s} PROVE run'[x] = Vacant \/ (IsRun(run'[x]) /\ Shape(run'[x], counters'))
  <2>1. run'[x] = run[x]
    BY DEF Others
  <2>2. CASE run[x] = Vacant
    BY <2>1, <2>2
  <2>3. CASE IsRun(run[x]) /\ Shape(run[x], counters)
    BY <2>1, <2>3, ShapeGrows DEF EvmTypes
  <2> QED BY <2>2, <2>3 DEF EvmTypes, GoodRuns
<1> QED BY <1>1 DEF GoodRuns, Others

LEMMA RowFacts ==
  ASSUME EvmTypes, NEW p
  PROVE  /\ Row(drawings, p) \in 0 .. counters.next - 1 /\ Row(drawings, p) = currentSnapshotOf(p)
         /\ Row(drawings, p) # 0 => p \in DOMAIN drawings /\ drawings[p] = Row(drawings, p)
  BY DEF EvmTypes, GoodRows, GoodCounters, currentSnapshotOf, Row

LEMMA SendRun ==
  ASSUME EvmTypes, NEW s \in Slots, NEW t \in Raw, handleSendRawTransaction(s, t)
  PROVE  /\ Others(s) /\ run[s] = Vacant /\ IsRun(run'[s]) /\ run'[s].tx = t
         /\ run'[s].stage \in {"claim", "select"} /\ (run'[s].stage = "claim" <=> t.fn = "publish")
         /\ run'[s].block = 0 /\ run'[s].token = 0 /\ run'[s].todo = <<>>
<1> DEFINE k == [Vacant EXCEPT !.stage = IF t.fn = "publish" THEN "claim" ELSE "select", !.tx = t]
<1>1. Become(s, k) /\ run[s] = Vacant
  BY Idle DEF handleSendRawTransaction
<1>2. /\ k = [stage |-> k.stage, tx |-> k.tx, block |-> k.block, token |-> k.token, todo |-> k.todo]
      /\ k.tx = t /\ k.stage = (IF t.fn = "publish" THEN "claim" ELSE "select")
      /\ k.block = 0 /\ k.token = 0 /\ k.todo = <<>>
  <2> DEFINE to == IF t.fn = "publish" THEN "claim" ELSE "select"
             any == CHOOSE u \in Raw : TRUE
  <2>1. Vacant = [stage |-> "free", tx |-> any, block |-> 0, token |-> 0, todo |-> <<>>]
    BY DEF Vacant
  <2>2. k = [Vacant EXCEPT !.stage = to, !.tx = t]
    OBVIOUS
  <2> HIDE DEF to, any, k
  <2>3. k = [stage |-> to, tx |-> t, block |-> 0, token |-> 0, todo |-> <<>>]
    BY <2>1, <2>2
  <2> QED BY <2>3 DEF to
<1>3. Others(s) /\ run'[s] = k
  BY <1>1, Becomes
<1>4. t \in Tx
  BY EvmAssumption
<1> QED BY <1>1, <1>2, <1>3, <1>4 DEF IsRun

LEMMA ClaimRun ==
  ASSUME EvmTypes, NEW s \in Slots, nextTokenAndBlock(s)
  PROVE  /\ Others(s) /\ IsRun(run'[s]) /\ run'[s].stage = "select" /\ run'[s].tx = run[s].tx
         /\ run[s].tx.fn = "publish" /\ run[s].todo = <<>> /\ run'[s].todo = <<>>
         /\ run'[s].token = counters.next /\ run'[s].block = counters.block + 1
         /\ run[s].block = 0 /\ run[s].token = 0
<1>1. IsRun(run[s]) /\ Shape(run[s], counters)
  BY ActiveRun DEF nextTokenAndBlock
<1>2. Others(s) /\ run'[s] = [run[s] EXCEPT !.stage = "select", !.token = counters.next, !.block = counters.block + 1]
  BY Becomes DEF nextTokenAndBlock
<1> QED BY <1>1, <1>2 DEF IsRun, Shape, nextTokenAndBlock

LEMMA SelectPublish ==
  ASSUME EvmTypes, NEW s \in Slots, SelectRow(s), run[s].tx.fn = "publish"
  PROVE  /\ Others(s) /\ IsRun(run'[s]) /\ run'[s].stage = "run" /\ run'[s].tx = run[s].tx
         /\ run'[s].token = run[s].token /\ run'[s].block = run[s].block
         /\ run[s].token \in 1 .. counters.next - 1 /\ run[s].block \in 1 .. counters.block
         /\ run'[s].todo = publish(currentSnapshotOf(Pair(run[s])), run[s].token)
         /\ UNCHANGED tangled
<1>1. IsRun(run[s]) /\ Shape(run[s], counters)
  BY ActiveRun DEF SelectRow
<1> DEFINE k == [run[s] EXCEPT !.stage = "run", !.todo = publish(currentSnapshotOf(Pair(run[s])), run[s].token)]
<1>2. Become(s, k) /\ UNCHANGED tangled
  BY DEF SelectRow
<1>3. Others(s) /\ run'[s] = k
  BY <1>2, Becomes
<1> QED BY <1>1, <1>2, <1>3 DEF IsRun, Shape, SelectRow

\* A revert, or the token to remove.
LEMMA SelectRemove ==
  ASSUME EvmTypes, NEW s \in Slots, SelectRow(s), run[s].tx.fn # "publish"
  PROVE  /\ Others(s) /\ run[s].block = 0 /\ run[s].token = 0
         /\ \/ run'[s] = Vacant /\ UNCHANGED tangled
            \/ /\ IsRun(run'[s]) /\ run'[s].stage = "tick" /\ run'[s].tx.fn # "publish"
               /\ run'[s].block = 0 /\ run'[s].todo = <<>>
               /\ Pair(run'[s]) \in DOMAIN drawings /\ run'[s].token = drawings[Pair(run'[s])]
               /\ \/ Pair(run'[s]) = Pair(run[s]) /\ UNCHANGED tangled
                  \/ tangled' = IF Busy(Pair(run'[s])) \ {s} # {} THEN tangled \cup {Pair(run'[s])} ELSE tangled
<1>1. IsRun(run[s]) /\ Shape(run[s], counters)
  BY ActiveRun DEF SelectRow
<1>2. run[s].block = 0 /\ run[s].token = 0 /\ run[s].todo = <<>>
  BY <1>1 DEF Shape, SelectRow
<1>3. CASE run[s].tx.fn = "deleteForMarket"
  <2>1. CASE currentSnapshotOf(Pair(run[s])) = 0
    <3>1. Finish(s) /\ UNCHANGED tangled
      BY <1>3, <2>1 DEF SelectRow
    <3> QED BY <3>1, <1>2, Becomes DEF Finish
  <2>2. CASE currentSnapshotOf(Pair(run[s])) # 0
    <3> DEFINE tok == currentSnapshotOf(Pair(run[s]))
               k == [run[s] EXCEPT !.stage = "tick", !.token = tok]
    <3>1. Become(s, k) /\ UNCHANGED tangled
      BY <1>3, <2>2 DEF SelectRow
    <3>2. Others(s) /\ run'[s] = k
      BY <3>1, Becomes
    <3>3. /\ IsRun(k) /\ k.stage = "tick" /\ k.tx = run[s].tx /\ k.block = 0 /\ k.todo = <<>>
          /\ k.token = tok
      <4>0. k = [run[s] EXCEPT !.stage = "tick", !.token = tok]
        OBVIOUS
      <4> HIDE DEF k, tok
      <4>1. k = [stage |-> "tick", tx |-> run[s].tx, block |-> 0, token |-> tok, todo |-> <<>>]
        BY <1>1, <1>2, <4>0 DEF IsRun
      <4> QED BY <1>1, <4>1 DEF IsRun
    <3>4. Pair(k) = Pair(run[s])
      BY <3>3 DEF Pair
    <3>5. Pair(run[s]) \in DOMAIN drawings /\ drawings[Pair(run[s])] = currentSnapshotOf(Pair(run[s]))
      BY <2>2 DEF currentSnapshotOf
    <3> HIDE DEF k
    <3> QED BY <1>2, <1>3, <3>1, <3>2, <3>3, <3>4, <3>5
  <2> QED BY <2>1, <2>2
<1>4. CASE run[s].tx.fn = "burn"
  <2> DEFINE mine == {p \in RowOf(run[s].tx.token) : p[1] = run[s].tx.from}
             p == CHOOSE q \in mine : TRUE
  <2>1. CASE mine = {}
    <3>1. Finish(s) /\ UNCHANGED tangled
      BY <1>4, <2>1 DEF SelectRow
    <3> QED BY <3>1, <1>2, Becomes DEF Finish
  <2>2. CASE mine # {}
    <3> DEFINE k == [run[s] EXCEPT !.stage = "tick", !.token = run[s].tx.token, !.tx.market = p[2]]
    <3>1. Become(s, k) /\ tangled' = IF Busy(p) \ {s} # {} THEN tangled \cup {p} ELSE tangled
      BY <1>4, <2>2 DEF SelectRow
    <3>2. Others(s) /\ run'[s] = k
      BY <3>1, Becomes
    <3>3. p \in mine
      BY <2>2
    <3>4. p \in DOMAIN drawings /\ drawings[p] = run[s].tx.token /\ p[1] = run[s].tx.from
      BY <3>3 DEF RowOf
    <3>5. p \in Pairs
      BY <3>4 DEF EvmTypes, GoodRows
    <3> HIDE DEF p
    <3>6. p = <<p[1], p[2]>> /\ p[2] \in Markets
      BY <3>5 DEF Pairs
    <3>7. /\ IsRun(k) /\ k.stage = "tick" /\ k.tx.from = run[s].tx.from /\ k.tx.market = p[2]
          /\ k.tx.fn = run[s].tx.fn /\ k.block = 0 /\ k.todo = <<>> /\ k.token = run[s].tx.token
      <4> DEFINE tx == [run[s].tx EXCEPT !.market = p[2]]
                 tok == run[s].tx.token
      <4>1. tx \in Tx /\ tx.from = run[s].tx.from /\ tx.market = p[2] /\ tx.fn = run[s].tx.fn
        BY <1>1, <3>6 DEF IsRun, Tx
      <4>2. k = [run[s] EXCEPT !.stage = "tick", !.token = tok, !.tx = tx]
        BY <1>1 DEF IsRun
      <4> HIDE DEF tx, tok, k
      <4>3. k = [stage |-> "tick", tx |-> tx, block |-> 0, token |-> tok, todo |-> <<>>]
        BY <1>1, <1>2, <4>2 DEF IsRun
      <4>4. IsRun(k) /\ k.stage = "tick" /\ k.tx = tx /\ k.token = tok /\ k.block = 0 /\ k.todo = <<>>
        BY <4>1, <4>3 DEF IsRun
      <4> QED BY <4>1, <4>4 DEF tok
    <3>8. Pair(k) = p
      BY <3>4, <3>6, <3>7 DEF Pair
    <3> HIDE DEF k
    <3> QED BY <1>2, <1>4, <3>1, <3>2, <3>4, <3>7, <3>8
  <2> QED BY <2>1, <2>2
<1>5. run[s].tx.fn \in {"publish", "deleteForMarket", "burn"}
  BY <1>1 DEF IsRun, Tx
<1> QED BY <1>3, <1>4, <1>5

LEMMA TickRun ==
  ASSUME EvmTypes, NEW s \in Slots, tickBlock(s)
  PROVE  /\ Others(s) /\ IsRun(run'[s]) /\ run'[s].stage = "run" /\ run'[s].tx = run[s].tx
         /\ run[s].tx.fn # "publish" /\ run[s].token \in 1 .. counters.next - 1 /\ run'[s].token = run[s].token
         /\ run[s].block = 0 /\ run'[s].block = counters.block + 1 /\ run[s].todo = <<>>
         /\ run'[s].todo \in {deleteForMarket(run[s].token), burn(run[s].token)}
<1>1. IsRun(run[s]) /\ Shape(run[s], counters)
  BY ActiveRun DEF tickBlock
<1> DEFINE q == IF run[s].tx.fn = "burn" THEN burn(run[s].token) ELSE deleteForMarket(run[s].token)
<1>2. Others(s) /\ run'[s] = [run[s] EXCEPT !.stage = "run", !.block = counters.block + 1, !.todo = q]
  BY Becomes DEF tickBlock
<1>3. q \in {deleteForMarket(run[s].token), burn(run[s].token)}
  OBVIOUS
<1> HIDE DEF q
<1> QED BY <1>1, <1>2, <1>3 DEF IsRun, Shape, tickBlock

LEMMA StatementRun ==
  ASSUME EvmTypes, NEW s \in Slots, WriteRow(s) \/ emitEvent(s)
  PROVE  /\ Others(s) /\ IsRun(run[s]) /\ Shape(run[s], counters) /\ run[s].stage = "run" /\ run[s].todo # <<>>
         /\ IsRun(run'[s]) /\ run'[s].stage = "run" /\ run'[s].tx = run[s].tx
         /\ run'[s].token = run[s].token /\ run'[s].block = run[s].block /\ run'[s].todo = Tail(run[s].todo)
         /\ run[s].token \in 1 .. counters.next - 1 /\ run[s].block \in 1 .. counters.block
<1>1. IsRun(run[s]) /\ Shape(run[s], counters) /\ run[s].stage = "run" /\ run[s].todo # <<>>
  BY ActiveRun DEF WriteRow, emitEvent
<1>2. Others(s) /\ run'[s] = [run[s] EXCEPT !.todo = Tail(@)]
  BY Becomes DEF WriteRow, emitEvent
<1> QED BY <1>1, <1>2 DEF IsRun, Shape

LEMMA EndRun ==
  ASSUME EvmTypes, NEW s \in Slots, CacheReceipt(s) \/ Fail(s)
  PROVE  Others(s) /\ run'[s] = Vacant /\ IsRun(run[s]) /\ Shape(run[s], counters) /\ run[s].stage # "free"
<1>1. run[s].stage # "free" /\ Finish(s)
  BY DEF CacheReceipt, Fail
<1> QED BY <1>1, Becomes, ActiveRun DEF Finish

-----------------------------------------------------------------------------
(* Types.                                                                  *)
LEMMA InitTypes == EvmInit => EvmTypes
<1> SUFFICES ASSUME EvmInit PROVE EvmTypes
  OBVIOUS
<1>1. GoodCounters(counters)
  BY DEF EvmInit, GoodCounters
<1>2. GoodRows(drawings, counters)
  BY DEF EvmInit, GoodRows
<1>3. GoodLog(events, counters)
  BY FS_EmptySet DEF EvmInit, GoodLog
<1>4. GoodRuns(run, counters)
  BY DEF EvmInit, GoodRuns
<1> QED BY <1>1, <1>2, <1>3, <1>4 DEF EvmTypes

\* A step that leaves the tables alone.
LEMMA TypesMove ==
  ASSUME EvmTypes, NEW s \in Slots, Others(s), GoodCounters(counters'), UNCHANGED <<drawings, events>>,
         counters.block <= counters'.block, counters.next <= counters'.next,
         run'[s] = Vacant \/ (IsRun(run'[s]) /\ Shape(run'[s], counters'))
  PROVE  EvmTypes'
<1>1. GoodRuns(run', counters')
  BY RunsStep
<1>2. GoodRows(drawings', counters') /\ GoodLog(events', counters')
  BY RowsGrow, LogGrows DEF EvmTypes
<1> QED BY <1>1, <1>2 DEF EvmTypes

LEMMA SameCounters == ASSUME EvmTypes, UNCHANGED counters
  PROVE  GoodCounters(counters') /\ counters.block <= counters'.block /\ counters.next <= counters'.next
  BY DEF EvmTypes, GoodCounters

LEMMA NextCounters == ASSUME EvmTypes, NEW s, nextTokenAndBlock(s) \/ tickBlock(s)
  PROVE  /\ GoodCounters(counters') /\ counters.block <= counters'.block /\ counters.next <= counters'.next
         /\ counters'.block = counters.block + 1 /\ counters.block \in Nat /\ counters.next \in Nat \ {0}
         /\ nextTokenAndBlock(s) => counters'.next = counters.next + 1
         /\ tickBlock(s) => counters'.next = counters.next
<1>1. counters = [next |-> counters.next, block |-> counters.block]
      /\ counters.next \in Nat \ {0} /\ counters.block \in Nat
  BY DEF EvmTypes, GoodCounters
<1>2. CASE nextTokenAndBlock(s)
  <2>1. counters' = [next |-> counters.next + 1, block |-> counters.block + 1]
    BY <1>2 DEF nextTokenAndBlock
  <2>2. ~ tickBlock(s)
    BY <1>2 DEF nextTokenAndBlock, tickBlock
  <2> QED BY <1>1, <2>1, <2>2 DEF GoodCounters
<1>3. CASE tickBlock(s)
  <2>1. counters' = [counters EXCEPT !.block = @ + 1]
    BY <1>3 DEF tickBlock
  <2>2. ~ nextTokenAndBlock(s)
    BY <1>3 DEF nextTokenAndBlock, tickBlock
  <2> QED BY <1>1, <2>1, <2>2 DEF GoodCounters
<1> QED BY <1>2, <1>3

LEMMA TypesSend ==
  ASSUME EvmTypes, NEW s \in Slots, NEW t \in Raw, handleSendRawTransaction(s, t)
  PROVE  EvmTypes'
<1>1. Shape(run'[s], counters')
  BY SendRun DEF Shape
<1>2. UNCHANGED <<counters, drawings, events>>
  BY DEF handleSendRawTransaction
<1> QED BY <1>1, <1>2, SendRun, SameCounters, TypesMove

LEMMA TypesClaim ==
  ASSUME EvmTypes, NEW s \in Slots, nextTokenAndBlock(s)
  PROVE  EvmTypes'
<1>1. UNCHANGED <<drawings, events>>
  BY DEF nextTokenAndBlock
<1>2. run'[s].token \in 1 .. counters'.next - 1 /\ run'[s].block \in 1 .. counters'.block
  BY NextCounters, ClaimRun
<1>3. Shape(run'[s], counters')
  BY <1>2, ClaimRun DEF Shape
<1> QED BY <1>1, <1>3, ClaimRun, NextCounters, TypesMove

LEMMA TypesSelect ==
  ASSUME EvmTypes, NEW s \in Slots, SelectRow(s)
  PROVE  EvmTypes'
<1>1. UNCHANGED <<counters, drawings, events>>
  BY DEF SelectRow
<1>2. run'[s] = Vacant \/ (IsRun(run'[s]) /\ Shape(run'[s], counters'))
  <2>1. CASE run[s].tx.fn = "publish"
    <3> DEFINE cur == currentSnapshotOf(Pair(run[s]))
               q == publish(cur, run[s].token)
    <3>1. cur \in 0 .. counters.next - 1 /\ counters.next \in Nat
      BY RowFacts DEF EvmTypes, GoodCounters
    <3>2. run[s].token \in 1 .. counters.next - 1 /\ run'[s].todo = q
      BY <2>1, SelectPublish
    <3> HIDE DEF cur
    <3>3. PublishTodo(q, run[s].token) /\ \A i \in DOMAIN q : q[i].token \in 0 .. counters.next - 1
      BY <3>1, <3>2, PublishBegins
    <3> HIDE DEF q
    <3> QED BY <1>1, <2>1, <3>2, <3>3, SelectPublish DEF Shape
  <2>2. CASE run[s].tx.fn # "publish"
    <3>1. \A p \in DOMAIN drawings : drawings[p] \in 1 .. counters.next - 1
      BY DEF EvmTypes, GoodRows
    <3> QED BY <1>1, <2>2, <3>1, SelectRemove DEF Shape
  <2> QED BY <2>1, <2>2
<1>3. Others(s)
  BY SelectPublish, SelectRemove
<1> QED BY <1>1, <1>2, <1>3, SameCounters, TypesMove

LEMMA TypesTick ==
  ASSUME EvmTypes, NEW s \in Slots, tickBlock(s)
  PROVE  EvmTypes'
<1>1. UNCHANGED <<drawings, events>>
  BY DEF tickBlock
<1>2. run'[s].token \in 1 .. counters'.next - 1 /\ run'[s].block \in 1 .. counters'.block
  BY NextCounters, TickRun
<1>3. run[s].token \in Nat \ {0} /\ run'[s].todo \in {deleteForMarket(run[s].token), burn(run[s].token)}
  BY TickRun DEF EvmTypes, GoodCounters
<1>4. RemoveTodo(run'[s].todo, run[s].token) /\ \A i \in DOMAIN run'[s].todo : run'[s].todo[i].token \in {0, run[s].token}
  BY <1>3, RemoveBegins
<1>5. {0, run[s].token} \subseteq 0 .. counters'.next - 1
  BY NextCounters, TickRun
<1>6. Shape(run'[s], counters')
  BY <1>2, <1>4, <1>5, TickRun DEF Shape
<1> QED BY <1>1, <1>6, TickRun, NextCounters, TypesMove

LEMMA StatementShape ==
  ASSUME EvmTypes, NEW s \in Slots, WriteRow(s) \/ emitEvent(s)
  PROVE  Shape(run'[s], counters)
<1> DEFINE q == run[s].todo
<1>1. \A i \in DOMAIN Tail(q) : Tail(q)[i].token \in 0 .. counters.next - 1
  <2>1. \A i \in DOMAIN q : q[i].token \in 0 .. counters.next - 1
    BY StatementRun DEF Shape
  <2>2. \A i \in DOMAIN Tail(q) : i + 1 \in DOMAIN q /\ Tail(q)[i] = q[i + 1]
    BY StatementRun, TodoSteps
  <2> QED BY <2>1, <2>2
<1>2. CASE run[s].tx.fn = "publish"
  <2>1. PublishTodo(Tail(q), run[s].token)
    BY <1>2, StatementRun, PublishSteps DEF Shape
  <2> QED BY <1>1, <1>2, <2>1, StatementRun DEF Shape
<1>3. CASE run[s].tx.fn # "publish"
  <2>1. RemoveTodo(Tail(q), run[s].token)
    BY <1>3, StatementRun, RemoveSteps DEF Shape
  <2> QED BY <1>1, <1>3, <2>1, StatementRun DEF Shape
<1> QED BY <1>2, <1>3

\* What a write leaves of the rows.
LEMMA WriteRows ==
  ASSUME EvmTypes, NEW s \in Slots, WriteRow(s), NEW p, p = Pair(run[s]), NEW w, w = Head(run[s].todo)
  PROVE  /\ GoodRows(drawings', counters)
         /\ \A q \in Pairs \ {p} : Row(drawings', q) = Row(drawings, q)
         /\ \A q \in DOMAIN drawings' : (q \in DOMAIN drawings /\ drawings'[q] = drawings[q])
                                          \/ (q = p /\ drawings'[q] = w.token)
         /\ w.op = "upsert" => Row(drawings', p) = w.token
         /\ w.op # "upsert" /\ w.token \in {0, Row(drawings, p)} => Row(drawings', p) = 0
<1>1. p \in Pairs
  BY ActiveRun DEF WriteRow
<1>2. GoodRows(drawings, counters) /\ DOMAIN drawings \subseteq Pairs
  BY DEF EvmTypes, GoodRows
<1>3. w.op = "upsert" => w.token \in 1 .. counters.next - 1
  <2>1. CASE run[s].tx.fn = "publish" /\ Len(run[s].todo) = 3
    <3> DEFINE q == run[s].todo
    <3>1. PublishTodo(q, run[s].token) /\ q # <<>>
      BY <2>1, StatementRun DEF Shape
    <3>2. w.token = run[s].token
      <4>1. w = Head(q) /\ Len(q) = 3
        BY <2>1
      <4> HIDE DEF q
      <4> QED BY <3>1, <4>1, UpsertStep
    <3> QED BY <3>2, StatementRun
  <2>2. CASE run[s].tx.fn = "publish" /\ Len(run[s].todo) # 3
    BY <2>2, StatementRun, PublishSteps DEF Shape
  <2>3. CASE run[s].tx.fn # "publish"
    BY <2>3, StatementRun, RemoveSteps DEF Shape
  <2> QED BY <2>1, <2>2, <2>3
<1> DEFINE cur == Row(drawings, p)
           with == [q \in DOMAIN drawings \cup {p} |-> IF q = p THEN w.token ELSE drawings[q]]
           without == [q \in DOMAIN drawings \ {p} |-> drawings[q]]
<1>4. drawings' = IF w.op = "upsert" THEN with ELSE IF w.token \in {0, cur} THEN without ELSE drawings
  BY RowFacts DEF WriteRow
<1> HIDE DEF cur
<1>5. CASE w.op = "upsert"
  <2>1. drawings' = with
    BY <1>4, <1>5
  <2>2. GoodRows(with, counters)
    BY <1>1, <1>2, <1>3, <1>5 DEF GoodRows
  <2>3. \A q : q # p => Row(with, q) = Row(drawings, q)
    BY DEF Row
  <2>4. Row(with, p) = w.token
    BY DEF Row
  <2>5. \A q \in DOMAIN with : (q \in DOMAIN drawings /\ with[q] = drawings[q]) \/ (q = p /\ with[q] = w.token)
    OBVIOUS
  <2> HIDE DEF with
  <2> QED BY <1>5, <2>1, <2>2, <2>3, <2>4, <2>5
<1>6. CASE w.op # "upsert" /\ w.token \in {0, cur}
  <2>1. drawings' = without
    BY <1>4, <1>6
  <2>2. GoodRows(without, counters)
    BY <1>2 DEF GoodRows
  <2>3. \A q : q # p => Row(without, q) = Row(drawings, q)
    BY DEF Row
  <2>4. Row(without, p) = 0
    BY DEF Row
  <2>5. \A q \in DOMAIN without : q \in DOMAIN drawings /\ without[q] = drawings[q]
    OBVIOUS
  <2> HIDE DEF without
  <2> QED BY <1>6, <2>1, <2>2, <2>3, <2>4, <2>5
<1>7. CASE w.op # "upsert" /\ w.token \notin {0, cur}
  <2>1. drawings' = drawings
    BY <1>4, <1>7
  <2> QED BY <1>2, <1>7, <2>1 DEF cur
<1> QED BY <1>5, <1>6, <1>7

LEMMA TypesWrite ==
  ASSUME EvmTypes, NEW s \in Slots, WriteRow(s)
  PROVE  EvmTypes'
<1>1. UNCHANGED <<counters, events>>
  BY DEF WriteRow
<1>2. GoodRuns(run', counters')
  BY <1>1, StatementRun, StatementShape, SameCounters, RunsStep
<1>3. GoodRows(drawings', counters)
  BY WriteRows
<1> QED BY <1>1, <1>2, <1>3 DEF EvmTypes

\* The event that a statement adds.
NewEvent(s) == [block |-> run[s].block, tx |-> run[s].tx, index |-> Cardinality(EventsOf(events, run[s].block)),
                kind |-> Head(run[s].todo).kind, token |-> Head(run[s].todo).token]

LEMMA EmitEvent ==
  ASSUME EvmTypes, NEW s \in Slots, emitEvent(s)
  PROVE  events' = events \cup {NewEvent(s)} /\ Head(run[s].todo).op = "event"
  BY DEF emitEvent, NewEvent, EventsOf

LEMMA HeadToken ==
  ASSUME EvmTypes, NEW s \in Slots, emitEvent(s)
  PROVE  Head(run[s].todo).token \in 1 .. counters.next - 1
<1> DEFINE q == run[s].todo
<1>1. Head(q).token \in 0 .. counters.next - 1
  BY StatementRun, TodoSteps DEF Shape
<1>2. Head(q).token # 0
  <2>1. run[s].token # 0 /\ Head(q).op = "event"
    BY StatementRun, EmitEvent DEF EvmTypes, GoodCounters
  <2>2. CASE run[s].tx.fn = "publish"
    <3>1. PublishTodo(q, run[s].token) /\ q # <<>>
      BY <2>2, StatementRun DEF Shape
    <3> HIDE DEF q
    <3>2. Len(q) \in 1 .. 5 /\ Head(q) = q[1]
      BY <3>1, PublishSteps
    <3>3. CASE Len(q) \in {1, 2, 3}
      BY <2>1, <3>1, <3>3, PublishSteps
    <3>4. CASE Len(q) \in {4, 5}
      BY <3>1, <3>4, PublishSteps
    <3> QED BY <3>2, <3>3, <3>4
  <2>3. CASE run[s].tx.fn # "publish"
    <3>1. RemoveTodo(q, run[s].token) /\ q # <<>>
      BY <2>3, StatementRun DEF Shape
    <3> HIDE DEF q
    <3>2. Len(q) # 3 /\ Len(q) \in 1 .. 3
      BY <2>1, <3>1, RemoveSteps
    <3>3. Len(q) \in {1, 2}
      BY <3>2
    <3> QED BY <2>1, <3>1, <3>3, RemoveSteps
  <2> QED BY <2>2, <2>3
<1> QED BY <1>1, <1>2 DEF EvmTypes, GoodCounters

LEMMA TypesEmit ==
  ASSUME EvmTypes, NEW s \in Slots, emitEvent(s)
  PROVE  EvmTypes'
<1>1. UNCHANGED <<counters, drawings>>
  BY DEF emitEvent
<1>2. GoodRuns(run', counters')
  BY <1>1, StatementRun, StatementShape, SameCounters, RunsStep
<1>3. GoodLog(events', counters)
  <2>1. IsEvent(NewEvent(s), counters)
    BY StatementRun, HeadToken DEF IsEvent, NewEvent, IsRun
  <2>2. IsFiniteSet(events \cup {NewEvent(s)})
    BY FS_AddElement DEF EvmTypes, GoodLog
  <2> QED BY <2>1, <2>2, EmitEvent DEF EvmTypes, GoodLog
<1> QED BY <1>1, <1>2, <1>3 DEF EvmTypes

LEMMA TypesEnd ==
  ASSUME EvmTypes, NEW s \in Slots, CacheReceipt(s) \/ Fail(s)
  PROVE  EvmTypes'
<1>1. UNCHANGED <<counters, drawings, events>>
  BY DEF CacheReceipt, Fail
<1> QED BY <1>1, EndRun, SameCounters, TypesMove

LEMMA TypesRestart == ASSUME EvmTypes, Restart PROVE EvmTypes'
  BY DEF Restart, EvmTypes, GoodRuns

LEMMA TypesSame == ASSUME EvmTypes, UNCHANGED <<counters, drawings, events, run>> PROVE EvmTypes'
  BY DEF EvmTypes

-----------------------------------------------------------------------------
(* Blocks: one for each transaction, numbered without gaps.                *)
LEMMA NumberedAdd ==
  ASSUME NEW E, IsFiniteSet(E), Numbered(E), NEW n, n.index = Cardinality(E)
  PROVE  Numbered(E \cup {n}) /\ Cardinality(E \cup {n}) = Cardinality(E) + 1
<1>1. Cardinality(E) \in Nat
  BY FS_CardinalityType
<1>2. n \notin E
  BY <1>1 DEF Numbered
<1>3. Cardinality(E \cup {n}) = Cardinality(E) + 1
  BY <1>2, FS_AddElement
<1>4. {e.index : e \in E \cup {n}} = {e.index : e \in E} \cup {Cardinality(E)}
  OBVIOUS
<1>5. (0 .. Cardinality(E) - 1) \cup {Cardinality(E)} = 0 .. Cardinality(E)
  BY <1>1
<1> QED BY <1>1, <1>3, <1>4, <1>5 DEF Numbered

\* The block that a step of a transaction leaves it in, and the events there.
BlockKept(s) == run[s].stage # "free" /\ run'[s].block = run[s].block
BlockTaken(s) == run'[s].block = counters.block + 1 /\ counters'.block = counters.block + 1

SlotStep(s) ==
  \/ (\E t \in Raw : handleSendRawTransaction(s, t)) \/ nextTokenAndBlock(s) \/ SelectRow(s) \/ tickBlock(s)
  \/ WriteRow(s) \/ CacheReceipt(s) \/ Fail(s)

LEMMA SlotOthers ==
  ASSUME EvmTypes, NEW s \in Slots, SlotStep(s) \/ emitEvent(s)
  PROVE  Others(s) /\ run'[s].block \in Nat
<1>1. ASSUME NEW t \in Raw, handleSendRawTransaction(s, t) PROVE Others(s) /\ run'[s].block \in Nat
  BY <1>1, SendRun
<1>2. CASE nextTokenAndBlock(s)
  BY <1>2, ClaimRun DEF EvmTypes, GoodCounters
<1>3. CASE SelectRow(s)
  BY <1>3, SelectPublish, SelectRemove, VacantFree DEF EvmTypes, GoodCounters
<1>4. CASE tickBlock(s)
  BY <1>4, TickRun DEF EvmTypes, GoodCounters
<1>5. CASE WriteRow(s) \/ emitEvent(s)
  BY <1>5, StatementRun DEF EvmTypes, GoodCounters
<1>6. CASE CacheReceipt(s) \/ Fail(s)
  BY <1>6, EndRun, VacantFree
<1> QED BY <1>1, <1>2, <1>3, <1>4, <1>5, <1>6 DEF SlotStep

LEMMA BlockStep ==
  ASSUME EvmTypes, NEW s \in Slots, SlotStep(s)
  PROVE  /\ events' = events
         /\ counters.block <= counters'.block /\ counters'.block \in Nat
         /\ \/ run'[s].block = 0
            \/ BlockKept(s) /\ ((run'[s].stage = "run" /\ SelectRow(s)) \/ WriteRow(s))
            \/ BlockTaken(s) /\ (nextTokenAndBlock(s) \/ tickBlock(s))
<1>0. UNCHANGED counters => counters.block <= counters'.block /\ counters'.block \in Nat
  BY SameCounters DEF GoodCounters
<1>1. ASSUME NEW t \in Raw, handleSendRawTransaction(s, t)
      PROVE  events' = events /\ UNCHANGED counters /\ run'[s].block = 0
  BY <1>1, SendRun DEF handleSendRawTransaction
<1>2. CASE nextTokenAndBlock(s)
  <2>1. events' = events
    BY <1>2 DEF nextTokenAndBlock
  <2> QED BY <1>2, <2>1, ClaimRun, NextCounters DEF BlockTaken
<1>3. CASE SelectRow(s)
  <2>1. events' = events /\ UNCHANGED counters /\ run[s].stage # "free"
    BY <1>3 DEF SelectRow
  <2>2. run[s].tx.fn = "publish" => run'[s].block = run[s].block /\ run'[s].stage = "run"
    BY <1>3, SelectPublish
  <2>3. run[s].tx.fn # "publish" => run'[s].block = 0
    BY <1>3, SelectRemove, VacantFree
  <2> QED BY <1>0, <1>3, <2>1, <2>2, <2>3 DEF BlockKept
<1>4. CASE tickBlock(s)
  <2>1. events' = events
    BY <1>4 DEF tickBlock
  <2> QED BY <1>4, <2>1, TickRun, NextCounters DEF BlockTaken
<1>5. CASE WriteRow(s)
  <2>1. events' = events /\ UNCHANGED counters
    BY <1>5 DEF WriteRow
  <2> QED BY <1>0, <1>5, <2>1, StatementRun DEF BlockKept
<1>6. CASE CacheReceipt(s) \/ Fail(s)
  <2>1. events' = events /\ UNCHANGED counters
    BY <1>6 DEF CacheReceipt, Fail
  <2> QED BY <1>0, <1>6, <2>1, EndRun, VacantFree
<1> QED BY <1>0, <1>1, <1>2, <1>3, <1>4, <1>5, <1>6 DEF SlotStep

\* The events of a transaction's block after a step that emits none.
LEMMA StillEmitted ==
  ASSUME EvmTypes, Blocks, NEW s \in Slots, SlotStep(s), run'[s].block # 0
  PROVE  Emitted(run'[s], EventsOf(events, run'[s].block))
<1>1. CASE BlockTaken(s) /\ (nextTokenAndBlock(s) \/ tickBlock(s))
  <2>1. EventsOf(events, run'[s].block) = {}
    BY <1>1 DEF BlockTaken, EvmTypes, GoodLog, IsEvent, EventsOf, GoodCounters
  <2>2. CASE nextTokenAndBlock(s)
    BY <2>1, <2>2, ClaimRun DEF Emitted
  <2>3. CASE tickBlock(s)
    <3>1. run[s].token \in Nat \ {0}
      BY <2>3, TickRun DEF EvmTypes, GoodCounters
    <3>2. Len(run'[s].todo) = 3 /\ run'[s].stage = "run"
      BY <2>3, <3>1, TickRun, RemoveBegins
    <3>3. Left(run'[s].todo) = 2 /\ run'[s].todo # <<>>
      BY <3>2, NoSteps DEF Left
    <3>4. Cardinality({}) = 0 /\ Numbered({})
      BY FS_EmptySet DEF Numbered
    <3> QED BY <2>1, <3>2, <3>3, <3>4 DEF Emitted
  <2> QED BY <1>1, <2>2, <2>3
<1>2. CASE SelectRow(s) /\ run'[s].stage = "run"
  <2>1. run[s].tx.fn = "publish"
    BY <1>2, SelectRemove, VacantFree
  <2> DEFINE cur == currentSnapshotOf(Pair(run[s]))
  <2>2. cur \in Nat /\ run[s].token \in Nat \ {0}
    BY <1>2, <2>1, RowFacts, SelectPublish DEF EvmTypes, GoodCounters
  <2>3. run'[s].todo = publish(cur, run[s].token) /\ run'[s].block = run[s].block
    BY <1>2, <2>1, SelectPublish
  <2>4. EventsOf(events, run[s].block) = {}
    BY <1>2, <2>3 DEF Blocks, Emitted, Active, SelectRow
  <2> HIDE DEF cur
  <2>5. Len(publish(cur, run[s].token)) \in {3, 5}
    BY <2>2, PublishBegins
  <2> DEFINE q == run'[s].todo
  <2>6. Left(q) \in {2, 4} /\ q # <<>>
    <3>1. Len(q) \in {3, 5}
      BY <2>3, <2>5
    <3> HIDE DEF q
    <3> QED BY <3>1, Len(<<>>) = 0 DEF Left
  <2>7. Cardinality({}) = 0 /\ Numbered({})
    BY FS_EmptySet DEF Numbered
  <2> QED BY <1>2, <2>3, <2>4, <2>6, <2>7 DEF Emitted
<1>3. CASE WriteRow(s)
  <2>1. Emitted(run[s], EventsOf(events, run[s].block)) /\ Head(run[s].todo).op # "event"
    BY <1>3, StatementRun DEF Blocks, Active, WriteRow
  <2>2. /\ run'[s].stage = "run" /\ run'[s].tx = run[s].tx /\ run'[s].block = run[s].block
        /\ run'[s].todo = Tail(run[s].todo) /\ run[s].stage = "run" /\ run[s].todo # <<>>
        /\ Shape(run[s], counters)
    BY <1>3, StatementRun
  <2>3. PICK r : r = run[s]
    OBVIOUS
  <2>4. Left(Tail(r.todo)) = Left(r.todo) /\ Tail(r.todo) # <<>>
    BY <2>1, <2>2, <2>3, TodoSteps
  <2> QED BY <1>3, <2>1, <2>2, <2>3, <2>4 DEF Emitted
<1> QED BY <1>1, <1>2, <1>3, BlockStep

LEMMA BlocksStep ==
  ASSUME EvmTypes, Blocks, NEW s \in Slots, SlotStep(s)
  PROVE  Blocks'
<1>1. \A x \in Slots \ {s} : run'[x] = run[x]
  BY SlotOthers DEF Others
<1>2. \A x \in Active' : x # s => x \in Active
  BY <1>1 DEF Active
<1>3. ASSUME NEW x \in Active', run'[x].block # 0 PROVE Emitted(run'[x], EventsOf(events', run'[x].block))
  <2>1. CASE x = s
    BY <1>3, <2>1, StillEmitted, BlockStep
  <2>2. CASE x # s
    BY <1>1, <1>2, <1>3, <2>2, BlockStep DEF Blocks, Active
  <2> QED BY <2>1, <2>2
<1>4. ASSUME NEW x \in Active', x # s, run'[s].block # 0 PROVE run'[x].block # run'[s].block
  <2>1. run'[x] = run[x] /\ x \in Active /\ x \in Slots
    BY <1>1, <1>2, <1>4 DEF Active
  <2>2. run[x].block \in 0 .. counters.block /\ counters.block \in Nat
    BY <2>1, ActiveRun DEF Active, EvmTypes, GoodCounters
  <2> QED BY <1>4, <2>1, <2>2, BlockStep DEF BlockKept, BlockTaken, Blocks, Active
<1>5. ASSUME NEW x \in Active', NEW y \in Active', run'[x].block # 0, run'[x].block = run'[y].block PROVE x = y
  BY <1>1, <1>2, <1>4, <1>5 DEF Blocks, Active
<1> QED BY <1>3, <1>5 DEF Blocks

LEMMA BlocksEmit ==
  ASSUME EvmTypes, Blocks, NEW s \in Slots, emitEvent(s)
  PROVE  Blocks'
<1> DEFINE n == NewEvent(s)
           b == run[s].block
           E == EventsOf(events, b)
<1>1. \A x \in Slots \ {s} : run'[x] = run[x]
  BY StatementRun DEF Others
<1>2. /\ run'[s].stage = "run" /\ run[s].stage = "run" /\ run'[s].block = b /\ run'[s].tx = run[s].tx /\ b # 0
      /\ run'[s].todo = Tail(run[s].todo) /\ run[s].todo # <<>>
  BY StatementRun DEF EvmTypes, GoodCounters
<1>3. Active' = Active /\ s \in Active
  BY <1>1, <1>2 DEF Active
<1>4. events' = events \cup {n} /\ n.block = b /\ n.tx = run[s].tx /\ n.index = Cardinality(E)
      /\ n.kind = Head(run[s].todo).kind
  BY EmitEvent DEF NewEvent
<1> HIDE DEF n
<1>5. EventsOf(events', b) = E \cup {n} /\ \A d : d # b => EventsOf(events', d) = EventsOf(events, d)
  BY <1>4 DEF EventsOf
<1>6. Emitted(run[s], E) /\ IsFiniteSet(E)
  <2>1. IsFiniteSet(events) /\ E \subseteq events
    BY DEF EvmTypes, GoodLog, EventsOf
  <2> QED BY <1>2, <1>3, <2>1, FS_Subset DEF Blocks
<1> HIDE DEF E, b
<1>7. Emitted(run'[s], E \cup {n})
  <2>1. Numbered(E \cup {n}) /\ Cardinality(E \cup {n}) = Cardinality(E) + 1 /\ Cardinality(E) \in Nat
    BY <1>2, <1>4, <1>6, NumberedAdd, FS_CardinalityType DEF Emitted
  <2>2. Left(run'[s].todo) = Left(run[s].todo) - 1 /\ Left(run[s].todo) \in Nat
    BY <1>2, StatementRun, EmitEvent, TodoSteps
  <2>3. Cardinality(E \cup {n}) + Left(run'[s].todo) \in {2, 4}
    BY <1>2, <1>6, <2>1, <2>2 DEF Emitted
  <2>4. \A e \in E \cup {n} : e.tx = run'[s].tx
    BY <1>2, <1>4, <1>6 DEF Emitted
  <2>5. run'[s].todo = <<>> => n.kind = Final(run'[s].tx)
    <3> SUFFICES ASSUME run'[s].todo = <<>> PROVE n.kind = Final(run[s].tx)
      BY <1>2
    <3> DEFINE q == run[s].todo
    <3>1. Len(q) - 1 = 0 /\ Len(q) \in 1 .. 5
      <4>1. Len(Tail(q)) = Len(q) - 1 /\ Len(q) \in 1 .. 5
        BY StatementRun, TodoSteps
      <4>2. Tail(q) = <<>>
        BY <1>2
      <4> HIDE DEF q
      <4> QED BY <4>1, <4>2, Len(<<>>) = 0
    <3>2. Len(q) = 1 /\ q # <<>>
      BY <1>2, <3>1
    <3>3. CASE run[s].tx.fn = "publish"
      <4>1. PublishTodo(q, run[s].token)
        BY <3>3, StatementRun DEF Shape
      <4> HIDE DEF q
      <4>2. Head(q).kind = "SnapshotPublished"
        BY <3>2, <4>1, PublishSteps
      <4> QED BY <1>4, <3>3, <4>2 DEF Final, q
    <3>4. CASE run[s].tx.fn # "publish"
      <4>1. RemoveTodo(q, run[s].token)
        BY <3>4, StatementRun DEF Shape
      <4> HIDE DEF q
      <4>2. Head(q).kind = "out"
        BY <3>2, <4>1, RemoveSteps
      <4> QED BY <1>4, <3>4, <4>2 DEF Final, q
    <3> QED BY <3>3, <3>4
  <2> QED BY <1>2, <2>1, <2>3, <2>4, <2>5 DEF Emitted
<1>8. ASSUME NEW x \in Active, run'[x].block # 0 PROVE Emitted(run'[x], EventsOf(events', run'[x].block))
  <2>1. CASE x = s
    BY <1>2, <1>5, <1>7, <2>1
  <2>2. CASE x # s
    <3>1. run'[x] = run[x] /\ run[x].block # b
      BY <1>1, <1>2, <1>3, <2>2 DEF Active, Blocks, b
    <3> QED BY <1>5, <1>8, <3>1 DEF Blocks
  <2> QED BY <2>1, <2>2
<1>9. \A x \in Active : run'[x].block = run[x].block
  BY <1>1, <1>2 DEF Active, b
<1> QED BY <1>3, <1>8, <1>9 DEF Blocks

LEMMA BlocksRest ==
  ASSUME EvmTypes, Blocks, Restart \/ UNCHANGED <<events, run>>
  PROVE  Blocks'
<1>1. CASE Restart
  <2>1. \A s \in Slots : run'[s] = Vacant
    BY <1>1 DEF Restart
  <2>2. Active' = {}
    BY <2>1, VacantFree DEF Active
  <2> QED BY <2>2 DEF Blocks
<1>2. CASE UNCHANGED <<events, run>>
  BY <1>2 DEF Blocks, Active
<1> QED BY <1>1, <1>2

-----------------------------------------------------------------------------
(* The receipts.                                                           *)

\* A transaction's step leaves the receipts of others as they are.
LEMMA ReceiptKept ==
  ASSUME EvmTypes, NEW s \in Slots, SlotStep(s) \/ emitEvent(s), NEW x, GoodReceipt(x, counters, events, run)
  PROVE  GoodReceipt(x, counters', events', run')
<1>1. /\ x.block \in 1 .. counters.block /\ counters.block \in Nat /\ (run[s].stage # "free" => run[s].block # x.block)
      /\ \A y \in Slots \ {s} : run'[y] = run[y]
  BY SlotOthers DEF GoodReceipt, Others, EvmTypes, GoodCounters
<1>2. ASSUME run'[s].block # x.block PROVE \A y \in Slots : run'[y].stage # "free" => run'[y].block # x.block
  BY <1>1, <1>2 DEF GoodReceipt
<1>3. CASE SlotStep(s)
  <2>1. events' = events /\ counters.block <= counters'.block /\ counters'.block \in Nat
    BY <1>3, BlockStep
  <2>2. run'[s].block # x.block
    <3>1. run'[s].block = 0 \/ BlockKept(s) \/ BlockTaken(s)
      BY <1>3, BlockStep
    <3> QED BY <1>1, <3>1 DEF BlockKept, BlockTaken
  <2>3. x.block \in 1 .. counters'.block
    BY <1>1, <2>1
  <2> QED BY <1>2, <2>1, <2>2, <2>3 DEF GoodReceipt
<1>4. CASE emitEvent(s)
  <2>1. /\ run[s].stage = "run" /\ run'[s].block = run[s].block
        /\ events' = events \cup {NewEvent(s)} /\ NewEvent(s).block = run[s].block
    BY <1>4, StatementRun, EmitEvent DEF NewEvent
  <2>2. run[s].block # x.block
    BY <1>1, <2>1
  <2>3. EventsOf(events', x.block) = EventsOf(events, x.block)
    BY <2>1, <2>2 DEF EventsOf
  <2>4. counters' = counters
    BY <1>4 DEF emitEvent
  <2> QED BY <1>2, <2>1, <2>2, <2>3, <2>4 DEF GoodReceipt
<1> QED BY <1>3, <1>4

LEMMA CachedStep ==
  ASSUME EvmTypes, Cached, NEW s \in Slots, SlotStep(s) \/ emitEvent(s), UNCHANGED <<receipts, answers>>
  PROVE  Cached'
  BY ReceiptKept DEF Cached

LEMMA CachedNew ==
  ASSUME EvmTypes, Blocks, Cached, NEW s \in Slots, CacheReceipt(s)
  PROVE  Cached'
<1>1. /\ Others(s) /\ run'[s] = Vacant /\ IsRun(run[s]) /\ Shape(run[s], counters)
      /\ run[s].stage = "run" /\ run[s].todo = <<>>
  BY EndRun DEF CacheReceipt
<1> DEFINE b == run[s].block
           new == [tx |-> run[s].tx, block |-> b]
           at == {i \in DOMAIN receipts : receipts[i].tx = run[s].tx}
           put == [i \in DOMAIN receipts |-> IF i \in at THEN new ELSE receipts[i]]
           R == [tx : Tx, block : Nat]
<1>2. receipts' = (IF at = {} THEN Append(receipts, new) ELSE put) /\ UNCHANGED <<counters, events, answers>>
  BY DEF CacheReceipt
<1>3. b \in 1 .. counters.block /\ b \in Nat /\ b # 0
  BY <1>1 DEF Shape, EvmTypes, GoodCounters
<1>4. new.tx = run[s].tx /\ new.block = b /\ new \in R
  BY <1>1, <1>3 DEF IsRun
<1>5. \A x \in Slots \ {s} : run'[x] = run[x]
  BY <1>1 DEF Others
<1>6. \A x \in Slots : run'[x].stage # "free" => run'[x].block # b
  <2> SUFFICES ASSUME NEW x \in Slots, run'[x].stage # "free" PROVE run'[x].block # b
    OBVIOUS
  <2>1. x # s
    BY <1>1, VacantFree
  <2>2. s \in Active /\ x \in Active /\ run'[x] = run[x]
    BY <1>1, <1>5, <2>1 DEF Active
  <2> QED BY <1>3, <2>1, <2>2 DEF Blocks
<1>7. Entire(run[s].tx, EventsOf(events, b)) /\ \A e \in EventsOf(events, b) : e.tx = run[s].tx
  <2>1. Emitted(run[s], EventsOf(events, b))
    BY <1>1, <1>3 DEF Blocks, Active
  <2>2. Left(run[s].todo) = 0
    BY <1>1, NoSteps DEF Left
  <2>3. EventsOf(events, b) \subseteq events /\ IsFiniteSet(events)
    BY DEF EventsOf, EvmTypes, GoodLog
  <2>4. Cardinality(EventsOf(events, b)) \in Nat
    BY <2>3, FS_Subset, FS_CardinalityType
  <2>5. Cardinality(EventsOf(events, b)) \in {2, 4}
    BY <1>1, <2>1, <2>2, <2>4 DEF Emitted
  <2> QED BY <1>1, <2>1, <2>5 DEF Emitted, Entire
<1> HIDE DEF new, b
<1>8. GoodReceipt(new, counters', events', run')
  BY <1>2, <1>3, <1>4, <1>6, <1>7 DEF GoodReceipt
<1>9. \A i \in DOMAIN receipts : GoodReceipt(receipts[i], counters', events', run')
  BY ReceiptKept DEF Cached, SlotStep
<1>10. CASE at = {}
  <2>1. receipts' = Append(receipts, new) /\ receipts \in Seq(R)
    BY <1>2, <1>10 DEF Cached
  <2>2. receipts' \in Seq(R)
    BY <1>4, <2>1
  <2>3. \A i \in DOMAIN receipts' : receipts'[i] = new \/ (i \in DOMAIN receipts /\ receipts'[i] = receipts[i])
    BY <1>4, <2>1
  <2> QED BY <1>2, <1>8, <1>9, <2>2, <2>3 DEF Cached
<1>11. CASE at # {}
  <2>1. receipts' = put /\ receipts \in Seq(R)
    BY <1>2, <1>11 DEF Cached
  <2>2. receipts' \in Seq(R)
    <3> HIDE DEF R
    <3>1. DOMAIN receipts = 1 .. Len(receipts) /\ Len(receipts) \in Nat /\ \A i \in DOMAIN receipts : receipts[i] \in R
      BY <2>1
    <3>2. put \in [1 .. Len(receipts) -> R]
      BY <1>4, <3>1 DEF R
    <3> HIDE DEF put
    <3> QED BY <2>1, <3>1, <3>2
  <2>3. DOMAIN receipts' = DOMAIN receipts /\ \A i \in DOMAIN receipts : receipts'[i] = new \/ receipts'[i] = receipts[i]
    BY <2>1
  <2> QED BY <1>2, <1>8, <1>9, <2>2, <2>3 DEF Cached
<1> QED BY <1>10, <1>11

LEMMA CachedServe ==
  ASSUME EvmTypes, Cached, NEW i \in DOMAIN receipts, handleGetReceipt(i)
  PROVE  Cached'
<1> DEFINE x == receipts[i]
           L == Logs(x.tx)
           R == [tx : Tx, block : Nat]
<1>1. GoodReceipt(x, counters, events, run) /\ receipts \in Seq(R)
  BY DEF Cached
<1>2. UNCHANGED <<counters, events, run>> /\ receipts' \in {Tail(receipts), receipts}
  BY DEF handleGetReceipt
<1>3. answers' = answers \cup {[tx |-> x.tx, block |-> x.block, logs |-> L]}
  BY DEF handleGetReceipt
<1>4. {e \in L : e.block = x.block} = EventsOf(events, x.block)
  BY <1>1 DEF GoodReceipt, Logs, EventsOf
<1> HIDE DEF x, L
<1>5. \A a \in answers' : Entire(a.tx, {e \in a.logs : e.block = a.block})
  <2>1. Entire(x.tx, {e \in L : e.block = x.block})
    BY <1>1, <1>4 DEF GoodReceipt
  <2> DEFINE z == [tx |-> x.tx, block |-> x.block, logs |-> L]
  <2>2. z.tx = x.tx /\ z.block = x.block /\ z.logs = L /\ answers' = answers \cup {z}
    BY <1>3
  <2> HIDE DEF z
  <2>3. Entire(z.tx, {e \in z.logs : e.block = z.block})
    BY <2>1, <2>2
  <2> QED BY <2>2, <2>3 DEF Cached
<1>6. receipts' \in Seq(R) /\ \A j \in DOMAIN receipts' : \E k \in DOMAIN receipts : receipts'[j] = receipts[k]
  <2>1. CASE receipts' = receipts
    BY <1>1, <2>1
  <2>2. CASE receipts' = Tail(receipts)
    <3>1. receipts # <<>>
      OBVIOUS
    <3>2. /\ Tail(receipts) \in Seq(R) /\ Len(Tail(receipts)) = Len(receipts) - 1
          /\ \A j \in 1 .. Len(receipts) - 1 : Tail(receipts)[j] = receipts[j + 1]
          /\ DOMAIN receipts = 1 .. Len(receipts) /\ Len(receipts) \in Nat
      BY <1>1, <3>1, HeadTailProperties
    <3>3. DOMAIN Tail(receipts) = 1 .. Len(receipts) - 1
      BY <3>2
    <3>4. \A j \in 1 .. Len(receipts) - 1 : j + 1 \in DOMAIN receipts
      BY <3>2
    <3> QED BY <2>2, <3>2, <3>3, <3>4
  <2> QED BY <1>2, <2>1, <2>2
<1> QED BY <1>2, <1>5, <1>6 DEF Cached

LEMMA CachedRest ==
  ASSUME EvmTypes, Cached, Restart \/ UNCHANGED <<counters, events, receipts, run, answers>>
  PROVE  Cached'
<1>1. CASE Restart
  <2>1. receipts' = <<>> /\ answers' = answers
    BY <1>1 DEF Restart
  <2>2. <<>> \in Seq([tx : Tx, block : Nat]) /\ DOMAIN <<>> = {}
    OBVIOUS
  <2> QED BY <2>1, <2>2 DEF Cached
<1>2. CASE UNCHANGED <<counters, events, receipts, run, answers>>
  BY <1>2 DEF Cached
<1> QED BY <1>1, <1>2

-----------------------------------------------------------------------------
(* The client that follows the log.                                        *)
LEMMA FollowedStep ==
  ASSUME EvmTypes, Followed, NEW s \in Slots, SlotStep(s) \/ emitEvent(s), UNCHANGED poll
  PROVE  Followed'
<1>1. /\ poll.from \in Nat /\ counters.block \in Nat /\ poll.from <= counters.block + 1
      /\ \A y \in Slots \ {s} : run'[y] = run[y]
      /\ run[s].stage # "free" /\ run[s].block # 0 /\ run[s].block < poll.from => run[s].block \in poll.busy
  BY SlotOthers DEF Others, EvmTypes, GoodCounters, Followed, Active
<1>2. CASE SlotStep(s)
  <2>1. events' = events /\ counters.block <= counters'.block /\ counters'.block \in Nat
    BY <1>2, BlockStep
  <2>2. run'[s].block # 0 /\ run'[s].block < poll.from => run'[s].block \in poll.busy
    <3>1. run'[s].block = 0 \/ BlockKept(s) \/ BlockTaken(s)
      BY <1>2, BlockStep
    <3> QED BY <1>1, <3>1 DEF BlockKept, BlockTaken
  <2>3. \A x \in Active' : x = s \/ (x \in Active /\ run'[x] = run[x])
    BY <1>1 DEF Active
  <2>4. poll.from <= counters'.block + 1
    BY <1>1, <2>1
  <2> QED BY <2>1, <2>2, <2>3, <2>4 DEF Followed
<1>3. CASE emitEvent(s)
  <2>1. /\ run[s].stage = "run" /\ run'[s].block = run[s].block /\ run[s].block # 0
        /\ events' = events \cup {NewEvent(s)} /\ NewEvent(s).block = run[s].block
    BY <1>3, StatementRun, EmitEvent DEF NewEvent, EvmTypes, GoodCounters
  <2>2. counters' = counters
    BY <1>3 DEF emitEvent
  <2>3. \A x \in Active' : (x = s /\ x \in Active) \/ (x \in Active /\ run'[x] = run[x])
    BY <1>1, <2>1 DEF Active
  <2> HIDE DEF NewEvent
  <2> QED BY <1>1, <2>1, <2>2, <2>3 DEF Followed
<1> QED BY <1>2, <1>3

LEMMA FollowedPoll ==
  ASSUME EvmTypes, Followed, handleGetLogs
  PROVE  Followed'
<1> DEFINE more == {e \in events : e.block >= poll.from /\ e.block <= counters.block}
           working == {run[s].block : s \in {x \in Slots : run[x].stage # "free"}}
<1>1. poll' = [from |-> counters.block + 1, got |-> poll.got \cup more, busy |-> poll.busy \cup working]
      /\ UNCHANGED <<counters, events, run>>
  BY DEF handleGetLogs
<1>2. poll'.from = counters.block + 1 /\ poll'.got = poll.got \cup more /\ poll'.busy = poll.busy \cup working
  BY <1>1
<1>3. \A e \in events : e.block \in Nat /\ e.block <= counters.block /\ counters.block \in Nat
  BY DEF EvmTypes, GoodLog, IsEvent, GoodCounters
<1>4. \A s \in Active : run[s].block \in working
  BY DEF Active
<1>5. counters.block \in Nat /\ poll.from \in Nat
  BY DEF EvmTypes, GoodCounters, Followed
<1> HIDE DEF working
<1>6. \A e \in events : e \in poll.got \cup more \/ e.block \in poll.busy
  BY <1>3, <1>5 DEF Followed
<1> HIDE DEF more
<1> QED BY <1>1, <1>2, <1>4, <1>5, <1>6 DEF Followed, Active

LEMMA FollowedRest ==
  ASSUME EvmTypes, Followed, Restart \/ UNCHANGED <<counters, events, run, poll>>
  PROVE  Followed'
<1>1. CASE Restart
  <2>1. UNCHANGED <<counters, events, poll>> /\ \A s \in Slots : run'[s] = Vacant
    BY <1>1 DEF Restart
  <2>2. Active' = {}
    BY <2>1, VacantFree DEF Active
  <2> QED BY <2>1, <2>2 DEF Followed
<1>2. CASE UNCHANGED <<counters, events, run, poll>>
  BY <1>2 DEF Followed, Active
<1> QED BY <1>1, <1>2

-----------------------------------------------------------------------------
(* A token belongs to one pair.                                            *)
LEMMA HomeStep ==
  ASSUME EvmTypes, Home, NEW s \in Slots, Others(s), counters'.next = counters.next,
         \A t \in 1 .. counters.next - 1 : run'[s].stage # "free" /\ Carries(run'[s], t)
            => Holds(Pair(run'[s]), t, drawings, events, run),
         \A q \in DOMAIN drawings' : Holds(q, drawings'[q], drawings, events, run),
         \A e \in events' : e \in events \/ Holds(PairOf(e), e.token, drawings, events, run)
  PROVE  Home'
<1>1. ASSUME NEW q \in Pairs, NEW t \in 1 .. counters.next - 1, Holds(q, t, drawings', events', run')
      PROVE  Holds(q, t, drawings, events, run)
  <2>1. CASE q \in DOMAIN drawings' /\ drawings'[q] = t
    BY <2>1
  <2>2. ASSUME NEW e \in events', PairOf(e) = q, e.token = t PROVE Holds(q, t, drawings, events, run)
    <3>1. CASE e \in events
      BY <2>2, <3>1 DEF Holds
    <3>2. CASE e \notin events
      BY <2>2, <3>2
    <3> QED BY <3>1, <3>2
  <2>3. ASSUME NEW x \in Slots, run'[x].stage # "free", Pair(run'[x]) = q, Carries(run'[x], t)
        PROVE  Holds(q, t, drawings, events, run)
    <3>1. CASE x = s
      BY <2>3, <3>1
    <3>2. CASE x # s
      <4>1. run'[x] = run[x]
        BY <3>2 DEF Others
      <4> QED BY <2>3, <4>1 DEF Holds
    <3> QED BY <3>1, <3>2
  <2> QED BY <1>1, <2>1, <2>2, <2>3 DEF Holds
<1>2. ASSUME NEW p \in Pairs, NEW q \in Pairs, NEW t \in 1 .. counters.next - 1,
             Holds(p, t, drawings', events', run'), Holds(q, t, drawings', events', run')
      PROVE  p = q
  <2>1. Holds(p, t, drawings, events, run) /\ Holds(q, t, drawings, events, run)
    BY <1>1, <1>2
  <2> QED BY <2>1 DEF Home
<1> QED BY <1>2 DEF Home

LEMMA RowHeld == \A q \in DOMAIN drawings : Holds(q, drawings[q], drawings, events, run)
  BY DEF Holds

LEMMA NoneCarried ==
  ASSUME NEW r, r.todo = <<>>
  PROVE  \A t : Carries(r, t) <=> r.token = t
<1>1. DOMAIN <<>> = {}
  OBVIOUS
<1> QED BY <1>1 DEF Carries

LEMMA HomeClaim ==
  ASSUME EvmTypes, Home, NEW s \in Slots, nextTokenAndBlock(s)
  PROVE  Home'
<1> DEFINE n == counters.next
           o == Pair(run[s])
<1>1. /\ Others(s) /\ run'[s].tx = run[s].tx /\ run'[s].token = n /\ run'[s].todo = <<>> /\ counters'.next = n + 1
      /\ n \in Nat \ {0} /\ UNCHANGED <<drawings, events>>
  BY ClaimRun, NextCounters DEF nextTokenAndBlock
<1>2. Pair(run'[s]) = o
  BY <1>1 DEF Pair
<1>3. \A t : Carries(run'[s], t) <=> t = n
  BY <1>1, NoneCarried
<1> HIDE DEF o
<1>4. ASSUME NEW p \in Pairs, NEW t \in 1 .. n, Holds(p, t, drawings', events', run')
      PROVE  (t = n /\ p = o) \/ (t \in 1 .. n - 1 /\ Holds(p, t, drawings, events, run))
  <2>1. CASE p \in DOMAIN drawings' /\ drawings'[p] = t
    BY <1>1, <2>1 DEF Holds, EvmTypes, GoodRows
  <2>2. CASE \E e \in events' : PairOf(e) = p /\ e.token = t
    BY <1>1, <2>2 DEF Holds, EvmTypes, GoodLog, IsEvent
  <2>3. ASSUME NEW x \in Slots, run'[x].stage # "free", Pair(run'[x]) = p, Carries(run'[x], t)
        PROVE  (t = n /\ p = o) \/ (t \in 1 .. n - 1 /\ Holds(p, t, drawings, events, run))
    <3>1. CASE x = s
      BY <1>2, <1>3, <2>3, <3>1
    <3>2. CASE x # s
      <4>1. run'[x] = run[x]
        BY <1>1, <3>2 DEF Others
      <4>2. Shape(run[x], counters)
        BY <2>3, <4>1, ActiveRun
      <4>3. t \in 0 .. n - 1
        BY <1>1, <2>3, <4>1, <4>2, NoneCarried DEF Shape, Carries
      <4> QED BY <1>1, <2>3, <4>1, <4>3 DEF Holds
    <3> QED BY <3>1, <3>2
  <2> QED BY <1>4, <2>1, <2>2, <2>3 DEF Holds
<1>5. ASSUME NEW p \in Pairs, NEW q \in Pairs, NEW t \in 1 .. n,
             Holds(p, t, drawings', events', run'), Holds(q, t, drawings', events', run')
      PROVE  p = q
  BY <1>1, <1>4, <1>5 DEF Home
<1> QED BY <1>1, <1>5 DEF Home

LEMMA HomeSlot ==
  ASSUME EvmTypes, Home, NEW s \in Slots, SlotStep(s)
  PROVE  Home'
<1>0. \A t : run[s].stage # "free" /\ Carries(run[s], t) => Holds(Pair(run[s]), t, drawings, events, run)
  BY DEF Holds
<1>1. ASSUME NEW u \in Raw, handleSendRawTransaction(s, u) PROVE Home'
  <2>1. UNCHANGED <<counters, drawings, events>>
    BY <1>1 DEF handleSendRawTransaction
  <2>2. Others(s) /\ \A t \in 1 .. counters.next - 1 : ~ Carries(run'[s], t)
    BY <1>1, SendRun, NoneCarried
  <2> QED BY <2>1, <2>2, RowHeld, HomeStep
<1>2. CASE nextTokenAndBlock(s)
  BY <1>2, HomeClaim
<1>3. CASE SelectRow(s)
  <2>1. UNCHANGED <<counters, drawings, events>> /\ run[s].stage # "free"
    BY <1>3 DEF SelectRow
  <2>2. CASE run[s].tx.fn = "publish"
    <3> DEFINE cur == currentSnapshotOf(Pair(run[s]))
               q == publish(cur, run[s].token)
    <3>1. cur \in Nat /\ run[s].token \in Nat \ {0}
      BY <1>3, <2>2, RowFacts, SelectPublish DEF EvmTypes, GoodCounters
    <3>2. Others(s) /\ run'[s].tx = run[s].tx /\ run'[s].token = run[s].token /\ run'[s].todo = q
      BY <1>3, <2>2, SelectPublish
    <3>3. Pair(run'[s]) = Pair(run[s])
      BY <3>2 DEF Pair
    <3>4. cur # 0 => Holds(Pair(run[s]), cur, drawings, events, run)
      BY RowFacts, RowHeld
    <3> HIDE DEF cur
    <3>5. \A i \in DOMAIN q : q[i].token \in {cur, run[s].token} \ {0}
      BY <3>1, PublishBegins
    <3> HIDE DEF q
    <3>6. Holds(Pair(run[s]), run[s].token, drawings, events, run)
      BY <1>0, <2>1 DEF Carries
    <3>7. \A t \in 1 .. counters.next - 1 : Carries(run'[s], t) => Holds(Pair(run[s]), t, drawings, events, run)
      BY <3>2, <3>4, <3>5, <3>6 DEF Carries
    <3> QED BY <2>1, <3>2, <3>3, <3>7, RowHeld, HomeStep
  <2>3. CASE run[s].tx.fn # "publish"
    <3>1. Others(s) /\ (run'[s].stage # "free" => /\ run'[s].todo = <<>>
                                                  /\ Holds(Pair(run'[s]), run'[s].token, drawings, events, run))
      BY <1>3, <2>3, SelectRemove, VacantFree, RowHeld
    <3>2. \A t : run'[s].stage # "free" /\ Carries(run'[s], t) => Holds(Pair(run'[s]), t, drawings, events, run)
      BY <3>1, NoneCarried
    <3> QED BY <2>1, <3>1, <3>2, RowHeld, HomeStep
  <2> QED BY <2>2, <2>3
<1>4. CASE tickBlock(s)
  <2>1. UNCHANGED <<drawings, events>> /\ run[s].stage # "free" /\ counters'.next = counters.next
    BY <1>4, NextCounters DEF tickBlock
  <2>2. Others(s) /\ run'[s].tx = run[s].tx /\ run'[s].token = run[s].token /\ run[s].token \in Nat \ {0}
        /\ run'[s].todo \in {deleteForMarket(run[s].token), burn(run[s].token)}
    BY <1>4, TickRun DEF EvmTypes, GoodCounters
  <2>3. Pair(run'[s]) = Pair(run[s])
    BY <2>2 DEF Pair
  <2>4. \A i \in DOMAIN run'[s].todo : run'[s].todo[i].token \in {0, run[s].token}
    BY <2>2, RemoveBegins
  <2>5. Holds(Pair(run[s]), run[s].token, drawings, events, run)
    BY <1>0, <2>1 DEF Carries
  <2>6. \A t \in 1 .. counters.next - 1 : Carries(run'[s], t) => t = run[s].token
    BY <2>2, <2>4 DEF Carries
  <2> QED BY <2>1, <2>2, <2>3, <2>5, <2>6, RowHeld, HomeStep
<1>5. CASE WriteRow(s)
  <2>1. UNCHANGED <<counters, events>>
    BY <1>5 DEF WriteRow
  <2>2. Others(s) /\ run[s].stage = "run" /\ run'[s].tx = run[s].tx /\ run'[s].token = run[s].token /\ run'[s].todo = Tail(run[s].todo)
    BY <1>5, StatementRun
  <2>3. Pair(run'[s]) = Pair(run[s])
    BY <2>2 DEF Pair
  <2>4. /\ \A i \in DOMAIN Tail(run[s].todo) : i + 1 \in DOMAIN run[s].todo /\ Tail(run[s].todo)[i] = run[s].todo[i + 1]
        /\ Head(run[s].todo) = run[s].todo[1] /\ 1 \in DOMAIN run[s].todo
    BY <1>5, StatementRun, TodoSteps
  <2>5. \A t : Carries(run'[s], t) => Carries(run[s], t)
    BY <2>2, <2>4 DEF Carries
  <2>6. Holds(Pair(run[s]), Head(run[s].todo).token, drawings, events, run)
    BY <1>0, <2>2, <2>4 DEF Carries
  <2>7. \A q \in DOMAIN drawings' : Holds(q, drawings'[q], drawings, events, run)
    BY <1>5, <2>6, WriteRows, RowHeld
  <2> QED BY <1>0, <2>1, <2>2, <2>3, <2>5, <2>7, HomeStep
<1>6. CASE CacheReceipt(s) \/ Fail(s)
  <2>1. UNCHANGED <<counters, drawings, events>>
    BY <1>6 DEF CacheReceipt, Fail
  <2> QED BY <1>6, <2>1, EndRun, VacantFree, RowHeld, HomeStep
<1> QED BY <1>1, <1>2, <1>3, <1>4, <1>5, <1>6 DEF SlotStep

LEMMA HomeEmit ==
  ASSUME EvmTypes, Home, NEW s \in Slots, emitEvent(s)
  PROVE  Home'
<1>1. UNCHANGED <<counters, drawings>> /\ events' = events \cup {NewEvent(s)}
  BY EmitEvent DEF emitEvent
<1>2. Others(s) /\ run[s].stage = "run" /\ run'[s].tx = run[s].tx /\ run'[s].token = run[s].token /\ run'[s].todo = Tail(run[s].todo)
  BY StatementRun
<1>3. Pair(run'[s]) = Pair(run[s])
  BY <1>2 DEF Pair
<1>4. /\ \A i \in DOMAIN Tail(run[s].todo) : i + 1 \in DOMAIN run[s].todo /\ Tail(run[s].todo)[i] = run[s].todo[i + 1]
      /\ Head(run[s].todo) = run[s].todo[1] /\ 1 \in DOMAIN run[s].todo
  BY StatementRun, TodoSteps
<1>5. \A t : Carries(run'[s], t) => Carries(run[s], t)
  BY <1>2, <1>4 DEF Carries
<1>6. \A t : Carries(run[s], t) => Holds(Pair(run[s]), t, drawings, events, run)
  BY <1>2 DEF Holds
<1>7. PairOf(NewEvent(s)) = Pair(run[s]) /\ NewEvent(s).token = Head(run[s].todo).token
  BY DEF NewEvent, PairOf, Pair
<1>8. Holds(PairOf(NewEvent(s)), NewEvent(s).token, drawings, events, run)
  BY <1>4, <1>6, <1>7 DEF Carries
<1> HIDE DEF NewEvent
<1> QED BY <1>1, <1>2, <1>3, <1>5, <1>6, <1>8, RowHeld, HomeStep

LEMMA HomeRest ==
  ASSUME EvmTypes, Home, Restart \/ UNCHANGED <<counters, drawings, events, run>>
  PROVE  Home'
<1>1. CASE Restart
  <2>1. UNCHANGED <<counters, drawings, events>> /\ \A s \in Slots : run'[s] = Vacant
    BY <1>1 DEF Restart
  <2>2. \A p, t : Holds(p, t, drawings, events, run') => Holds(p, t, drawings, events, run)
    BY <2>1, VacantFree DEF Holds
  <2> QED BY <2>1, <2>2 DEF Home
<1>2. CASE UNCHANGED <<counters, drawings, events, run>>
  BY <1>2 DEF Home
<1> QED BY <1>1, <1>2

-----------------------------------------------------------------------------
(* What a new event makes of what a log says.                              *)
LEMMA LiveMember ==
  ASSUME NEW E, NEW p, NEW t
  PROVE  t \in Live(E, p) <=> /\ \E m \in E : PairOf(m) = p /\ m.kind = "mint" /\ m.token = t
                              /\ \A e \in E : ~ (e.kind = "out" /\ e.token = t)
<1> DEFINE alive(x) == {y \in E : y.kind = "out" /\ y.token = x.token} = {}
           L == {x \in E : PairOf(x) = p /\ x.kind = "mint" /\ alive(x)}
<1>1. t \in Live(E, p) <=> \E x \in L : t = x.token
  BY DEF Live
<1>2. \A x \in E : alive(x) <=> \A e \in E : ~ (e.kind = "out" /\ e.token = x.token)
  OBVIOUS
<1> HIDE DEF alive
<1>3. \A x : x \in L <=> x \in E /\ PairOf(x) = p /\ x.kind = "mint" /\ alive(x)
  OBVIOUS
<1> HIDE DEF L
<1> QED BY <1>1, <1>2, <1>3

LEMMA LiveSame ==
  ASSUME NEW E, NEW p, NEW n, n.kind \notin {"mint", "out"}
  PROVE  Live(E \cup {n}, p) = Live(E, p)
<1>1. ASSUME NEW t PROVE t \in Live(E \cup {n}, p) <=> t \in Live(E, p)
  BY LiveMember
<1> QED BY <1>1

LEMMA LiveOut ==
  ASSUME NEW E, NEW p, NEW n, n.kind = "out"
  PROVE  Live(E \cup {n}, p) = Live(E, p) \ {n.token}
<1>1. ASSUME NEW t PROVE t \in Live(E \cup {n}, p) <=> t \in Live(E, p) \ {n.token}
  BY LiveMember
<1> QED BY <1>1

LEMMA LiveMint ==
  ASSUME NEW E, NEW p, NEW n, n.kind = "mint", PairOf(n) = p, \A e \in E : e.token # n.token
  PROVE  Live(E \cup {n}, p) = Live(E, p) \cup {n.token}
<1>1. ASSUME NEW t PROVE t \in Live(E \cup {n}, p) <=> t \in Live(E, p) \cup {n.token}
  <2>1. t \in Live(E \cup {n}, p) <=>
          /\ \E m \in E \cup {n} : PairOf(m) = p /\ m.kind = "mint" /\ m.token = t
          /\ \A e \in E \cup {n} : ~ (e.kind = "out" /\ e.token = t)
    BY LiveMember
  <2>2. t \in Live(E, p) <=>
          /\ \E m \in E : PairOf(m) = p /\ m.kind = "mint" /\ m.token = t
          /\ \A e \in E : ~ (e.kind = "out" /\ e.token = t)
    BY LiveMember
  <2> QED BY <2>1, <2>2
<1> QED BY <1>1

LEMMA OnceAdd ==
  ASSUME NEW E, NEW p, NEW n, Once(E, p),
         n.kind = "out" => /\ \A f \in E : ~ (f.kind = "out" /\ f.token = n.token)
                           /\ \E m \in E : m.kind = "mint" /\ m.token = n.token /\ m.block < n.block
  PROVE  Once(E \cup {n}, p)
<1> SUFFICES ASSUME NEW e \in E \cup {n}, PairOf(e) = p, e.kind = "out"
    PROVE  /\ \A f \in E \cup {n} : f.kind = "out" /\ f.token = e.token => f = e
           /\ \E m \in E \cup {n} : m.kind = "mint" /\ m.token = e.token /\ m.block < e.block
  BY DEF Once
<1>1. CASE e = n
  BY <1>1
<1>2. CASE e \in E
  BY <1>2 DEF Once
<1> QED BY <1>1, <1>2

LEMMA SoundOther ==
  ASSUME NEW p, NEW E, NEW cur, NEW B, NEW R, NEW R2, NEW n, Sound(p, E, cur, B, R), \A s \in B : R2[s] = R[s],
         PairOf(n) # p, \A e \in E : PairOf(e) = p => e.token # n.token
  PROVE  Sound(p, E \cup {n}, cur, B, R2)
<1>1. Live(E \cup {n}, p) = Live(E, p)
  <2>1. ASSUME NEW t PROVE t \in Live(E \cup {n}, p) <=> t \in Live(E, p)
    <3>1. t \in Live(E \cup {n}, p) <=>
            /\ \E m \in E \cup {n} : PairOf(m) = p /\ m.kind = "mint" /\ m.token = t
            /\ \A e \in E \cup {n} : ~ (e.kind = "out" /\ e.token = t)
      BY LiveMember
    <3>2. t \in Live(E, p) <=>
            /\ \E m \in E : PairOf(m) = p /\ m.kind = "mint" /\ m.token = t
            /\ \A e \in E : ~ (e.kind = "out" /\ e.token = t)
      BY LiveMember
    <3> QED BY <3>1, <3>2
  <2> QED BY <2>1
<1>2. Once(E \cup {n}, p)
  BY DEF Sound, Once
<1>3. ASSUME NEW r, Phase(p, r, E, cur) PROVE Phase(p, r, E \cup {n}, cur)
  <2>1. Told(E, p, cur) => Told(E \cup {n}, p, cur)
    BY <1>1 DEF Told
  <2>2. Older(E, p, r) => Older(E \cup {n}, p, r)
    BY DEF Older
  <2>3. Unheard(E, p, r.token) => Unheard(E \cup {n}, p, r.token)
    BY DEF Unheard
  <2>4. \A t, k, old : Replaced(p, t, k, old, E, cur) => Replaced(p, t, k, old, E \cup {n}, cur)
    BY <1>1, <2>1 DEF Replaced, Unheard
  <2>5. \A t, k : Removed(p, t, k, E, cur) => Removed(p, t, k, E \cup {n}, cur)
    BY <1>1, <2>1 DEF Removed
  <2> QED BY <1>3, <2>1, <2>2, <2>3, <2>4, <2>5 DEF Phase
<1>4. Told(E, p, cur) => Told(E \cup {n}, p, cur)
  BY <1>1 DEF Told
<1> QED BY <1>2, <1>3, <1>4 DEF Sound

-----------------------------------------------------------------------------
(* The pair that a step is about, and the others.                          *)
LEMMA OneAtWork ==
  ASSUME EvmTypes, Log, NEW s \in Slots, run[s].stage # "free", NEW p, p = Pair(run[s]), p \notin tangled
  PROVE  /\ Working(run, p) = {s} /\ Once(events, p)
         /\ Phase(p, run[s], events, Row(drawings, p))
<1>1. p \in Pairs /\ s \in Working(run, p)
  BY ActiveRun DEF Working
<1> QED BY <1>1 DEF Log, Sound

LEMMA LogOther ==
  ASSUME EvmTypes, Log, NEW s \in Slots, Others(s), events' = events, NEW q \in Pairs \ tangled,
         run[s].stage # "free" => Pair(run[s]) # q, run'[s].stage # "free" => Pair(run'[s]) # q,
         Row(drawings', q) = Row(drawings, q)
  PROVE  Sound(q, events', Row(drawings', q), Working(run', q), run')
<1>1. \A x \in Slots : x # s => run'[x] = run[x]
  BY DEF Others
<1>2. Working(run', q) = Working(run, q) /\ \A x \in Working(run, q) : run'[x] = run[x]
  BY <1>1 DEF Working
<1>3. Sound(q, events, Row(drawings, q), Working(run, q), run)
  BY DEF Log
<1> QED BY <1>2, <1>3 DEF Sound

LEMMA LogKeeps ==
  ASSUME EvmTypes, Log, NEW s \in Slots, Others(s), events' = events, tangled \subseteq tangled',
         NEW p, p = Pair(run[s]), Pair(run'[s]) = p, run[s].stage # "free", run'[s].stage # "free",
         \A q \in Pairs \ {p} : Row(drawings', q) = Row(drawings, q),
         p \notin tangled' /\ Phase(p, run[s], events, Row(drawings, p)) => Phase(p, run'[s], events, Row(drawings', p))
  PROVE  Log'
<1>1. ASSUME NEW q \in Pairs \ tangled', q # p PROVE Sound(q, events', Row(drawings', q), Working(run', q), run')
  BY <1>1, LogOther
<1>2. ASSUME p \notin tangled' PROVE Sound(p, events', Row(drawings', p), Working(run', p), run')
  <2>1. Working(run, p) = {s} /\ Once(events, p) /\ Phase(p, run[s], events, Row(drawings, p))
    BY <1>2, OneAtWork
  <2>2. \A x \in Slots : x # s => run'[x] = run[x]
    BY DEF Others
  <2>3. Working(run', p) = {s}
    BY <2>1, <2>2 DEF Working
  <2> QED BY <1>2, <2>1, <2>3 DEF Sound
<1> QED BY <1>1, <1>2 DEF Log

LEMMA LogEnds ==
  ASSUME EvmTypes, Log, NEW s \in Slots, Others(s), UNCHANGED <<drawings, events>>, tangled \subseteq tangled',
         NEW p, p = Pair(run[s]), run[s].stage # "free", run'[s].stage = "free",
         p \notin tangled' /\ Phase(p, run[s], events, Row(drawings, p)) => Told(events, p, Row(drawings, p))
  PROVE  Log'
<1>1. ASSUME NEW q \in Pairs \ tangled', q # p PROVE Sound(q, events', Row(drawings', q), Working(run', q), run')
  BY <1>1, LogOther
<1>2. ASSUME p \notin tangled' PROVE Sound(p, events', Row(drawings', p), Working(run', p), run')
  <2>1. Working(run, p) = {s} /\ Once(events, p) /\ Phase(p, run[s], events, Row(drawings, p))
    BY <1>2, OneAtWork
  <2>2. \A x \in Slots : x # s => run'[x] = run[x]
    BY DEF Others
  <2>3. Working(run', p) = {}
    BY <2>1, <2>2 DEF Working
  <2> QED BY <1>2, <2>1, <2>3 DEF Sound
<1> QED BY <1>1, <1>2 DEF Log

\* A transaction arrives at a pair, idle or from another pair.
LEMMA LogStarts ==
  ASSUME EvmTypes, Log, NEW s \in Slots, Others(s), UNCHANGED <<drawings, events>>, tangled \subseteq tangled',
         NEW p, p = Pair(run'[s]), run'[s].stage # "free", run[s].stage # "free" => Pair(run[s]) # p,
         \A o : run[s].stage # "free" /\ Pair(run[s]) = o /\ Phase(o, run[s], events, Row(drawings, o))
                  => Told(events, o, Row(drawings, o)),
         p \notin tangled' => Working(run, p) \subseteq {s},
         Told(events, p, Row(drawings, p)) => Phase(p, run'[s], events, Row(drawings, p))
  PROVE  Log'
<1>1. \A x \in Slots : x # s => run'[x] = run[x]
  BY DEF Others
<1>2. ASSUME NEW o \in Pairs \ tangled', run[s].stage # "free", Pair(run[s]) = o
      PROVE  Sound(o, events', Row(drawings', o), Working(run', o), run')
  <2>1. Working(run, o) = {s} /\ Once(events, o) /\ Phase(o, run[s], events, Row(drawings, o))
    BY <1>2, OneAtWork
  <2>2. Working(run', o) = {}
    BY <1>1, <1>2, <2>1 DEF Working
  <2> QED BY <1>2, <2>1, <2>2 DEF Sound
<1>3. ASSUME p \in Pairs \ tangled' PROVE Sound(p, events', Row(drawings', p), Working(run', p), run')
  <2>1. Working(run, p) = {}
    BY <1>3 DEF Working
  <2>2. Once(events, p) /\ Told(events, p, Row(drawings, p))
    BY <1>3, <2>1 DEF Log, Sound
  <2>3. Working(run', p) = {s}
    BY <1>1, <2>1 DEF Working
  <2> QED BY <2>2, <2>3 DEF Sound
<1>4. ASSUME NEW q \in Pairs \ tangled', q # p, run[s].stage # "free" => Pair(run[s]) # q
      PROVE  Sound(q, events', Row(drawings', q), Working(run', q), run')
  BY <1>4, LogOther
<1> QED BY <1>2, <1>3, <1>4 DEF Log

-----------------------------------------------------------------------------
(* What the log and the row say after each step.                           *)
LEMMA AllOlder ==
  ASSUME EvmTypes, NEW p, NEW r, r.block = counters.block + 1
  PROVE  Older(events, p, r)
  BY DEF EvmTypes, GoodLog, IsEvent, GoodCounters, Older

LEMMA LogSend ==
  ASSUME EvmTypes, Log, NEW s \in Slots, NEW t \in Raw, handleSendRawTransaction(s, t)
  PROVE  Log'
<1> DEFINE p == Pair(run'[s])
<1>1. /\ Others(s) /\ run[s] = Vacant /\ run'[s].tx = t /\ run'[s].stage \in {"claim", "select"}
      /\ (run'[s].stage = "claim" <=> t.fn = "publish") /\ run'[s].block = 0
  BY SendRun
<1>2. UNCHANGED <<drawings, events>> /\ p = <<t.from, t.market>>
      /\ tangled' = IF Busy(<<t.from, t.market>>) # {} THEN tangled \cup {<<t.from, t.market>>} ELSE tangled
  BY <1>1 DEF handleSendRawTransaction, Pair
<1>3. run[s].stage = "free" /\ run'[s].stage # "free"
  BY <1>1, VacantFree
<1>4. p \notin tangled' => Working(run, p) \subseteq {s}
  BY <1>2 DEF Busy, Working
<1>5. Told(events, p, Row(drawings, p)) => Phase(p, run'[s], events, Row(drawings, p))
  BY <1>1 DEF Phase
<1>6. tangled \subseteq tangled'
  BY <1>2
<1> HIDE DEF p
<1> QED BY <1>1, <1>2, <1>3, <1>4, <1>5, <1>6, LogStarts DEF p

LEMMA LogClaim ==
  ASSUME EvmTypes, Log, NEW s \in Slots, nextTokenAndBlock(s)
  PROVE  Log'
<1> DEFINE p == Pair(run[s])
<1>1. /\ Others(s) /\ run'[s].stage = "select" /\ run'[s].tx = run[s].tx /\ run[s].tx.fn = "publish"
      /\ run'[s].token = counters.next /\ run'[s].block = counters.block + 1
  BY ClaimRun
<1>2. UNCHANGED <<drawings, events, tangled>> /\ run[s].stage = "claim" /\ Pair(run'[s]) = p
  BY <1>1 DEF nextTokenAndBlock, Pair
<1>3. Row(drawings, p) # counters.next
  BY RowFacts DEF EvmTypes, GoodCounters
<1>4. Unheard(events, p, counters.next) /\ Older(events, p, run'[s])
  BY <1>1, AllOlder DEF Unheard, EvmTypes, GoodLog, IsEvent, GoodCounters
<1> HIDE DEF p
<1>5. Phase(p, run[s], events, Row(drawings, p)) => Phase(p, run'[s], events, Row(drawings, p))
  BY <1>1, <1>2, <1>3, <1>4 DEF Phase
<1> QED BY <1>1, <1>2, <1>5, LogKeeps DEF p

LEMMA LogSelect ==
  ASSUME EvmTypes, Log, NEW s \in Slots, SelectRow(s)
  PROVE  Log'
<1> DEFINE p == Pair(run[s])
           cur == Row(drawings, p)
<1>1. UNCHANGED <<drawings, events>> /\ run[s].stage = "select"
  BY DEF SelectRow
<1>2. CASE run[s].tx.fn = "publish"
  <2> DEFINE q == run'[s].todo
             t == run[s].token
  <2>1. /\ Others(s) /\ run'[s].stage = "run" /\ run'[s].tx = run[s].tx /\ run'[s].token = t
        /\ run'[s].block = run[s].block /\ UNCHANGED tangled
    BY <1>2, SelectPublish
  <2>2. q = publish(cur, t) /\ cur \in Nat /\ t \in Nat \ {0}
    BY <1>2, SelectPublish, RowFacts DEF EvmTypes, GoodCounters
  <2>3. Pair(run'[s]) = p
    BY <2>1 DEF Pair
  <2> HIDE DEF cur, p
  <2>4. (cur # 0 => Len(q) = 5 /\ q[1].token = cur) /\ (cur = 0 => Len(q) = 3)
    BY <2>2, PublishBegins
  <2>5. ASSUME Phase(p, run[s], events, cur) PROVE Phase(p, run'[s], events, cur)
    <3>1. /\ Told(events, p, cur) /\ cur # t /\ Unheard(events, p, t)
          /\ run[s].block # 0 => Older(events, p, run[s])
      BY <1>1, <1>2, <2>5 DEF Phase
    <3>2. run'[s].block # 0 => Older(events, p, run'[s])
      BY <2>1, <3>1 DEF Older
    <3>3. cur = 0 => Live(events, p) = {}
      BY <3>1 DEF Told
    <3>4. Replaced(p, t, Len(q), q[1].token, events, cur)
      <4> HIDE DEF q, t
      <4>1. CASE cur # 0
        BY <2>4, <3>1, <4>1 DEF Replaced
      <4>2. CASE cur = 0
        BY <2>4, <3>1, <3>3, <4>2 DEF Replaced
      <4> QED BY <4>1, <4>2
    <3> QED BY <1>2, <2>1, <3>2, <3>4 DEF Phase
  <2> QED BY <1>1, <2>1, <2>3, <2>5, LogKeeps DEF p, cur
<1>3. CASE run[s].tx.fn # "publish"
  <2>1. Phase(p, run[s], events, cur) => Told(events, p, cur)
    BY <1>1 DEF Phase
  <2>2. CASE run'[s] = Vacant /\ UNCHANGED tangled
    BY <1>1, <1>3, <2>1, <2>2, SelectRemove, VacantFree, LogEnds
  <2>3. CASE ~ (run'[s] = Vacant /\ UNCHANGED tangled)
    <3> DEFINE o == Pair(run'[s])
    <3>1. /\ Others(s) /\ run'[s].stage = "tick" /\ run'[s].block = 0
          /\ o \in DOMAIN drawings /\ run'[s].token = drawings[o]
          /\ \/ o = p /\ UNCHANGED tangled
             \/ tangled' = IF Busy(o) \ {s} # {} THEN tangled \cup {o} ELSE tangled
      BY <1>3, <2>3, SelectRemove
    <3>2. Row(drawings, o) = run'[s].token /\ tangled \subseteq tangled'
      BY <3>1 DEF Row
    <3> HIDE DEF o
    <3>3. Told(events, o, Row(drawings, o)) => Phase(o, run'[s], events, Row(drawings, o))
      BY <3>1, <3>2 DEF Phase
    <3>4. CASE o = p
      BY <1>1, <2>1, <3>1, <3>2, <3>3, <3>4, LogKeeps DEF o
    <3>5. CASE o # p
      <4>1. o \notin tangled' => Working(run, o) \subseteq {s}
        BY <3>1, <3>5 DEF Busy, Working
      <4> QED BY <1>1, <2>1, <3>1, <3>2, <3>3, <3>5, <4>1, LogStarts DEF o
    <3> QED BY <3>4, <3>5
  <2> QED BY <2>2, <2>3
<1> QED BY <1>2, <1>3

LEMMA LogTick ==
  ASSUME EvmTypes, Log, NEW s \in Slots, tickBlock(s)
  PROVE  Log'
<1> DEFINE p == Pair(run[s])
           cur == Row(drawings, p)
<1>1. /\ Others(s) /\ run'[s].stage = "run" /\ run'[s].tx = run[s].tx /\ run[s].tx.fn # "publish"
      /\ run'[s].token = run[s].token /\ run'[s].block = counters.block + 1 /\ run[s].token \in Nat \ {0}
      /\ run'[s].todo \in {deleteForMarket(run[s].token), burn(run[s].token)}
  BY TickRun DEF EvmTypes, GoodCounters
<1>2. UNCHANGED <<drawings, events, tangled>> /\ run[s].stage = "tick" /\ Pair(run'[s]) = p
  BY <1>1 DEF tickBlock, Pair
<1>3. Len(run'[s].todo) = 3
  BY <1>1, RemoveBegins
<1>4. Older(events, p, run'[s])
  BY <1>1, AllOlder
<1> HIDE DEF p, cur
<1>5. Phase(p, run[s], events, cur) => Phase(p, run'[s], events, cur)
  BY <1>1, <1>2, <1>3, <1>4 DEF Phase, Removed
<1> QED BY <1>1, <1>2, <1>5, LogKeeps DEF p, cur

LEMMA LogWrite ==
  ASSUME EvmTypes, Log, NEW s \in Slots, WriteRow(s)
  PROVE  Log'
<1>0. PICK r, r2, p, q, w, t, cur, cur2 :
        /\ r = run[s] /\ r2 = run'[s] /\ p = Pair(r) /\ q = r.todo /\ w = Head(q) /\ t = r.token
        /\ cur = Row(drawings, p) /\ cur2 = Row(drawings', p)
  OBVIOUS
<1>1. /\ Others(s) /\ r2.stage = "run" /\ r.stage = "run" /\ r2.tx = r.tx
      /\ r2.token = t /\ r2.block = r.block /\ r2.todo = Tail(q) /\ q # <<>> /\ t # 0
      /\ (r.tx.fn = "publish" => PublishTodo(q, t)) /\ (r.tx.fn # "publish" => RemoveTodo(q, t))
      /\ r.block # 0
  BY <1>0, StatementRun DEF Shape, EvmTypes, GoodCounters
<1>2. UNCHANGED <<events, tangled>> /\ w.op # "event" /\ Pair(r2) = p
  BY <1>0, <1>1 DEF WriteRow, Pair
<1>3. /\ \A o \in Pairs \ {p} : Row(drawings', o) = Row(drawings, o)
      /\ w.op = "upsert" => cur2 = w.token
      /\ w.op # "upsert" /\ w.token \in {0, cur} => cur2 = 0
  BY <1>0, WriteRows
<1>4. ASSUME Phase(p, r, events, cur) PROVE Phase(p, r2, events, cur2)
  <2>1. Older(events, p, r2)
    <3>1. Older(events, p, r)
      BY <1>1, <1>4 DEF Phase
    <3> QED BY <1>0, <1>1, <3>1 DEF Older
  <2>2. CASE r.tx.fn = "publish"
    <3>1. Len(q) \in 1 .. 5 /\ w.op = IF Len(q) = 3 THEN "upsert" ELSE "event"
      BY <1>0, <1>1, <2>2, PublishSteps
    <3>2. Len(q) = 3
      BY <1>2, <3>1
    <3>3. Len(Tail(q)) = 2
      BY <1>1, <2>2, <3>2, UpsertStep
    <3>4. w.token = t
      BY <1>0, <1>1, <2>2, <3>2, UpsertStep
    <3>5. Unheard(events, p, t) /\ Live(events, p) = {}
      <4>1. Replaced(p, t, Len(q), q[1].token, events, cur)
        BY <1>0, <1>1, <1>4, <2>2 DEF Phase
      <4> QED BY <3>2, <4>1 DEF Replaced
    <3>6. cur2 = t
      BY <1>3, <3>1, <3>2, <3>4
    <3>7. \A old : Replaced(p, t, 2, old, events, cur2)
      BY <3>5, <3>6 DEF Replaced
    <3>8. r2.tx.fn = "publish" /\ Len(r2.todo) = 2 /\ r2.token = t /\ r2.stage = "run"
      BY <1>1, <2>2, <3>3
    <3> QED BY <2>1, <3>7, <3>8 DEF Phase
  <2>3. CASE r.tx.fn # "publish"
    <3>1. w.op = IF Len(q) = 3 THEN "delete" ELSE "event"
      BY <1>0, <1>1, <2>3, RemoveSteps
    <3>2. Len(q) = 3
      BY <1>2, <3>1
    <3>3. Len(Tail(q)) = 2
      BY <1>1, <2>3, <3>2, RemoveSteps
    <3>4. w.token \in {0, t}
      BY <1>0, <1>1, <2>3, <3>2, RemoveSteps
    <3>5. Told(events, p, cur) /\ cur = t
      <4>1. Removed(p, t, Len(q), events, cur)
        BY <1>0, <1>1, <1>4, <2>3 DEF Phase
      <4> QED BY <3>2, <4>1 DEF Removed
    <3>6. Live(events, p) = {t} /\ cur2 = 0
      BY <1>1, <1>3, <3>1, <3>2, <3>4, <3>5 DEF Told
    <3>7. Removed(p, t, 2, events, cur2)
      BY <3>6 DEF Removed
    <3>8. r2.tx.fn # "publish" /\ Len(r2.todo) = 2 /\ r2.token = t /\ r2.stage = "run"
      BY <1>1, <2>3, <3>3
    <3> QED BY <2>1, <3>7, <3>8 DEF Phase
  <2> QED BY <2>2, <2>3
<1> QED BY <1>0, <1>1, <1>2, <1>3, <1>4, LogKeeps

LEMMA LogEnd ==
  ASSUME EvmTypes, Log, NEW s \in Slots, CacheReceipt(s) \/ Fail(s)
  PROVE  Log'
<1> DEFINE p == Pair(run[s])
           cur == Row(drawings, p)
<1>1. Others(s) /\ run'[s] = Vacant /\ run[s].stage # "free"
  BY EndRun
<1>2. UNCHANGED <<drawings, events>> /\ tangled \subseteq tangled'
      /\ (CacheReceipt(s) => run[s].stage = "run" /\ run[s].todo = <<>>) /\ (Fail(s) => p \in tangled')
  BY DEF CacheReceipt, Fail
<1> HIDE DEF p, cur
<1>3. p \notin tangled' /\ Phase(p, run[s], events, cur) => Told(events, p, cur)
  BY <1>2, NoSteps DEF Phase, Replaced, Removed
<1> QED BY <1>1, <1>2, <1>3, VacantFree, LogEnds DEF p, cur

LEMMA LogRest ==
  ASSUME EvmTypes, Log, Restart \/ UNCHANGED <<drawings, events, run, tangled>>
  PROVE  Log'
<1>1. CASE Restart
  <2>1. UNCHANGED <<drawings, events>> /\ \A s \in Slots : run'[s] = Vacant
    BY <1>1 DEF Restart
  <2>2. tangled' = tangled \cup {Pair(run[s]) : s \in {x \in Slots : run[x].stage # "free"}}
    BY <1>1 DEF Restart
  <2>3. ASSUME NEW q \in Pairs \ tangled' PROVE Sound(q, events', Row(drawings', q), Working(run', q), run')
    <3>1. Working(run, q) = {} /\ Working(run', q) = {}
      BY <2>1, <2>2, VacantFree DEF Working
    <3> QED BY <2>1, <2>2, <3>1 DEF Log, Sound
  <2> QED BY <2>3 DEF Log
<1>2. CASE UNCHANGED <<drawings, events, run, tangled>>
  BY <1>2 DEF Log
<1> QED BY <1>1, <1>2

LEMMA EmitFacts ==
  ASSUME EvmTypes, Home, NEW s \in Slots, emitEvent(s), NEW p, p = Pair(run[s]), NEW n, n = NewEvent(s),
         NEW t, t = run[s].token
  PROVE  /\ p \in Pairs /\ PairOf(n) = p /\ n.token \in 1 .. counters.next - 1
         /\ n.block = run[s].block /\ n.token = Head(run[s].todo).token /\ n.kind = Head(run[s].todo).kind
         /\ \A e \in events : PairOf(e) \in Pairs /\ (e.token \in {n.token, t} => PairOf(e) = p)
<1>1. /\ PairOf(n) = p /\ n.block = run[s].block /\ n.token = Head(run[s].todo).token
      /\ n.kind = Head(run[s].todo).kind
  BY DEF NewEvent, PairOf, Pair
<1>2. n.token \in 1 .. counters.next - 1 /\ p \in Pairs /\ t \in 1 .. counters.next - 1 /\ run[s].stage = "run"
  BY <1>1, HeadToken, StatementRun, ActiveRun
<1>3. \A e \in events : PairOf(e) \in Pairs /\ Holds(PairOf(e), e.token, drawings, events, run)
  BY DEF EvmTypes, GoodLog, IsEvent, PairOf, Pairs, Tx, Holds
<1>4. Holds(p, n.token, drawings, events, run)
  <2>1. Carries(run[s], n.token)
    BY <1>1, StatementRun, TodoSteps DEF Carries
  <2> QED BY <1>2, <2>1 DEF Holds
<1>5. Holds(p, t, drawings, events, run)
  BY <1>2 DEF Holds, Carries
<1> QED BY <1>1, <1>2, <1>3, <1>4, <1>5 DEF Home

\* What the pair's own event does to its log.
LEMMA SaysNothing ==
  ASSUME NEW E, NEW p, NEW r, NEW n, n.kind \notin {"mint", "out"}, Once(E, p), Older(E, p, r)
  PROVE  Live(E \cup {n}, p) = Live(E, p) /\ Once(E \cup {n}, p) /\ Older(E \cup {n}, p, r)
<1>1. Older(E \cup {n}, p, r)
  BY DEF Older
<1> QED BY <1>1, LiveSame, OnceAdd

LEMMA SaysGone ==
  ASSUME NEW E, NEW p, NEW r, NEW n, n.kind = "out", n.block = r.block, n.token \in Live(E, p),
         r.tx.fn = "publish" => r.token # n.token, Once(E, p), Older(E, p, r)
  PROVE  Live(E \cup {n}, p) = Live(E, p) \ {n.token} /\ Once(E \cup {n}, p) /\ Older(E \cup {n}, p, r)
<1>1. /\ \E m \in E : PairOf(m) = p /\ m.kind = "mint" /\ m.token = n.token
      /\ \A e \in E : ~ (e.kind = "out" /\ e.token = n.token)
  BY LiveMember
<1>2. PICK m \in E : PairOf(m) = p /\ m.kind = "mint" /\ m.token = n.token
  BY <1>1
<1>3. m.block < n.block
  BY <1>2 DEF Older
<1>4. Once(E \cup {n}, p)
  BY <1>1, <1>2, <1>3, OnceAdd
<1>5. Older(E \cup {n}, p, r)
  BY DEF Older
<1> QED BY <1>4, <1>5, LiveOut

LEMMA SaysCame ==
  ASSUME NEW E, NEW p, NEW r, NEW n, n.kind = "mint", n.token = r.token, r.tx.fn = "publish", PairOf(n) = p,
         \A e \in E : e.token # n.token, Once(E, p), Older(E, p, r)
  PROVE  Live(E \cup {n}, p) = Live(E, p) \cup {n.token} /\ Once(E \cup {n}, p) /\ Older(E \cup {n}, p, r)
<1>1. Older(E \cup {n}, p, r)
  BY DEF Older
<1> QED BY <1>1, LiveMint, OnceAdd

\* A publish, event by event: the old token goes, ...
LEMMA ReplacedBurned ==
  ASSUME NEW E, NEW p, NEW r, NEW t, NEW cur, NEW n, Older(E, p, r), r.tx.fn = "publish", r.token = t,
         t # 0, PairOf(n) = p, n.block = r.block, Once(E, p),
         NEW old, n.kind = "SnapshotBurned", n.token # t, Replaced(p, t, 5, old, E, cur)
  PROVE  /\ Replaced(p, t, 4, old, E \cup {n}, cur)
         /\ Once(E \cup {n}, p) /\ Older(E \cup {n}, p, r)
<1>1. Live(E \cup {n}, p) = Live(E, p) /\ Once(E \cup {n}, p) /\ Older(E \cup {n}, p, r)
  BY SaysNothing
<1>2. Told(E, p, cur) /\ cur = old /\ cur # t /\ Unheard(E, p, t)
  BY DEF Replaced
<1>3. Told(E \cup {n}, p, cur) /\ Unheard(E \cup {n}, p, t)
  BY <1>1, <1>2 DEF Told, Unheard
<1> QED BY <1>1, <1>2, <1>3 DEF Replaced

LEMMA ReplacedGone ==
  ASSUME NEW E, NEW p, NEW r, NEW t, NEW cur, NEW n, Older(E, p, r), r.tx.fn = "publish", r.token = t,
         t # 0, PairOf(n) = p, n.block = r.block, Once(E, p),
         NEW old, n.kind = "out", n.token = old, old # 0, Replaced(p, t, 4, old, E, cur)
  PROVE  /\ \A o : Replaced(p, t, 3, o, E \cup {n}, cur)
         /\ Once(E \cup {n}, p) /\ Older(E \cup {n}, p, r)
<1>1. Live(E, p) = {cur} /\ cur = old /\ cur # t /\ Unheard(E, p, t)
  BY DEF Replaced, Told
<1>2. n.token \in Live(E, p) /\ r.token # n.token /\ Live(E, p) \ {n.token} = {}
  BY <1>1
<1>3. Live(E \cup {n}, p) = {} /\ Once(E \cup {n}, p) /\ Older(E \cup {n}, p, r)
  BY <1>2, SaysGone
<1>4. Unheard(E \cup {n}, p, t)
  BY <1>1 DEF Unheard
<1> QED BY <1>1, <1>3, <1>4 DEF Replaced

\* ... and the new one comes.
LEMMA ReplacedCame ==
  ASSUME NEW E, NEW p, NEW r, NEW t, NEW cur, NEW n, Older(E, p, r), r.tx.fn = "publish", r.token = t,
         t # 0, PairOf(n) = p, n.block = r.block, Once(E, p),
         NEW old, n.kind = "mint", n.token = t, Replaced(p, t, 2, old, E, cur),
         \A e \in E : e.token \in {n.token, t} => PairOf(e) = p
  PROVE  /\ \A o : Replaced(p, t, 1, o, E \cup {n}, cur)
         /\ Once(E \cup {n}, p) /\ Older(E \cup {n}, p, r)
<1>1. Live(E, p) = {} /\ cur = t /\ Unheard(E, p, t)
  BY DEF Replaced
<1>2. \A e \in E : e.token # n.token
  BY <1>1 DEF Unheard
<1>3. Live(E \cup {n}, p) = {t} /\ Once(E \cup {n}, p) /\ Older(E \cup {n}, p, r)
  BY <1>1, <1>2, SaysCame
<1>4. Told(E \cup {n}, p, cur)
  BY <1>1, <1>3 DEF Told
<1> QED BY <1>3, <1>4 DEF Replaced

LEMMA ReplacedTold ==
  ASSUME NEW E, NEW p, NEW r, NEW t, NEW cur, NEW n, Older(E, p, r), r.tx.fn = "publish", r.token = t,
         t # 0, PairOf(n) = p, n.block = r.block, Once(E, p),
         NEW old, n.kind = "SnapshotPublished", Replaced(p, t, 1, old, E, cur)
  PROVE  /\ \A o : Replaced(p, t, 0, o, E \cup {n}, cur)
         /\ Once(E \cup {n}, p) /\ Older(E \cup {n}, p, r)
<1>1. Live(E \cup {n}, p) = Live(E, p) /\ Once(E \cup {n}, p) /\ Older(E \cup {n}, p, r)
  BY SaysNothing
<1> QED BY <1>1 DEF Replaced, Told

\* A removal, event by event.
LEMMA RemovedBurned ==
  ASSUME NEW E, NEW p, NEW r, NEW t, NEW cur, NEW n, Older(E, p, r), r.tx.fn # "publish", t # 0,
         n.block = r.block, n.token = t, Once(E, p),
         n.kind = "SnapshotBurned", Removed(p, t, 2, E, cur)
  PROVE  /\ Removed(p, t, 1, E \cup {n}, cur)
         /\ Once(E \cup {n}, p) /\ Older(E \cup {n}, p, r)
<1>1. Live(E \cup {n}, p) = Live(E, p) /\ Once(E \cup {n}, p) /\ Older(E \cup {n}, p, r)
  BY SaysNothing
<1> QED BY <1>1 DEF Removed

LEMMA RemovedGone ==
  ASSUME NEW E, NEW p, NEW r, NEW t, NEW cur, NEW n, Older(E, p, r), r.tx.fn # "publish", t # 0,
         n.block = r.block, n.token = t, Once(E, p),
         n.kind = "out", Removed(p, t, 1, E, cur)
  PROVE  /\ Removed(p, t, 0, E \cup {n}, cur)
         /\ Once(E \cup {n}, p) /\ Older(E \cup {n}, p, r)
<1>1. Live(E, p) = {t} /\ cur = 0
  BY DEF Removed
<1>2. n.token \in Live(E, p) /\ Live(E, p) \ {n.token} = {}
  BY <1>1
<1>3. Live(E \cup {n}, p) = {} /\ Once(E \cup {n}, p) /\ Older(E \cup {n}, p, r)
  BY <1>2, SaysGone
<1> QED BY <1>1, <1>3 DEF Removed, Told

\* The same, in terms of the statements left.
LEMMA EmitReplaced ==
  ASSUME NEW E, NEW p, NEW r, NEW q, NEW t, NEW cur, NEW n, PublishTodo(q, t), q # <<>>, Head(q).op = "event",
         Replaced(p, t, Len(q), q[1].token, E, cur), Older(E, p, r), r.tx.fn = "publish", r.token = t, t # 0,
         PairOf(n) = p, n.block = r.block, n.token = Head(q).token, n.kind = Head(q).kind,
         \A e \in E : e.token \in {n.token, t} => PairOf(e) = p, Once(E, p)
  PROVE  /\ Replaced(p, t, Len(Tail(q)), Tail(q)[1].token, E \cup {n}, cur)
         /\ Once(E \cup {n}, p) /\ Older(E \cup {n}, p, r)
<1>1. PICK old, new : old = q[1].token /\ new = Tail(q)[1].token
  OBVIOUS
<1>2. Len(q) \in 1 .. 5 /\ Len(Tail(q)) = Len(q) - 1 /\ Len(q) # 3
  BY PublishSteps
<1>3. n.token = old
  BY <1>1, PublishSteps
<1>4. CASE Len(q) = 5
  <2>1. n.kind = "SnapshotBurned" /\ new = old
    BY <1>1, <1>4, PublishSteps
  <2>2. Len(Tail(q)) = 4
    BY <1>2, <1>4
  <2>3. Replaced(p, t, 5, old, E, cur)
    BY <1>1, <1>4
  <2>4. n.token # t
    BY <1>3, <2>3 DEF Replaced
  <2>5. Replaced(p, t, 4, old, E \cup {n}, cur) /\ Once(E \cup {n}, p) /\ Older(E \cup {n}, p, r)
    BY <2>1, <2>3, <2>4, ReplacedBurned
  <2> QED BY <1>1, <2>1, <2>2, <2>5
<1>5. CASE Len(q) = 4
  <2>1. n.kind = "out" /\ old # 0
    BY <1>1, <1>5, PublishSteps
  <2>2. Len(Tail(q)) = 3
    BY <1>2, <1>5
  <2>3. Replaced(p, t, 4, old, E, cur)
    BY <1>1, <1>5
  <2>4. Replaced(p, t, 3, new, E \cup {n}, cur) /\ Once(E \cup {n}, p) /\ Older(E \cup {n}, p, r)
    BY <1>3, <2>1, <2>3, ReplacedGone
  <2> QED BY <1>1, <2>2, <2>4
<1>6. CASE Len(q) = 2
  <2>1. n.kind = "mint" /\ n.token = t
    BY <1>6, PublishSteps
  <2>2. Len(Tail(q)) = 1
    BY <1>2, <1>6
  <2>3. Replaced(p, t, 2, old, E, cur)
    BY <1>1, <1>6
  <2>4. Replaced(p, t, 1, new, E \cup {n}, cur) /\ Once(E \cup {n}, p) /\ Older(E \cup {n}, p, r)
    BY <2>1, <2>3, ReplacedCame
  <2> QED BY <1>1, <2>2, <2>4
<1>7. CASE Len(q) = 1
  <2>1. n.kind = "SnapshotPublished"
    BY <1>7, PublishSteps
  <2>2. Len(Tail(q)) = 0
    BY <1>2, <1>7
  <2>3. Replaced(p, t, 1, old, E, cur)
    BY <1>1, <1>7
  <2>4. Replaced(p, t, 0, new, E \cup {n}, cur) /\ Once(E \cup {n}, p) /\ Older(E \cup {n}, p, r)
    BY <2>1, <2>3, ReplacedTold
  <2> QED BY <1>1, <2>2, <2>4
<1>8. Len(q) = 5 \/ Len(q) = 4 \/ Len(q) = 2 \/ Len(q) = 1
  BY <1>2
<1> QED BY <1>4, <1>5, <1>6, <1>7, <1>8

LEMMA EmitRemoved ==
  ASSUME NEW E, NEW p, NEW r, NEW q, NEW t, NEW cur, NEW n, RemoveTodo(q, t), q # <<>>, Head(q).op = "event",
         Removed(p, t, Len(q), E, cur), Older(E, p, r), r.tx.fn # "publish", t # 0,
         n.block = r.block, n.token = Head(q).token, n.kind = Head(q).kind, Once(E, p)
  PROVE  /\ Removed(p, t, Len(Tail(q)), E \cup {n}, cur)
         /\ Once(E \cup {n}, p) /\ Older(E \cup {n}, p, r)
<1>1. Len(q) \in 1 .. 3 /\ Len(Tail(q)) = Len(q) - 1 /\ Len(q) # 3
  BY RemoveSteps
<1>2. CASE Len(q) = 2
  <2>1. n.kind = "SnapshotBurned" /\ n.token = t
    BY <1>2, RemoveSteps
  <2>2. Len(Tail(q)) = 1
    BY <1>1, <1>2
  <2>3. Removed(p, t, 2, E, cur)
    BY <1>2
  <2>4. Removed(p, t, 1, E \cup {n}, cur) /\ Once(E \cup {n}, p) /\ Older(E \cup {n}, p, r)
    BY <2>1, <2>3, RemovedBurned
  <2> QED BY <2>2, <2>4
<1>3. CASE Len(q) = 1
  <2>1. n.kind = "out" /\ n.token = t
    BY <1>3, RemoveSteps
  <2>2. Len(Tail(q)) = 0
    BY <1>1, <1>3
  <2>3. Removed(p, t, 1, E, cur)
    BY <1>3
  <2>4. Removed(p, t, 0, E \cup {n}, cur) /\ Once(E \cup {n}, p) /\ Older(E \cup {n}, p, r)
    BY <2>1, <2>3, RemovedGone
  <2> QED BY <2>2, <2>4
<1>4. Len(q) = 2 \/ Len(q) = 1
  BY <1>1
<1> QED BY <1>2, <1>3, <1>4

LEMMA LogEmit ==
  ASSUME EvmTypes, Home, Log, NEW s \in Slots, emitEvent(s)
  PROVE  Log'
<1>0. PICK r, r2, p, q, t, n, cur :
        /\ r = run[s] /\ r2 = run'[s] /\ p = Pair(r) /\ q = r.todo /\ t = r.token /\ n = NewEvent(s)
        /\ cur = Row(drawings, p)
  OBVIOUS
<1>1. /\ \A x \in Slots : x # s => run'[x] = run[x]
      /\ r2.stage = "run" /\ r.stage = "run" /\ r2.tx = r.tx
      /\ r2.token = t /\ r2.block = r.block /\ r2.todo = Tail(q) /\ q # <<>> /\ t # 0
      /\ (r.tx.fn = "publish" => PublishTodo(q, t)) /\ (r.tx.fn # "publish" => RemoveTodo(q, t))
      /\ r.block # 0
  BY <1>0, StatementRun DEF Shape, EvmTypes, GoodCounters, Others
<1>2. UNCHANGED <<drawings, tangled>> /\ Head(q).op = "event" /\ events' = events \cup {n}
  BY <1>0, EmitEvent DEF emitEvent
<1>3. Pair(r2) = p
  BY <1>0, <1>1 DEF Pair
<1>4. /\ p \in Pairs /\ PairOf(n) = p /\ n.block = r.block /\ n.token = Head(q).token /\ n.kind = Head(q).kind
      /\ \A e \in events : e.token \in {n.token, t} => PairOf(e) = p
  BY <1>0, EmitFacts
<1>5. ASSUME NEW o \in Pairs \ tangled', o # p
      PROVE  Sound(o, events', Row(drawings', o), Working(run', o), run')
  <2>1. Sound(o, events, Row(drawings, o), Working(run, o), run)
    BY <1>2, <1>5 DEF Log
  <2>2. Working(run', o) = Working(run, o) /\ \A x \in Working(run, o) : run'[x] = run[x]
    BY <1>0, <1>1, <1>3, <1>5 DEF Working
  <2>3. \A e \in events : PairOf(e) = o => e.token # n.token
    BY <1>4, <1>5
  <2> QED BY <1>2, <1>4, <1>5, <2>1, <2>2, <2>3, SoundOther
<1>6. ASSUME p \notin tangled' PROVE Sound(p, events', Row(drawings', p), Working(run', p), run')
  <2>1. Working(run, p) = {s} /\ Once(events, p) /\ Phase(p, r, events, cur)
    BY <1>0, <1>1, <1>2, <1>6, OneAtWork
  <2>2. Working(run', p) = {s}
    BY <1>0, <1>1, <1>3, <2>1 DEF Working
  <2>3. Older(events, p, r)
    BY <1>1, <2>1 DEF Phase
  <2>4. CASE r.tx.fn = "publish"
    <3>1. PublishTodo(q, t) /\ q # <<>> /\ Head(q).op = "event" /\ r.token = t /\ t # 0
      BY <1>0, <1>1, <1>2, <2>4
    <3>2. Replaced(p, t, Len(q), q[1].token, events, cur)
      BY <1>0, <1>1, <2>1, <2>4 DEF Phase
    <3>3. /\ Replaced(p, t, Len(Tail(q)), Tail(q)[1].token, events \cup {n}, cur)
          /\ Once(events \cup {n}, p) /\ Older(events \cup {n}, p, r)
      BY <1>4, <2>1, <2>3, <2>4, <3>1, <3>2, EmitReplaced
    <3>4. Older(events \cup {n}, p, r2)
      BY <1>0, <1>1, <3>3 DEF Older
    <3>5. Phase(p, r2, events \cup {n}, cur)
      BY <1>1, <2>4, <3>3, <3>4 DEF Phase
    <3> QED BY <1>0, <1>2, <2>2, <3>3, <3>5 DEF Sound
  <2>5. CASE r.tx.fn # "publish"
    <3>1. RemoveTodo(q, t) /\ q # <<>> /\ Head(q).op = "event" /\ t # 0
      BY <1>1, <1>2, <2>5
    <3>2. Removed(p, t, Len(q), events, cur)
      BY <1>0, <1>1, <2>1, <2>5 DEF Phase
    <3>3. /\ Removed(p, t, Len(Tail(q)), events \cup {n}, cur)
          /\ Once(events \cup {n}, p) /\ Older(events \cup {n}, p, r)
      BY <1>4, <2>1, <2>3, <2>5, <3>1, <3>2, EmitRemoved
    <3>4. Older(events \cup {n}, p, r2)
      BY <1>0, <1>1, <3>3 DEF Older
    <3>5. Phase(p, r2, events \cup {n}, cur)
      BY <1>1, <2>5, <3>3, <3>4 DEF Phase
    <3> QED BY <1>0, <1>2, <2>2, <3>3, <3>5 DEF Sound
  <2> QED BY <2>4, <2>5
<1> QED BY <1>5, <1>6 DEF Log

-----------------------------------------------------------------------------
LEMMA InitEvmInv == EvmInit => EvmInv
<1> SUFFICES ASSUME EvmInit PROVE EvmInv
  OBVIOUS
<1>1. \A s \in Slots : run[s] = Vacant
  BY DEF EvmInit
<1>2. Active = {} /\ (\A p : Working(run, p) = {}) /\ events = {} /\ counters.block = 0 /\ poll.from = 0
  BY <1>1, VacantFree DEF Active, Working, EvmInit
<1>3. Blocks
  BY <1>2 DEF Blocks
<1>4. Cached
  <2>1. receipts = <<>> /\ answers = {} /\ DOMAIN <<>> = {} /\ <<>> \in Seq([tx : Tx, block : Nat])
    BY DEF EvmInit
  <2> QED BY <2>1 DEF Cached
<1>5. Followed
  BY <1>2 DEF Followed
<1>6. Home
  <2>1. counters.next = 1
    BY DEF EvmInit
  <2> QED BY <2>1 DEF Home
<1>7. Log
  <2>1. \A p : Row(drawings, p) = 0
    BY DEF Row, EvmInit
  <2>2. \A p : Live({}, p) = {} /\ Once({}, p)
    BY DEF Live, Once
  <2>3. \A p : Told({}, p, 0)
    BY <2>2 DEF Told
  <2> QED BY <1>2, <2>1, <2>2, <2>3 DEF Log, Sound
<1> QED BY <1>3, <1>4, <1>5, <1>6, <1>7, InitTypes DEF EvmInv

LEMMA SlotInv ==
  ASSUME EvmInv, NEW s \in Slots, SlotStep(s)
  PROVE  EvmInv'
<1> USE DEF EvmInv
<1>1. Blocks' /\ Home'
  BY BlocksStep, HomeSlot
<1>2. ASSUME NEW t \in Raw, handleSendRawTransaction(s, t) PROVE EvmTypes' /\ Log'
  BY <1>2, TypesSend, LogSend
<1>3. EvmTypes' /\ Log'
  BY <1>2, TypesClaim, TypesSelect, TypesTick, TypesWrite, TypesEnd, LogClaim, LogSelect, LogTick, LogWrite, LogEnd
     DEF SlotStep
<1>4. UNCHANGED poll
  BY DEF SlotStep, handleSendRawTransaction, nextTokenAndBlock, SelectRow, tickBlock, WriteRow, CacheReceipt, Fail, Rest
<1>5. Followed'
  BY <1>4, FollowedStep
<1>6. Cached'
  <2>1. CASE CacheReceipt(s)
    BY <2>1, CachedNew
  <2>2. CASE ~ CacheReceipt(s)
    <3>1. UNCHANGED <<receipts, answers>>
      BY <2>2 DEF SlotStep, handleSendRawTransaction, nextTokenAndBlock, SelectRow, tickBlock, WriteRow, Fail, Rest
    <3> QED BY <3>1, CachedStep
  <2> QED BY <2>1, <2>2
<1> QED BY <1>1, <1>3, <1>5, <1>6

LEMMA EmitInv ==
  ASSUME EvmInv, NEW s \in Slots, emitEvent(s)
  PROVE  EvmInv'
<1>1. UNCHANGED <<receipts, answers, poll>>
  BY DEF emitEvent, Rest
<1> QED BY <1>1, TypesEmit, BlocksEmit, CachedStep, FollowedStep, HomeEmit, LogEmit DEF EvmInv

LEMMA EvmNextInv == EvmInv /\ [EvmNext]_evmVars => EvmInv'
<1> SUFFICES ASSUME EvmInv, [EvmNext]_evmVars PROVE EvmInv'
  OBVIOUS
<1> USE DEF EvmInv
<1>1. ASSUME NEW s \in Slots, SlotStep(s) \/ emitEvent(s) PROVE EvmInv'
  BY <1>1, SlotInv, EmitInv
<1>2. CASE Restart
  BY <1>2, TypesRestart, BlocksRest, CachedRest, FollowedRest, HomeRest, LogRest
<1>3. CASE handleGetLogs
  <2>1. UNCHANGED <<counters, drawings, events, receipts, run, answers, tangled>>
    BY <1>3 DEF handleGetLogs
  <2> QED BY <1>3, <2>1, TypesSame, BlocksRest, CachedRest, FollowedPoll, HomeRest, LogRest
<1>4. ASSUME NEW i \in DOMAIN receipts, handleGetReceipt(i) PROVE EvmInv'
  <2>1. UNCHANGED <<counters, drawings, events, run, poll, tangled>>
    BY <1>4 DEF handleGetReceipt
  <2> QED BY <1>4, <2>1, TypesSame, BlocksRest, CachedServe, FollowedRest, HomeRest, LogRest
<1>5. CASE UNCHANGED evmVars
  <2>1. UNCHANGED <<counters, drawings, events, receipts, run, poll, answers, tangled>>
    BY <1>5 DEF evmVars
  <2> QED BY <2>1, TypesSame, BlocksRest, CachedRest, FollowedRest, HomeRest, LogRest
<1> QED BY <1>1, <1>2, <1>3, <1>4, <1>5 DEF EvmNext, Execute, SlotStep

\* At every statement of every transaction: what it has left is the rest of one
\* of three scripts, its block holds its own events and no others, the log and
\* the row of its pair are where that statement leaves them, and tokens stay
\* with their pairs (evm/handlers.ts, evm/dispatcher.ts).
THEOREM EvmInvariance == EvmSpec => []EvmInv
  BY InitEvmInv, EvmNextInv, PTL DEF EvmSpec

LEMMA ToldReplays ==
  ASSUME EvmInv
  PROVE  LogReplays
<1> SUFFICES ASSUME NEW p \in Pairs \ tangled, Busy(p) = {}
    PROVE  /\ {currentSnapshotOf(p)} \ {0} =
                {e.token : e \in {x \in events : PairOf(x) = p /\ x.kind = "mint" /\ Gone(x.token) = {}}}
           /\ \A e \in events : PairOf(e) = p /\ e.kind = "out" =>
                /\ Cardinality(Gone(e.token)) = 1
                /\ \E m \in Minted(e.token) : m.block < e.block
  BY DEF LogReplays
<1>1. Working(run, p) = {} /\ EvmTypes
  BY DEF Working, Busy, EvmInv
<1>2. Once(events, p) /\ Told(events, p, Row(drawings, p))
  BY <1>1 DEF EvmInv, Log, Sound
<1>3. Row(drawings, p) = currentSnapshotOf(p)
  BY <1>1, RowFacts
<1>4. Live(events, p) = {e.token : e \in {x \in events : PairOf(x) = p /\ x.kind = "mint" /\ Gone(x.token) = {}}}
  BY DEF Live, Gone
<1>5. ASSUME NEW e \in events, PairOf(e) = p, e.kind = "out"
      PROVE  Cardinality(Gone(e.token)) = 1 /\ \E m \in Minted(e.token) : m.block < e.block
  <2>1. Gone(e.token) = {e}
    BY <1>2, <1>5 DEF Once, Gone
  <2>2. \E m \in Minted(e.token) : m.block < e.block
    BY <1>2, <1>5 DEF Once, Minted
  <2> QED BY <2>1, <2>2, FS_Singleton
<1> QED BY <1>2, <1>3, <1>4, <1>5 DEF Told

\* Between transactions the log tells the storage, for every pair whose
\* transactions neither overlapped nor broke off (evm/handlers.ts).
THEOREM LogTells == EvmSpec => []LogReplays
  BY EvmInvariance, ToldReplays, PTL

LEMMA WholeServed ==
  ASSUME EvmInv
  PROVE  ReadersComplete
  BY DEF EvmInv, Cached, Followed, Entire, Numbered, Final, ReadersComplete

\* Every receipt served has all the events of its transaction, numbered without
\* gaps, and a client that follows the log misses only what was under way.
THEOREM ServedComplete == EvmSpec => []ReadersComplete
  BY EvmInvariance, WholeServed, PTL
=============================================================================
