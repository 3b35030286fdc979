------------------------------ MODULE MCGateway ------------------------------
EXTENDS Gateway

CONSTANTS m, a, s, p, n1, n2, c1, c2

MCMasters == [x \in {s} |-> m]
MCTables == {[w \in Wallets |-> <<>>], [w \in Wallets |-> IF w = m THEN [n \in {n1} |-> a] ELSE <<>>]}
At(t) == [ms |-> t, part |-> 0]
Signed(w, kind, t) ==
  [NoRequest EXCEPT !.route = "exchange", !.signed = w, !.kind = kind, !.nonce = At(t)]

MCRequests == {
  Signed(m, "order", 2), Signed(m, "order", 3),
  Signed(m, "order", 9),
  [Signed(a, "cancel", 3) EXCEPT !.vault = m],
  [Signed(m, "modify", 3) EXCEPT !.vault = s],
  [Signed(m, "usdSend", 3) EXCEPT !.vault = s],
  [Signed(m, "cDeposit", 2) EXCEPT !.nonce.part = 1],
  [Signed(m, "spotSend", 2) EXCEPT !.nonce.part = 1],
  [Signed(m, "sendAsset", 2) EXCEPT !.nonce = Infinite],
  [Signed(m, "approveAgent", 2) EXCEPT !.agent = a],
  [Signed(m, "approveAgent", 3) EXCEPT !.agent = a, !.name = n1],
  [Signed(m, "approveAgent", 3) EXCEPT !.agent = a, !.name = n2],
  [Signed(m, "approveAgent", 2) EXCEPT !.name = n1],
  [Signed(m, "withdraw3", 3) EXCEPT !.expires = 2],
  [Signed(m, "setReferrer", 3) EXCEPT !.paper = FALSE],
  [NoRequest EXCEPT !.route = "exchange", !.wallet = m, !.secret = TRUE, !.kind = "approveBuilderFee"],
  [NoRequest EXCEPT !.route = "exchange", !.wallet = m, !.secret = TRUE, !.kind = "trailingStop", !.shape = FALSE],
  [NoRequest EXCEPT !.route = "exchange", !.wallet = m, !.secret = TRUE, !.kind = "tokenDelegate", !.shape = FALSE],
  [NoRequest EXCEPT !.route = "exchange", !.wallet = m, !.secret = TRUE, !.kind = "noop"],
  [NoRequest EXCEPT !.route = "admin", !.wallet = m, !.secret = FALSE, !.kind = "setBalance"],
  [NoRequest EXCEPT !.route = "admin", !.wallet = m, !.secret = TRUE, !.kind = "setBalance"] }
=============================================================================
