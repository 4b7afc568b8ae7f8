------------------------- MODULE WalletNoncesProofs -------------------------
(***************************************************************************)
(* Nonces are unique, swaps are backed by approvals and the sweep's flag   *)
(* comes back, for any number of tokens, senders and restarts.             *)
(***************************************************************************)
EXTENDS WalletNonces, FiniteSetTheorems, TLAPS

\* Every nonce drawn since the last start lies below the counter.
BelowCounter ==
    /\ nextNonce \in Nat /\ chainNonce \in Nat /\ epoch \in Nat
    /\ \A tx \in issued :
          /\ tx.nonce \in Nat /\ tx.epoch \in Nat /\ tx.epoch <= epoch
          /\ tx.epoch = epoch => tx.nonce < nextNonce

NonceInv == BelowCounter /\ NonceUnique

\* A nonce from NonceManager::next is new: fetch_add keeps the invariant.
LEMMA FreshNonce ==
    ASSUME NonceInv, NEW kind, NEW tok, TakeNonce(Tx(kind, tok)),
           chainNonce' \in Nat, epoch' = epoch
    PROVE  NonceInv'
<1>1. Tx(kind, tok).nonce = nextNonce /\ Tx(kind, tok).epoch = epoch
  BY DEF Tx
<1>2. issued' = issued \cup {Tx(kind, tok)} /\ nextNonce' = nextNonce + 1
  BY DEF TakeNonce
<1>3. BelowCounter'
  BY <1>1, <1>2 DEF NonceInv, BelowCounter
<1>4. NonceUnique'
  <2> SUFFICES ASSUME NEW a \in issued', NEW b \in issued', a.nonce = b.nonce, a.epoch = b.epoch
               PROVE  a = b
    BY DEF NonceUnique
  <2>1. CASE a \in issued /\ b \in issued
    BY <2>1 DEF NonceInv, NonceUnique
  <2>2. CASE a = Tx(kind, tok) /\ b \in issued
    BY <1>1, <2>2 DEF NonceInv, BelowCounter
  <2>3. CASE b = Tx(kind, tok) /\ a \in issued
    BY <1>1, <2>3 DEF NonceInv, BelowCounter
  <2> QED
    BY <1>2, <2>1, <2>2, <2>3
<1> QED
  BY <1>3, <1>4 DEF NonceInv

\* A step that draws no nonce keeps the invariant.
LEMMA NoDraw ==
    ASSUME NonceInv, UNCHANGED <<nextNonce, issued, epoch>>, chainNonce' \in Nat
    PROVE  NonceInv'
BY DEF NonceInv, BelowCounter, NonceUnique

\* Every sender, the chain and a restart keep the invariant.
LEMMA NextNonceInv == NonceInv /\ [WalletNext]_walletVars => NonceInv'
<1> SUFFICES ASSUME NonceInv, [WalletNext]_walletVars
             PROVE  NonceInv'
  OBVIOUS
<1>0. chainNonce \in Nat /\ epoch \in Nat
  BY DEF NonceInv, BelowCounter
<1>1. CASE SendBundle
  BY <1>0, <1>1, FreshNonce DEF SendBundle, bootVars
<1>2. ASSUME NEW ok \in BOOLEAN, UnwrapWeth(ok) \/ PullToken(ok) \/ ApproveRouter(ok)
      PROVE  NonceInv'
  <2>1. PICK kind, tok : TakeNonce(Tx(kind, tok))
    BY <1>2 DEF UnwrapWeth, PullToken, ApproveRouter
  <2>2. chainNonce' = chainNonce /\ epoch' = epoch
    BY <1>2 DEF UnwrapWeth, PullToken, ApproveRouter, Send, bootVars
  <2> QED
    BY <1>0, <2>1, <2>2, FreshNonce
<1>3. CASE SpawnSwap
  BY <1>0, <1>3, FreshNonce DEF SpawnSwap, bootVars, chainVars
<1>4. CASE \/ DropBundle \/ BeginSweep \/ NothingToPull \/ WatchEnds \/ NothingToSweep
           \/ SendSwaps
           \/ Bootstrap
           \/ \E t \in HarvestTokens : TradeLeavesDust(t)
           \/ UNCHANGED walletVars
  <2>1. UNCHANGED <<nextNonce, issued, epoch, chainNonce>>
    BY <1>4 DEF DropBundle, BeginSweep, NothingToPull, WatchEnds, NothingToSweep, SendSwaps,
                SendSwap, Send, Bootstrap, TradeLeavesDust, walletVars, bootVars, chainVars
  <2> QED
    BY <1>0, <2>1, NoDraw
<1>5. CASE MineNext
  BY <1>0, <1>5, NoDraw DEF MineNext, Mine, bootVars
<1>6. CASE Restart
  <2>1. nextNonce' = chainNonce /\ epoch' = epoch + 1 /\ UNCHANGED <<issued, chainNonce>>
    BY <1>6 DEF Restart
  <2>2. \A tx \in issued : tx.nonce \in Nat /\ tx.epoch \in Nat /\ tx.epoch < epoch'
    BY <1>0, <2>1 DEF NonceInv, BelowCounter
  <2>3. BelowCounter'
    BY <1>0, <2>1, <2>2 DEF BelowCounter
  <2>4. NonceUnique'
    BY <2>1 DEF NonceInv, NonceUnique
  <2> QED
    BY <2>3, <2>4 DEF NonceInv
<1> QED
  BY <1>1, <1>2, <1>3, <1>4, <1>5, <1>6 DEF WalletNext

\* NonceInv holds in every state of every behaviour.
LEMMA NonceInvariance == WalletSpec => []NonceInv
<1>1. WalletInit => NonceInv
  BY DEF WalletInit, NonceInv, BelowCounter, NonceUnique
<1> QED
  BY <1>1, NextNonceInv, PTL DEF WalletSpec

\* Within one run of the process, no two transactions of the wallet carry the
\* same nonce, although the executor, the sweep, the swaps it spawns and the gas
\* check draw from the counter concurrently, and the process restarts at will.
THEOREM NoncesNeverShared == WalletSpec => []NonceUnique
<1>1. NonceInv => NonceUnique
  BY DEF NonceInv
<1> QED
  BY <1>1, NonceInvariance, PTL

-----------------------------------------------------------------------------
(* Gaps in the wallet's nonces.                                            *)

\* A transaction that holds its nonce, or held it until it was lost.
Out == pending \cup swaps \cup lost

\* GapsExplained with its bounds as inequalities.
NoGap == \A n \in Nat : chainNonce <= n /\ n < nextNonce => \E tx \in Out : tx.nonce = n

LEMMA GapsAreThose ==
    ASSUME NonceInv
    PROVE  NoGap <=> GapsExplained
<1>1. chainNonce \in Nat /\ nextNonce \in Nat
  BY DEF NonceInv, BelowCounter
<1>2. \A n : n \in chainNonce .. nextNonce - 1 <=> n \in Nat /\ chainNonce <= n /\ n < nextNonce
  BY <1>1
<1> QED
  BY <1>2 DEF NoGap, GapsExplained, Out

\* A draw takes the counter's nonce, and its transaction is out at once.
LEMMA DrawLeavesNoGap ==
    ASSUME NonceInv, NoGap, NEW tx, tx.nonce = nextNonce, TakeNonce(tx),
           chainNonce' = chainNonce, Out \subseteq Out', tx \in Out'
    PROVE  NoGap'
<1>1. nextNonce' = nextNonce + 1 /\ nextNonce \in Nat /\ chainNonce \in Nat
  BY DEF TakeNonce, NonceInv, BelowCounter
<1>2. \A n \in Nat : n < nextNonce' => n < nextNonce \/ n = nextNonce
  BY <1>1
<1> QED
  BY <1>1, <1>2 DEF NoGap

\* A refused transaction counts among the lost ones, so none goes out of sight.
LEMMA SentIsOut ==
    ASSUME NEW tx, NEW ok \in BOOLEAN, Send(tx, ok), swaps \subseteq swaps' \cup {tx}
    PROVE  Out \subseteq Out' /\ tx \in Out' /\ chainNonce' = chainNonce
BY DEF Send, Out

\* Every sender, the chain and a restart leave the nonces accounted for.
LEMMA NextNoGap == NonceInv /\ NoGap /\ [WalletNext]_walletVars => NoGap'
<1> SUFFICES ASSUME NonceInv, NoGap, [WalletNext]_walletVars
             PROVE  NoGap'
  OBVIOUS
<1>0. chainNonce \in Nat /\ nextNonce \in Nat
  BY DEF NonceInv, BelowCounter
<1>1. CASE SendBundle
  <2> DEFINE tx == Tx("bundle", NoToken)
  <2>1. /\ TakeNonce(tx) /\ pending' = pending \cup {tx} /\ tx.nonce = nextNonce
        /\ UNCHANGED <<chainNonce, lost, swaps>>
    BY <1>1 DEF SendBundle, sweepVars, Tx
  <2> HIDE DEF tx
  <2> QED
    BY <2>1, DrawLeavesNoGap DEF Out
<1>2. ASSUME NEW ok \in BOOLEAN, UnwrapWeth(ok) \/ PullToken(ok) \/ ApproveRouter(ok)
      PROVE  NoGap'
  <2>1. PICK kind, tok : TakeNonce(Tx(kind, tok)) /\ Send(Tx(kind, tok), ok)
    BY <1>2 DEF UnwrapWeth, PullToken, ApproveRouter
  <2>2. UNCHANGED swaps
    BY <1>2 DEF UnwrapWeth, PullToken, ApproveRouter, sweepVars
  <2>3. Tx(kind, tok).nonce = nextNonce
    BY DEF Tx
  <2> QED
    BY <2>1, <2>2, <2>3, SentIsOut, DrawLeavesNoGap
<1>3. CASE SpawnSwap
  <2> DEFINE tx == Tx("swap", token)
  <2>1. /\ TakeNonce(tx) /\ swaps' = swaps \cup {tx} /\ tx.nonce = nextNonce
        /\ UNCHANGED <<chainNonce, pending, lost>>
    BY <1>3 DEF SpawnSwap, chainVars, Tx
  <2> HIDE DEF tx
  <2> QED
    BY <2>1, DrawLeavesNoGap DEF Out
<1>4. CASE SendSwaps
  <2>1. PICK tx \in swaps, ok \in BOOLEAN : SendSwap(tx, ok)
    BY <1>4 DEF SendSwaps
  <2>2. Send(tx, ok) /\ swaps' = swaps \ {tx} /\ nextNonce' = nextNonce
    BY <2>1 DEF SendSwap
  <2>3. Out \subseteq Out' /\ chainNonce' = chainNonce
    BY <2>2, SentIsOut
  <2> QED
    BY <2>2, <2>3 DEF NoGap
<1>5. CASE MineNext
  <2>1. PICK tx \in pending : Mine(tx)
    BY <1>5 DEF MineNext
  <2>2. /\ chainNonce' = chainNonce + 1 /\ UNCHANGED <<nextNonce, swaps>>
        /\ pending' = {p \in pending : p.nonce # chainNonce} /\ lost \subseteq lost'
    BY <2>1 DEF Mine, sweepVars
  <2>3. ASSUME NEW n \in Nat, chainNonce' <= n, n < nextNonce'
        PROVE  \E x \in Out' : x.nonce = n
    <3>1. chainNonce <= n /\ n < nextNonce /\ n # chainNonce
      BY <1>0, <2>2, <2>3
    <3>2. PICK x \in Out : x.nonce = n
      BY <3>1 DEF NoGap
    <3>3. x \in Out'
      BY <2>2, <3>1, <3>2 DEF Out
    <3> QED
      BY <3>2, <3>3
  <2> QED
    BY <2>3 DEF NoGap
<1>6. CASE Restart
  <2>1. nextNonce' = chainNonce /\ chainNonce' = chainNonce
    BY <1>6 DEF Restart
  <2>2. \A n \in Nat : ~(chainNonce' <= n /\ n < nextNonce')
    BY <1>0, <2>1
  <2> QED
    BY <2>2 DEF NoGap
<1>7. CASE \/ Bootstrap \/ DropBundle \/ BeginSweep \/ NothingToPull \/ WatchEnds
           \/ NothingToSweep \/ UNCHANGED walletVars
           \/ \E t \in HarvestTokens : TradeLeavesDust(t)
  <2>1. UNCHANGED <<nextNonce, chainNonce>>
    BY <1>7 DEF Bootstrap, DropBundle, BeginSweep, NothingToPull, WatchEnds, NothingToSweep,
                TradeLeavesDust, walletVars, chainVars
  <2>2. Out' = Out
    BY <1>7 DEF Bootstrap, DropBundle, BeginSweep, NothingToPull, WatchEnds, NothingToSweep,
                TradeLeavesDust, walletVars, chainVars, sweepVars, Out
  <2> QED
    BY <2>1, <2>2 DEF NoGap
<1> QED
  BY <1>1, <1>2, <1>3, <1>4, <1>5, <1>6, <1>7 DEF WalletNext

\* No interleaving of the executor, the sweep, its swaps, the chain and restarts
\* leaves a nonce below the counter that no transaction was sent with: a wallet
\* that is stuck is stuck behind one that was refused or dropped.
THEOREM GapsHaveCulprits == WalletSpec => []GapsExplained
<1>1. WalletInit => NoGap
  BY DEF WalletInit, NoGap
<1>2. WalletSpec => []NoGap
  BY <1>1, NextNoGap, NonceInvariance, PTL DEF WalletSpec
<1> QED
  BY <1>2, GapsAreThose, NonceInvariance, PTL

-----------------------------------------------------------------------------
(* Swaps and the approvals before them.                                    *)

Swaps(t) == {s \in issued : s.kind = "swap" /\ s.token = t}

Approvals(t) == {a \in issued : a.kind = "approve" /\ a.token = t}

\* a is the approval that the swap s was drawn after: no other swap of the token
\* was drawn in between.
Backs(a, s) ==
    /\ a \in Approvals(s.token) /\ a.nonce < s.nonce
    /\ \A r \in Swaps(s.token) : r.nonce < a.nonce \/ r.nonce >= s.nonce

\* Every swap drawn has its approval, and so has the one about to be.
Matched ==
    /\ \A s \in issued : s.kind = "swap" => \E a \in issued : Backs(a, s)
    /\ invPc = "swap" => \E a \in Approvals(token) : \A r \in Swaps(token) : r.nonce < a.nonce

\* The chain holds the transactions below its nonce, one for each.
ChainFull ==
    /\ IsFiniteSet(mined)
    /\ mined \subseteq issued /\ pending \subseteq issued /\ swaps \subseteq issued
    /\ \A m \in mined : m.nonce < chainNonce
    /\ \A n \in Nat : n < chainNonce => \E m \in mined : m.nonce = n

BackInv == epoch = 0 => Matched /\ ChainFull

\* A draw that is not a swap's keeps every swap matched.
LEMMA DrawMatched ==
    ASSUME NonceInv, epoch = 0, Matched, NEW kind, NEW tok, kind # "swap",
           TakeNonce(Tx(kind, tok)),
           \/ UNCHANGED <<invPc, token>>
           \/ kind = "approve" /\ tok = token'
           \/ invPc' # "swap"
    PROVE  Matched'
<1> DEFINE new == Tx(kind, tok)
<1>1. /\ issued' = issued \cup {new} /\ new.kind = kind /\ new.token = tok
      /\ new.nonce = nextNonce
  BY DEF TakeNonce, Tx
<1> HIDE DEF new
<1>2. \A tx \in issued : tx.nonce \in Nat /\ tx.nonce < nextNonce
  BY DEF NonceInv, BelowCounter
<1>3. \A t : Swaps(t)' = Swaps(t) /\ Approvals(t) \subseteq Approvals(t)'
  BY <1>1 DEF Swaps, Approvals
<1>4. ASSUME NEW s \in issued', s.kind = "swap"
      PROVE  \E a \in issued' : Backs(a, s)'
  <2>1. s \in issued
    BY <1>1, <1>4
  <2>2. PICK a \in issued : Backs(a, s)
    BY <1>4, <2>1 DEF Matched
  <2>3. Backs(a, s)'
    BY <1>3, <2>2 DEF Backs
  <2> QED
    BY <1>1, <2>3
<1>5. ASSUME invPc' = "swap"
      PROVE  \E a \in Approvals(token)' : \A r \in Swaps(token)' : r.nonce < a.nonce
  <2>1. CASE UNCHANGED <<invPc, token>>
    <3>1. PICK a \in Approvals(token) : \A r \in Swaps(token) : r.nonce < a.nonce
      BY <1>5, <2>1 DEF Matched
    <3> QED
      BY <1>3, <2>1, <3>1 DEF Swaps, Approvals
  <2>2. CASE kind = "approve" /\ tok = token'
    <3>1. new \in Approvals(token)'
      BY <1>1, <2>2 DEF Approvals
    <3>2. \A r \in Swaps(token)' : r.nonce < new.nonce
      BY <1>1, <1>2, <2>2 DEF Swaps
    <3> QED
      BY <3>1, <3>2
  <2> QED
    BY <1>5, <2>1, <2>2
<1> QED
  BY <1>4, <1>5 DEF Matched

\* A step that draws no nonce and does not come to a swap keeps them matched.
LEMMA QuietMatched ==
    ASSUME Matched, UNCHANGED issued, UNCHANGED <<invPc, token>> \/ invPc' # "swap"
    PROVE  Matched'
BY DEF Matched, Backs, Swaps, Approvals

\* The spawned swap is backed by the approval sent just before it.
LEMMA SwapMatched ==
    ASSUME NonceInv, epoch = 0, Matched, SpawnSwap
    PROVE  Matched'
<1> DEFINE new == Tx("swap", token)
<1>1. /\ issued' = issued \cup {new} /\ new.kind = "swap" /\ new.token = token
      /\ new.nonce = nextNonce /\ invPc = "swap" /\ invPc' # "swap"
  BY DEF SpawnSwap, TakeNonce, Tx, NextToken
<1> HIDE DEF new
<1>2. nextNonce \in Nat /\ \A tx \in issued : tx.nonce \in Nat /\ tx.nonce < nextNonce
  BY DEF NonceInv, BelowCounter
<1>3. \A t : Approvals(t)' = Approvals(t) /\ Swaps(t)' \subseteq Swaps(t) \cup {new}
  BY <1>1 DEF Swaps, Approvals
<1>4. ASSUME NEW s \in issued', s.kind = "swap"
      PROVE  \E a \in issued' : Backs(a, s)'
  <2>1. CASE s \in issued
    <3>1. PICK a \in issued : Backs(a, s)
      BY <1>4, <2>1 DEF Matched
    <3>2. Backs(a, s)'
      BY <1>1, <1>2, <1>3, <2>1, <3>1 DEF Backs
    <3> QED
      BY <1>1, <3>2
  <2>2. CASE s = new
    <3>1. PICK a \in Approvals(token) : \A r \in Swaps(token) : r.nonce < a.nonce
      BY <1>1 DEF Matched
    <3>2. a \in issued /\ a.nonce < new.nonce
      BY <1>1, <1>2, <3>1 DEF Approvals
    <3>3. Backs(a, s)'
      BY <1>1, <1>2, <2>2, <3>1, <3>2 DEF Backs, Swaps, Approvals
    <3> QED
      BY <1>1, <3>2, <3>3
  <2> QED
    BY <1>1, <2>1, <2>2
<1> QED
  BY <1>1, <1>4 DEF Matched

\* Mining the next nonce fills the chain one further.
LEMMA MineFull ==
    ASSUME NonceInv, ChainFull, NEW tx \in pending, Mine(tx)
    PROVE  ChainFull'
<1>1. /\ mined' = mined \cup {tx} /\ chainNonce' = chainNonce + 1 /\ tx.nonce = chainNonce
      /\ pending' \subseteq pending /\ UNCHANGED <<issued, swaps>>
  BY DEF Mine, sweepVars
<1>2. chainNonce \in Nat /\ \A m \in issued : m.nonce \in Nat
  BY DEF NonceInv, BelowCounter
<1>3. IsFiniteSet(mined')
  BY <1>1, FS_AddElement DEF ChainFull
<1>4. /\ mined' \subseteq issued' /\ pending' \subseteq issued' /\ swaps' \subseteq issued'
      /\ \A m \in mined' : m.nonce < chainNonce'
  BY <1>1, <1>2 DEF ChainFull
<1>5. \A n \in Nat : n < chainNonce' => \E m \in mined' : m.nonce = n
  <2> SUFFICES ASSUME NEW n \in Nat, n < chainNonce'
               PROVE  \E m \in mined' : m.nonce = n
    OBVIOUS
  <2>1. n < chainNonce \/ n = chainNonce
    BY <1>1, <1>2
  <2> QED
    BY <1>1, <2>1 DEF ChainFull
<1> QED
  BY <1>3, <1>4, <1>5 DEF ChainFull

\* Any other step leaves the chain as it is, and sends only what was drawn.
LEMMA QuietFull ==
    ASSUME ChainFull, UNCHANGED <<mined, chainNonce>>, issued \subseteq issued',
           pending' \subseteq issued', swaps' \subseteq issued'
    PROVE  ChainFull'
BY DEF ChainFull

\* Every step of the wallet, the chain and the process keeps swaps backed.
LEMMA BackStep == NonceInv /\ BackInv /\ [WalletNext]_walletVars => BackInv'
<1> SUFFICES ASSUME NonceInv, BackInv, [WalletNext]_walletVars, epoch' = 0
             PROVE  Matched' /\ ChainFull'
  BY DEF BackInv
<1>0. epoch \in Nat /\ ~Restart
  BY DEF NonceInv, BelowCounter, Restart
<1>1. epoch = 0 /\ Matched /\ ChainFull
  <2>1. epoch' = epoch
    BY <1>0 DEF WalletNext, Bootstrap, SendBundle, DropBundle, UnwrapWeth, PullToken,
                ApproveRouter, BeginSweep, NothingToPull, WatchEnds, NothingToSweep, SpawnSwap,
                SendSwaps, SendSwap, MineNext, Mine, TradeLeavesDust, bootVars, walletVars
  <2> QED
    BY <2>1 DEF BackInv
<1>2. CASE SendBundle
  <2>1. /\ TakeNonce(Tx("bundle", NoToken)) /\ UNCHANGED <<mined, chainNonce, invPc, token, swaps>>
        /\ pending' = pending \cup {Tx("bundle", NoToken)}
    BY <1>2 DEF SendBundle, sweepVars
  <2> QED
    BY <1>1, <2>1, DrawMatched, QuietFull DEF ChainFull, TakeNonce
<1>3. ASSUME NEW ok \in BOOLEAN, UnwrapWeth(ok) \/ PullToken(ok) \/ ApproveRouter(ok)
      PROVE  Matched' /\ ChainFull'
  <2>1. PICK kind \in {"unwrap", "withdraw", "approve"}, tok \in {token, NoToken} :
          /\ TakeNonce(Tx(kind, tok)) /\ Send(Tx(kind, tok), ok)
          /\ invPc' = "swap" => kind = "approve" /\ tok = token'
    BY <1>3 DEF UnwrapWeth, PullToken, ApproveRouter, NextToken, sweepVars
  <2>2. Matched'
    BY <1>1, <2>1, DrawMatched
  <2>3. UNCHANGED swaps
    BY <1>3 DEF UnwrapWeth, PullToken, ApproveRouter, sweepVars
  <2> QED
    BY <1>1, <2>1, <2>2, <2>3, QuietFull DEF ChainFull, TakeNonce, Send
<1>4. CASE SpawnSwap
  <2>1. /\ TakeNonce(Tx("swap", token)) /\ UNCHANGED <<mined, chainNonce, pending>>
        /\ swaps' = swaps \cup {Tx("swap", token)}
    BY <1>4 DEF SpawnSwap, chainVars
  <2> QED
    BY <1>1, <1>4, <2>1, SwapMatched, QuietFull DEF ChainFull, TakeNonce
<1>5. CASE MineNext
  <2>1. UNCHANGED <<issued, invPc, token>>
    BY <1>5 DEF MineNext, Mine, sweepVars
  <2> QED
    BY <1>1, <1>5, <2>1, MineFull, QuietMatched DEF MineNext
<1>6. CASE \/ DropBundle \/ BeginSweep \/ NothingToPull \/ WatchEnds \/ NothingToSweep
           \/ Bootstrap \/ \E t \in HarvestTokens : TradeLeavesDust(t)
           \/ UNCHANGED walletVars
  <2>1. UNCHANGED <<issued, mined, chainNonce, swaps>> /\ pending' \subseteq pending
    BY <1>6 DEF DropBundle, BeginSweep, NothingToPull, WatchEnds, NothingToSweep, Bootstrap,
                TradeLeavesDust, walletVars, chainVars, sweepVars
  <2>2. UNCHANGED <<invPc, token>> \/ invPc' # "swap"
    BY <1>6 DEF DropBundle, BeginSweep, NothingToPull, WatchEnds, NothingToSweep, NextToken,
                Bootstrap, TradeLeavesDust, walletVars, sweepVars
  <2> QED
    BY <1>1, <2>1, <2>2, QuietMatched, QuietFull DEF ChainFull
<1>7. CASE SendSwaps
  <2>1. PICK tx \in swaps, ok \in BOOLEAN : SendSwap(tx, ok)
    BY <1>7 DEF SendSwaps
  <2>2. /\ UNCHANGED <<issued, mined, chainNonce, invPc, token>>
        /\ pending' \subseteq pending \cup {tx} /\ swaps' \subseteq swaps
    BY <2>1 DEF SendSwap, Send
  <2> QED
    BY <1>1, <2>2, QuietMatched, QuietFull DEF ChainFull
<1> QED
  BY <1>0, <1>2, <1>3, <1>4, <1>5, <1>6, <1>7 DEF WalletNext

\* Swaps on chain are matched with different approvals on chain.
LEMMA MinedBacked ==
    ASSUME NonceInv, epoch = 0, Matched, ChainFull, NEW t
    PROVE  Cardinality({m \in mined : m.kind = "swap" /\ m.token = t})
              <= Cardinality({m \in mined : m.kind = "approve" /\ m.token = t})
<1> DEFINE S == {m \in mined : m.kind = "swap" /\ m.token = t}
           A == {m \in mined : m.kind = "approve" /\ m.token = t}
           f == [s \in S |-> CHOOSE a \in issued : Backs(a, s)]
<1>1. \A tx \in issued : tx.nonce \in Nat /\ tx.epoch = 0
  BY DEF NonceInv, BelowCounter
<1>2. ASSUME NEW s \in S
      PROVE  Backs(f[s], s) /\ f[s] \in A
  <2>1. s \in issued /\ s.kind = "swap" /\ s.token = t /\ s.nonce < chainNonce
    BY DEF ChainFull
  <2>2. Backs(f[s], s) /\ f[s] \in issued
    BY <2>1 DEF Matched
  <2>3. f[s].nonce \in Nat /\ f[s].nonce < chainNonce
    BY <1>1, <2>1, <2>2 DEF Backs, NonceInv, BelowCounter
  <2>4. PICK m \in mined : m.nonce = f[s].nonce
    BY <2>3 DEF ChainFull
  <2>5. m = f[s]
    BY <1>1, <2>2, <2>4 DEF ChainFull, NonceInv, NonceUnique
  <2> QED
    BY <2>1, <2>2, <2>5 DEF Backs, Approvals
<1>3. ASSUME NEW r \in S, NEW s \in S, f[r] = f[s]
      PROVE  r = s
  <2>1. /\ r \in Swaps(t) /\ s \in Swaps(t) /\ r.token = t /\ s.token = t
        /\ r \in issued /\ s \in issued
    BY DEF Swaps, ChainFull
  <2>2. /\ f[s].nonce < r.nonce /\ f[s].nonce < s.nonce
        /\ r.nonce < f[s].nonce \/ r.nonce >= s.nonce
        /\ s.nonce < f[s].nonce \/ s.nonce >= r.nonce
    BY <1>2, <1>3, <2>1 DEF Backs
  <2>3. f[s] \in issued
    BY <1>2 DEF ChainFull
  <2>4. r.nonce = s.nonce
    BY <1>1, <2>1, <2>2, <2>3
  <2> QED
    BY <1>1, <2>1, <2>4 DEF NonceInv, NonceUnique
<1>4. f \in Injection(S, A)
  BY <1>2, <1>3 DEF Injection, IsInjective
<1>5. IsFiniteSet(A)
  BY FS_Subset DEF ChainFull
<1> QED
  BY <1>4, <1>5, FS_Injection

\* Until a restart, the router was approved at least as often as it swapped,
\* token by token and on chain, although approvals are not watched and swaps are
\* sent by tasks of their own.
THEOREM SwapsAlwaysBacked == WalletSpec => []SwapsBacked
<1>1. WalletInit => BackInv
  BY FS_EmptySet DEF WalletInit, BackInv, Matched, ChainFull
<1>2. NonceInv /\ BackInv => SwapsBacked
  BY MinedBacked DEF BackInv, SwapsBacked
<1> QED
  BY <1>1, <1>2, NonceInvariance, BackStep, PTL DEF WalletSpec

-----------------------------------------------------------------------------
(* The sweep.                                                              *)

\* A sweep that is over never leaves running set: every way out of its last token
\* clears the flag, whatever was refused on the way.
THEOREM FlagReturned == WalletSpec => []SweepFlagReturned
<1>1. WalletInit => SweepFlagReturned
  BY DEF WalletInit, SweepFlagReturned
<1>2. SweepFlagReturned /\ [WalletNext]_walletVars => SweepFlagReturned'
  BY DEF SweepFlagReturned, WalletNext, Bootstrap, SendBundle, DropBundle, UnwrapWeth,
         PullToken, ApproveRouter, BeginSweep, NothingToPull, WatchEnds, NothingToSweep,
         NextToken, SpawnSwap, SendSwaps, SendSwap, MineNext, Mine, TradeLeavesDust, Restart,
         sweepVars, walletVars
<1> QED
  BY <1>1, <1>2, PTL DEF WalletSpec

=============================================================================
