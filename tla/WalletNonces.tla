---------------------------- MODULE WalletNonces ----------------------------
(***************************************************************************)
(* One wallet, one NonceManager (nonce_manager.rs) and everybody who draws *)
(* nonces from it: the executor's bundles, the gas check and the hourly    *)
(* sweep of the inventory manager (inventory_manager.rs) and the swaps the *)
(* sweep leaves to tasks of their own.  The node and the chain are         *)
(* external: the node takes or refuses a transaction, and the chain takes  *)
(* the transactions of the wallet in nonce order.                          *)
(*                                                                         *)
(* A balance above the dust threshold is membership in a set.  Which       *)
(* amounts move is left out; whether a send succeeds, what the code does   *)
(* when it does not, and the order of the nonces are not.                  *)
(***************************************************************************)
EXTENDS Naturals, FiniteSets

CONSTANTS
    HarvestTokens,  \* harvest_registry without WETH, which the sweep skips
    MaxNonce,       \* bound: nonces drawn
    MaxRestarts     \* bound: restarts of the process

ASSUME WalletAssumption == MaxNonce \in Nat /\ MaxRestarts \in Nat

VARIABLES
    nextNonce,     \* NonceManager::current
    chainNonce,    \* transactions of the wallet on chain
    epoch,         \* starts of the process so far
    issued,        \* every transaction that was given a nonce
    pending,       \* transactions the node or a relay holds
    lost,          \* transactions that were refused or dropped
    mined,         \* transactions on chain
    live,          \* the bootstrap is over
    invPc,         \* inventory loop: "wait", "pull", "watch", "approve" or "swap"
    running,       \* InventoryManager::running
    todo,          \* tokens the sweep has still to visit
    token,         \* the token the sweep is at
    swaps,         \* swaps handed to spawned tasks and not sent yet
    contractDust,  \* tokens the executor contract holds
    walletDust     \* tokens the wallet holds

chainVars == <<chainNonce, pending, lost, mined>>
sweepVars == <<invPc, running, todo, token, swaps>>
dustVars  == <<contractDust, walletDust>>
bootVars  == <<live, epoch>>
walletVars == <<nextNonce, issued, chainVars, sweepVars, dustVars, bootVars>>

NoToken == "none"

Tx(kind, tok) == [nonce |-> nextNonce, kind |-> kind, token |-> tok, epoch |-> epoch]

WalletInit ==
    /\ nextNonce = 0 /\ chainNonce = 0 /\ epoch = 0
    /\ issued = {} /\ pending = {} /\ lost = {} /\ mined = {}
    /\ live = FALSE
    /\ invPc = "wait" /\ running = FALSE /\ todo = {} /\ token = NoToken
    /\ swaps = {}
    /\ contractDust = {} /\ walletDust = {}

\* try_join!(ensure_ready(), ...): its error is dropped, and the start goes on.
Bootstrap ==
    /\ ~live
    /\ live' = TRUE
    /\ UNCHANGED <<nextNonce, issued, chainVars, sweepVars, dustVars, epoch>>

\* Mutant: the counter is read and written back, and the increment is lost.
PeekNonce(tx) ==
    /\ nextNonce < MaxNonce
    /\ issued' = issued \cup {tx}
    /\ UNCHANGED nextNonce

\* Mutant: a nonce is skipped.
SkipNonce(tx) ==
    /\ nextNonce < MaxNonce
    /\ issued' = issued \cup {tx}
    /\ nextNonce' = nextNonce + 2

\* NonceManager::next, fetch_add.
TakeNonce(tx) ==
    /\ nextNonce < MaxNonce
    /\ issued' = issued \cup {tx}
    /\ nextNonce' = nextNonce + 1

\* The node may take a transaction whose nonce is not used up and not held by
\* another one; it may refuse any.
MayTake(tx) == tx.nonce >= chainNonce /\ \A p \in pending : p.nonce # tx.nonce

Send(tx, ok) ==
    /\ ok => MayTake(tx)
    /\ pending' = IF ok THEN pending \cup {tx} ELSE pending
    /\ lost' = IF ok THEN lost ELSE lost \cup {tx}
    /\ UNCHANGED <<chainNonce, mined>>

-----------------------------------------------------------------------------
(* The executor.                                                           *)

\* A bundle is signed with the next nonce; the relays hold it, whatever the
\* public node has.
SendBundle ==
    LET tx == Tx("bundle", NoToken) IN
    /\ live
    /\ TakeNonce(tx)
    /\ pending' = pending \cup {tx}
    /\ UNCHANGED <<chainNonce, lost, mined, sweepVars, dustVars, bootVars>>

\* Rejected by every relay, or its blocks passed without it.
DropBundle ==
    \E tx \in pending :
        /\ tx.kind = "bundle"
        /\ pending' = pending \ {tx}
        /\ lost' = lost \cup {tx}
        /\ UNCHANGED <<nextNonce, issued, chainNonce, mined, sweepVars, dustVars, bootVars>>

-----------------------------------------------------------------------------
(* The inventory loop: a gas check or a sweep at a time.                   *)

\* unwrap_weth_if_needed on a low balance: sent and not watched.
UnwrapWeth(ok) ==
    LET tx == Tx("unwrap", NoToken) IN
    /\ live /\ invPc = "wait"
    /\ TakeNonce(tx)
    /\ Send(tx, ok)
    /\ UNCHANGED <<sweepVars, dustVars, bootVars>>

\* Mutant: the flag is not cleared when the last token is done.
NextTokenLeaks(flag) ==
    \/ /\ todo = {}
       /\ invPc' = "wait" /\ token' = NoToken /\ running' = flag
       /\ UNCHANGED todo
    \/ \E t \in todo :
         invPc' = "pull" /\ token' = t /\ todo' = todo \ {t} /\ running' = flag

\* The next token, or the end of the sweep; flag is what the loop leaves in
\* running when it goes on.
NextToken(flag) ==
    \/ /\ todo = {}
       /\ invPc' = "wait" /\ token' = NoToken /\ running' = FALSE
       /\ UNCHANGED todo
    \/ \E t \in todo :
         invPc' = "pull" /\ token' = t /\ todo' = todo \ {t} /\ running' = flag

\* auto_sweep past its checks: gas is cheap and the breaker closed.
BeginSweep ==
    /\ live /\ invPc = "wait" /\ ~running
    /\ running' = TRUE
    /\ \E t \in HarvestTokens :
         /\ invPc' = "pull" /\ token' = t /\ todo' = HarvestTokens \ {t}
    /\ UNCHANGED <<nextNonce, issued, chainVars, swaps, dustVars, bootVars>>

\* balanceOf the contract finds too little, or fails, which counts as zero.
NothingToPull ==
    /\ invPc = "pull"
    /\ invPc' = "approve"
    /\ UNCHANGED <<nextNonce, issued, chainVars, running, todo, token, swaps,
                   dustVars, bootVars>>

\* withdrawToken; when the node takes it, its confirmation is awaited.
PullToken(ok) ==
    LET tx == Tx("withdraw", token) IN
    /\ invPc = "pull" /\ token \in contractDust
    /\ TakeNonce(tx)
    /\ Send(tx, ok)
    /\ invPc' = IF ok THEN "watch" ELSE "approve"
    /\ UNCHANGED <<running, todo, token, swaps, dustVars, bootVars>>

\* watch() comes back with the confirmation or with an error, which is dropped.
WatchEnds ==
    /\ invPc = "watch"
    /\ invPc' = "approve"
    /\ UNCHANGED <<nextNonce, issued, chainVars, running, todo, token, swaps, dustVars, bootVars>>

\* balanceOf the wallet, likewise.
NothingToSweep ==
    /\ invPc = "approve"
    /\ NextToken(running)
    /\ UNCHANGED <<nextNonce, issued, chainVars, swaps, dustVars, bootVars>>

\* Mutant: the swap draws its nonce before the approval.
ApproveLate(ok) ==
    LET swap == Tx("swap", token)
        tx   == [Tx("approve", token) EXCEPT !.nonce = nextNonce + 1]
    IN
    /\ invPc = "approve" /\ token \in walletDust /\ ok
    /\ nextNonce + 1 < MaxNonce
    /\ issued' = issued \cup {swap, tx}
    /\ nextNonce' = nextNonce + 2
    /\ swaps' = swaps \cup {swap}
    /\ Send(tx, ok)
    /\ NextToken(running)
    /\ UNCHANGED <<dustVars, bootVars>>

\* The approval is sent and not watched.  A refusal clears running, although the
\* sweep goes on with the next token.
ApproveRouter(ok) ==
    LET tx == Tx("approve", token) IN
    /\ invPc = "approve" /\ token \in walletDust
    /\ TakeNonce(tx)
    /\ Send(tx, ok)
    /\ \/ /\ ok
          /\ invPc' = "swap"
          /\ UNCHANGED <<running, todo, token>>
       \/ ~ok /\ NextToken(FALSE)
    /\ UNCHANGED <<swaps, dustVars, bootVars>>

\* The swap's nonce is drawn here; a task of its own sends it.
SpawnSwap ==
    LET tx == Tx("swap", token) IN
    /\ invPc = "swap"
    /\ TakeNonce(tx)
    /\ swaps' = swaps \cup {tx}
    /\ NextToken(running)
    /\ UNCHANGED <<chainVars, dustVars, bootVars>>

SendSwap(tx, ok) ==
    /\ tx \in swaps
    /\ swaps' = swaps \ {tx}
    /\ Send(tx, ok)
    /\ UNCHANGED <<nextNonce, issued, invPc, running, todo, token, dustVars, bootVars>>

-----------------------------------------------------------------------------
(* The chain, the other tokens that trades leave behind, and restarts.     *)

\* The next transaction in nonce order; others with its nonce are void.
Mine(tx) ==
    /\ tx \in pending /\ tx.nonce = chainNonce
    /\ chainNonce' = chainNonce + 1
    /\ mined' = mined \cup {tx}
    /\ pending' = {p \in pending : p.nonce # chainNonce}
    /\ lost' = lost \cup {p \in pending : p.nonce = chainNonce /\ p # tx}
    /\ contractDust' = IF tx.kind = "withdraw" THEN contractDust \ {tx.token} ELSE contractDust
    /\ walletDust' = CASE tx.kind = "withdraw" -> walletDust \cup {tx.token}
                       [] tx.kind = "swap"     -> walletDust \ {tx.token}
                       [] OTHER                -> walletDust
    /\ UNCHANGED <<nextNonce, issued, sweepVars, bootVars>>

TradeLeavesDust(t) ==
    /\ live /\ t \notin contractDust
    /\ contractDust' = contractDust \cup {t}
    /\ UNCHANGED <<nextNonce, issued, chainVars, sweepVars, walletDust, bootVars>>

\* The process starts again: NonceManager::new reads get_transaction_count, which
\* does not count what the node still holds.
Restart ==
    /\ live /\ epoch < MaxRestarts
    /\ epoch' = epoch + 1
    /\ nextNonce' = chainNonce
    /\ live' = FALSE
    /\ invPc' = "wait" /\ running' = FALSE /\ todo' = {} /\ token' = NoToken
    /\ swaps' = {}
    /\ lost' = lost \cup swaps
    /\ UNCHANGED <<issued, chainNonce, pending, mined, dustVars>>

SendSwaps == \E tx \in swaps, ok \in BOOLEAN : SendSwap(tx, ok)

MineNext == \E tx \in pending : Mine(tx)

WalletNext ==
    \/ Bootstrap
    \/ SendBundle \/ DropBundle
    \/ \E ok \in BOOLEAN : UnwrapWeth(ok) \/ PullToken(ok) \/ ApproveRouter(ok)
    \/ BeginSweep \/ NothingToPull \/ WatchEnds \/ NothingToSweep \/ SpawnSwap
    \/ SendSwaps
    \/ MineNext
    \/ \E t \in HarvestTokens : TradeLeavesDust(t)
    \/ Restart

\* A spawned swap is polled until it is sent, and the chain goes on.
WalletSpec ==
    /\ WalletInit /\ [][WalletNext]_walletVars
    /\ WF_walletVars(SendSwaps) /\ WF_walletVars(MineNext)

-----------------------------------------------------------------------------
(* Properties.                                                             *)

Nonces == 0 .. MaxNonce

\* Bundles, sweeps, swaps and unwraps of one run of the process never share a
\* nonce, whatever the order in which their tasks draw and send.
NonceUnique ==
    \A a, b \in issued : a.nonce = b.nonce /\ a.epoch = b.epoch => a = b

\* A swap reaches the chain only behind an approval of its own: until a restart
\* gives its nonces out again, the router has been approved at least as often as
\* it has swapped, although the approval is not watched and another task sends
\* the swap.
SwapsBacked ==
    epoch = 0 => \A t \in HarvestTokens :
        Cardinality({m \in mined : m.kind = "swap" /\ m.token = t})
            <= Cardinality({m \in mined : m.kind = "approve" /\ m.token = t})

\* A sweep that is over never leaves running set, which would turn every later
\* sweep away, whichever way its last token went.
SweepFlagReturned == invPc = "wait" => ~running

\* A gap has a culprit: a nonce between the chain's and the counter belongs to a
\* transaction that is held by the node, on its way to it, or was refused or
\* dropped; no interleaving of the senders, and no restart while older
\* transactions are still out, leaves a nonce nobody ever used.
GapsExplained ==
    \A n \in chainNonce .. nextNonce - 1 : \E tx \in pending \cup swaps \cup lost : tx.nonce = n

\* As long as no transaction is refused or dropped, everything the node holds is
\* mined, although the senders finish in any order.
MinedUnlessLost ==
    [](lost = {}) =>
        \A n \in Nonces : (\E tx \in pending : tx.nonce = n) ~> (chainNonce > n)

=============================================================================
