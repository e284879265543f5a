------------------------------- MODULE ERC721 -------------------------------
(***************************************************************************)
(* The ERC721 ledger that iTicketing and Poap inherit, with balances and   *)
(* approvals; Ticketing abstracts it to the owners. Minting, and a safe    *)
(* transfer, hand control to a receiver that is a contract; the receiver   *)
(* may call the ledger again and may refuse, which undoes the call with    *)
(* all that was called from within it. _burn is never called.              *)
(* Faulty variants of a definition precede it; no specification uses them. *)
(***************************************************************************)
EXTENDS Calls, FiniteSets

CONSTANTS
  Accounts,  \* the contracts in Wallets among them
  Tokens,    \* the numbers tokens may get
  MaxOperators,  \* bound on the operators approved at a time
  NoOne      \* the zero address, no account

ASSUME LedgerAssumption ==
  /\ NoOne \notin Accounts
  /\ IsFiniteSet(Tokens)

VARIABLES
  owners,              \* NoOne if the token does not exist
  balances,
  tokenApprovals,      \* NoOne if nobody is approved
  operatorApprovals,   \* the pairs of an account and an operator of it
  trusting,            \* the accounts an approval was ever made for
  caller               \* of the last call, or "callback" when one ended

ledgerVars == <<owners, balances, tokenApprovals, operatorApprovals, trusting, caller,
          stack, gas>>

ledger == <<owners, balances, tokenApprovals, operatorApprovals, trusting>>

LedgerInit ==
  /\ owners = [id \in Tokens |-> NoOne]
  /\ balances = [a \in Accounts |-> 0]
  /\ tokenApprovals = [id \in Tokens |-> NoOne]
  /\ operatorApprovals = {}
  /\ trusting = {}
  /\ caller = "callback"
  /\ NoCalls

Exists(id) == owners[id] # NoOne

Call(a) == MayCall(a) /\ caller' = a

\* Wait for onERC721Received of a receiver that is a contract.
CheckOnERC721Received(to) ==
  IF to \in Wallets THEN Push(ledger) ELSE Done

\* The contracts mint numbers they have not used.
SafeMint(a, to, id) ==
  /\ Call(a)
  /\ ~Exists(id)
  /\ balances' = [balances EXCEPT ![to] = @ + 1]
  /\ owners' = [owners EXCEPT ![id] = to]
  /\ CheckOnERC721Received(to)
  /\ UNCHANGED <<tokenApprovals, operatorApprovals, trusting>>

MayActFor(a, owner) == a = owner \/ <<owner, a>> \in operatorApprovals

Approve(a, to, id) ==
  /\ Call(a)
  /\ Exists(id)
  /\ to # owners[id]
  /\ MayActFor(a, owners[id])
  /\ tokenApprovals' = [tokenApprovals EXCEPT ![id] = to]
  /\ trusting' = trusting \cup {owners[id]}
  /\ Done
  /\ UNCHANGED <<owners, balances, operatorApprovals>>

SetApprovalForAll(a, operator, approved) ==
  /\ Call(a)
  /\ operator # a
  /\ operatorApprovals' = IF approved THEN operatorApprovals \cup {<<a, operator>>}
                                      ELSE operatorApprovals \ {<<a, operator>>}
  /\ Cardinality(operatorApprovals') <= MaxOperators
  /\ trusting' = trusting \cup {a}
  /\ Done
  /\ UNCHANGED <<owners, balances, tokenApprovals>>

IsApprovedOrOwner(spender, id) ==
  MayActFor(spender, owners[id]) \/ tokenApprovals[id] = spender

ShiftedAtOnce(from, to) ==
  [balances EXCEPT ![from] = balances[from] - 1, ![to] = balances[to] + 1]

\* One after the other: the two accounts may be the same.
Shifted(from, to) ==
  [[balances EXCEPT ![from] = @ - 1] EXCEPT ![to] = @ + 1]

ClearedNot(id) == tokenApprovals
Cleared(id) == [tokenApprovals EXCEPT ![id] = NoOne]

Transfer(a, to, id) ==
  /\ Call(a)
  /\ Exists(id)
  /\ IsApprovedOrOwner(a, id)
  /\ tokenApprovals' = Cleared(id)
  /\ balances' = Shifted(owners[id], to)
  /\ owners' = [owners EXCEPT ![id] = to]
  /\ UNCHANGED <<operatorApprovals, trusting>>

TransferFrom(a, to, id) == Transfer(a, to, id) /\ Done

SafeTransferFrom(a, to, id) == Transfer(a, to, id) /\ CheckOnERC721Received(to)

\* The receiver accepts.
Accepted ==
  /\ stack # <<>>
  /\ caller' = "callback"
  /\ Leave
  /\ UNCHANGED ledger

\* The receiver refuses, fails or runs out of gas.
Refused ==
  /\ stack # <<>>
  /\ caller' = "callback"
  /\ owners' = Top[1] /\ balances' = Top[2] /\ tokenApprovals' = Top[3]
  /\ operatorApprovals' = Top[4] /\ trusting' = Top[5]
  /\ Leave

LedgerNext ==
  \/ \E a \in Accounts :
       \/ \E to \in Accounts, id \in Tokens :
            SafeMint(a, to, id) \/ TransferFrom(a, to, id) \/ SafeTransferFrom(a, to, id)
       \/ \E to \in Accounts \cup {NoOne}, id \in Tokens : Approve(a, to, id)
       \/ \E operator \in Accounts, approved \in BOOLEAN :
            SetApprovalForAll(a, operator, approved)
  \/ Accepted \/ Refused

LedgerSpec == LedgerInit /\ [][LedgerNext]_ledgerVars

-----------------------------------------------------------------------------
(* Properties *)

TokensOf(own, a) == {id \in Tokens : own[id] = a}

(* The unchecked arithmetic is right: an account's balance is the number of *)
(* its tokens, in the middle of callbacks too and after any of them is      *)
(* undone.                                                                  *)
BalancesCount ==
  \A a \in Accounts : balances[a] = Cardinality(TokensOf(owners, a))

(* Who never approved anyone, nor had an operator do so, loses no token but *)
(* by a call of its own: what earlier owners of the token approved is over, *)
(* whatever was called from within a transfer or undone with it.            *)
TrustingNobodyKeepsTokens ==
  [][caller' # "callback" =>
       \A id \in Tokens : Exists(id) /\ owners'[id] # owners[id] =>
         caller' = owners[id] \/ owners[id] \in trusting]_ledgerVars

-----------------------------------------------------------------------------
(* The inductive invariant: what holds of the ledger holds of every state   *)
(* of it kept for a revert.                                                 *)

\* Approvals come from accounts that are trusting, and a token that does not
\* exist has none.
ApprovalsOK(own, tok, ops, tru) ==
  /\ tok \in [Tokens -> Accounts \cup {NoOne}]
  /\ tru \subseteq Accounts
  /\ \A id \in Tokens : tok[id] # NoOne => own[id] \in tru
  /\ \A owner, operator \in Accounts :
       <<owner, operator>> \in ops => owner \in tru

BalancesOK(own, bal) ==
  /\ bal \in [Accounts -> Nat]
  /\ \A a \in Accounts : bal[a] = Cardinality(TokensOf(own, a))

LedgerOK(own, bal, tok, ops, tru) ==
  /\ own \in [Tokens -> Accounts \cup {NoOne}]
  /\ BalancesOK(own, bal)
  /\ ApprovalsOK(own, tok, ops, tru)

LedgerIInv ==
  /\ LedgerOK(owners, balances, tokenApprovals, operatorApprovals, trusting)
  /\ CallsInv
  /\ \A i \in DOMAIN stack :
       LedgerOK(stack[i][1], stack[i][2], stack[i][3], stack[i][4], stack[i][5])

=============================================================================
