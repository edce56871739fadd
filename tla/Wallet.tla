--------------------------------- MODULE Wallet ---------------------------------
(***************************************************************************)
(* What is posted to the ledger one trip or one order at a time: trips     *)
(* that have ended, top-ups and refunds.  Each has rows and a transaction  *)
(* id of its own and they share no state, so a behaviour is about one of   *)
(* them.                                                                   *)
(***************************************************************************)
EXTENDS Ledger, TopUps, Refunds

VARIABLE posting    \* of which kind

walletVars == <<posting, ledgerVars, topUpVars, vars>>

WalletInit ==
  /\ posting \in {"trip", "topUp", "refund"}
  /\ LedgerInit /\ (posting # "trip" => \A t \in Trips : ~cash[t])
  /\ TopUpInit
  /\ Init

WalletNext ==
  /\ \/ posting = "trip" /\ LedgerNext /\ UNCHANGED <<topUpVars, vars>>
     \/ posting = "topUp" /\ TopUpNext /\ UNCHANGED <<ledgerVars, vars>>
     \/ posting = "refund" /\ Next /\ UNCHANGED <<ledgerVars, topUpVars>>
  /\ UNCHANGED posting

\* No message or approval waits in an initial state: where the behaviour is about
\* something else, the fairness asks for nothing.
WalletSpec == WalletInit /\ [][WalletNext]_walletVars /\ LedgerFairness /\ Fairness

WalletTypeOK == LedgerTypeOK /\ TopUpTypeOK /\ TypeOK
===============================================================================
